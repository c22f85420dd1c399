----------------------------- MODULE ListingProofs -----------------------------
(***************************************************************************)
(* Links are accepted again, and a walk along them passes every row that   *)
(* stays, for any policy, table, page size and writes.                     *)
(***************************************************************************)
EXTENDS ListingInvariant, QueryProofs

-----------------------------------------------------------------------------
(* Links                                                                   *)

Having(r, names) == {q \in Range(r) : q.name \in names}
ValuesIn(S) == {q.value : q \in S}

\* What a fault-free request says is said by the parameters it has.
LEMMA SaidBy ==
    ASSUME NEW T, NEW r \in Seq(T), NEW known, Faulty(r, known) = {}
    PROVE  /\ \A family \in Families, p \in Range(r) : \A default :
                p.name \in family => ValueOf(r, family, default) = p.value
           /\ \A names, default :
                (\A p \in Range(r) : p.name \notin names) => ValueOf(r, names, default) = default
           /\ \A names : Naming(r, names) = {} <=> \A p \in Range(r) : p.name \notin names
           /\ FiltersOf(r) = ValuesIn(Having(r, {"filter"}))
<1>1. ASSUME NEW family \in Families, NEW p \in Range(r), NEW default, p.name \in family
      PROVE  ValueOf(r, family, default) = p.value
  <2>1. PICK n \in DOMAIN r : p = r[n]
    BY DEF Range
  <2>2. n \in Naming(r, family)
    BY <1>1, <2>1 DEF Naming
  <2> QED
    BY <2>1, <2>2, ValueGiven
<1>2. \A names : Naming(r, names) = {} <=> \A p \in Range(r) : p.name \notin names
  BY DEF Naming, Range
<1>3. FiltersOf(r) = ValuesIn(Having(r, {"filter"}))
  BY DEF FiltersOf, Naming, Range, ValuesIn, Having
<1>4. \A names, default :
        (\A p \in Range(r) : p.name \notin names) => ValueOf(r, names, default) = default
  BY <1>2 DEF ValueOf
<1> QED
  BY <1>1, <1>2, <1>3, <1>4

LEMMA PreservedIs ==
    ASSUME NEW T, NEW r \in Seq(T), NEW known, Faulty(r, known) = {}
    PROVE  /\ Preserved(r) \in Seq(T)
           /\ Range(Preserved(r)) = {p \in Range(r) : ~ IsPage(p.name)}
           /\ \A m, n \in DOMAIN Preserved(r) :
                Key(Preserved(r)[m]) = Key(Preserved(r)[n]) => m = n
<1> DEFINE S == {n \in DOMAIN r : ~ IsPage(r[n].name)}
           N == Cardinality(S)
           e == Preserved(r)
<1>1. S \in SUBSET DOMAIN r /\ e = Extract(r, S)
  BY DEF Preserved
<1>2. \A n \in S : n \in DOMAIN r /\ ~ IsPage(r[n].name)
  OBVIOUS
<1>3. \A p \in Range(r) : ~ IsPage(p.name) => \E n \in S : p = r[n]
  BY DEF Range
<1> HIDE DEF S, e
<1>4. /\ N \in Nat /\ e \in Seq(T) /\ Len(e) = N
      /\ \E at \in [1 .. N -> S] :
            /\ \A k \in 1 .. N : e[k] = r[at[k]]
            /\ \A n \in S : \E k \in 1 .. N : at[k] = n
            /\ \A j, k \in 1 .. N : j < k => at[j] < at[k]
  BY <1>1, Extracted
<1>5. DOMAIN e = 1 .. N
  BY <1>4, LenProperties
<1>6. PICK at \in [1 .. N -> S] :
        /\ \A k \in 1 .. N : e[k] = r[at[k]]
        /\ \A n \in S : \E k \in 1 .. N : at[k] = n
        /\ \A j, k \in 1 .. N : j < k => at[j] < at[k]
  BY <1>4
<1>7. Range(e) = {p \in Range(r) : ~ IsPage(p.name)}
  <2>1. \A k \in 1 .. N : e[k] \in Range(r) /\ ~ IsPage(e[k].name)
    BY <1>2, <1>6 DEF Range
  <2>2. \A p \in Range(r) : ~ IsPage(p.name) => \E k \in 1 .. N : p = e[k]
    BY <1>3, <1>6
  <2>3. Range(e) = {e[k] : k \in 1 .. N}
    BY <1>5 DEF Range
  <2> QED
    BY <2>1, <2>2, <2>3
<1>8. ASSUME NEW m \in 1 .. N, NEW n \in 1 .. N, Key(e[m]) = Key(e[n]) PROVE m = n
  <2>1. at[m] \in DOMAIN r /\ at[n] \in DOMAIN r
    BY <1>2, <1>6
  <2>2. at[m] = at[n]
    BY <1>6, <1>8, <2>1, GivenOnce
  <2>3. DOMAIN r \subseteq Int
    BY LenProperties
  <2>4. ~ (m < n) /\ ~ (n < m)
    BY <1>6, <2>1, <2>2, <2>3
  <2> QED
    BY <1>4, <2>4
<1> QED
  BY <1>4, <1>5, <1>7, <1>8 DEF e

\* Nothing that may be given once is given twice.
Once(s) == \A m, n \in DOMAIN s : Key(s[m]) = Key(s[n]) => m = n

LEMMA OnceMore ==
    ASSUME NEW T, NEW s \in Seq(T), NEW x, Once(s), \A p \in Range(s) : Key(p) # Key(x)
    PROVE  /\ Append(s, x) \in Seq(T \cup {x}) /\ Once(Append(s, x))
           /\ Range(Append(s, x)) = Range(s) \cup {x}
<1> DEFINE t == Append(s, x)
<1>1. s \in Seq(T \cup {x}) /\ x \in T \cup {x}
  BY SeqMonotonic
<1>2. DOMAIN s = 1 .. Len(s) /\ Len(s) \in Nat
  BY LenProperties
<1>3. /\ t \in Seq(T \cup {x}) /\ DOMAIN t = 1 .. Len(s) + 1
      /\ \A n \in 1 .. Len(s) : t[n] = s[n]
      /\ t[Len(s) + 1] = x
  BY <1>1, AppendProperties, LenProperties
<1> HIDE DEF t
<1>4. \A n \in 1 .. Len(s) : s[n] \in Range(s) /\ Key(t[n]) = Key(s[n]) /\ Key(s[n]) # Key(x)
  BY <1>2, <1>3 DEF Range
<1>5. Once(t)
  BY <1>2, <1>3, <1>4 DEF Once
<1>6. Range(t) = Range(s) \cup {x}
  <2>1. \A y \in Range(s) \cup {x} : \E n \in DOMAIN t : y = t[n]
    <3>1. \A y \in Range(s) : \E n \in DOMAIN s : y = s[n]
      BY DEF Range
    <3> QED
      BY <1>2, <1>3, <3>1
  <2>2. \A n \in DOMAIN t : t[n] \in Range(s) \cup {x}
    BY <1>2, <1>3, <1>4
  <2> QED
    BY <2>1, <2>2 DEF Range
<1> QED
  BY <1>3, <1>5, <1>6 DEF t

LEMMA TwoMore ==
    ASSUME NEW T, NEW s \in Seq(T), NEW x \in T, NEW y \in T
    PROVE  s \o <<x, y>> = Append(Append(s, x), y)
<1>1. <<x, y>> \in Seq(T) /\ Len(<<x, y>>) = 2 /\ <<x, y>>[1] = x /\ <<x, y>>[2] = y
  OBVIOUS
<1>2. Append(s, x) \in Seq(T)
  BY AppendProperties
<1> QED
  BY <1>1, <1>2, SeqEqual

Totals == [name |-> "totals", value |-> "true"]
SizeOf(spec) == [name |-> "size", value |-> spec.size]

LinkRange(r, spec, p) ==
    {q \in Range(r) : ~ IsPage(q.name)} \cup (IF spec.totals THEN {Totals} ELSE {}) \cup {p, SizeOf(spec)}

\* A link has what does not concern the page, and its own page.
LEMMA LinkIs ==
    ASSUME NEW T, NEW r \in Seq(T), NEW known, known \subseteq CollectionParameters, Faulty(r, known) = {},
           NEW spec, spec.totals \in BOOLEAN, NEW p, p.name \in {"number", "after", "before"}
    PROVE  LET l == Link(r, spec, p) IN
           /\ \E S : l \in Seq(S)
           /\ Once(l)
           /\ Range(l) = LinkRange(r, spec, p)
<1> DEFINE kept == Preserved(r)
           tot == IF spec.totals THEN <<Totals>> ELSE <<>>
           some == kept \o tot
           T1 == T \cup {Totals}
<1>1. kept \in Seq(T) /\ Once(kept) /\ Range(kept) = {q \in Range(r) : ~ IsPage(q.name)}
  BY PreservedIs DEF Once
<1>2. \A q \in Range(kept) : q.name \in {"filter", "sort", "include"}
  <2>1. \A q \in Range(r) : q.name \in CollectionParameters
    BY DEF Faulty, Range
  <2> QED
    BY <1>1, <2>1 DEF CollectionParameters, IsPage
<1>3. Key(Totals) = <<"totals">> /\ Key(SizeOf(spec)) = <<"size">> /\ Key(p) \in {<<"cursor">>, <<"number">>}
  BY DEF Totals, SizeOf, Key
<1>4. \A q : q.name \in {"filter", "sort", "include"} =>
        Key(q) \notin {<<"totals">>, <<"size">>, <<"cursor">>, <<"number">>}
  BY DEF Key
<1> HIDE DEF kept
<1>5. /\ some \in Seq(T1) /\ Once(some)
      /\ Range(some) = Range(kept) \cup (IF spec.totals THEN {Totals} ELSE {})
  <2>1. CASE spec.totals
    <3>3. tot = <<Totals>> /\ kept \in Seq(T1) /\ Totals \in T1
      BY <1>1, <2>1, SeqMonotonic
    <3>4. kept \o <<Totals>> = Append(kept, Totals)
      BY <3>3, AppendIsConcat
    <3>1. some = Append(kept, Totals)
      BY <3>3, <3>4
    <3>2. \A q \in Range(kept) : Key(q) # Key(Totals)
      BY <1>2, <1>3, <1>4
    <3>5. /\ Append(kept, Totals) \in Seq(T1) /\ Once(Append(kept, Totals))
          /\ Range(Append(kept, Totals)) = Range(kept) \cup {Totals}
      BY <1>1, <3>2, OnceMore
    <3> QED
      BY <2>1, <3>1, <3>5
  <2>2. CASE ~ spec.totals
    <3>1. some = kept
      BY <1>1, <2>2, ConcatEmptySeq
    <3> QED
      BY <1>1, <2>2, <3>1, SeqMonotonic
  <2> QED
    BY <2>1, <2>2
<1>6. \A q \in Range(some) : Key(q) \notin {<<"cursor">>, <<"number">>, <<"size">>}
  BY <1>2, <1>3, <1>4, <1>5
<1> DEFINE most == Append(some, p)
           all == Append(most, SizeOf(spec))
           T2 == T1 \cup {p}
<1>7. Link(r, spec, p) = all
  <2>1. Link(r, spec, p) = some \o <<p, SizeOf(spec)>>
    BY DEF Link, kept, Totals, SizeOf
  <2>2. some \in Seq(T2 \cup {SizeOf(spec)}) /\ {p, SizeOf(spec)} \subseteq T2 \cup {SizeOf(spec)}
    BY <1>5, SeqMonotonic
  <2> HIDE DEF some, T1, T2
  <2> QED
    BY <2>1, <2>2, TwoMore
<1> HIDE DEF some, T1
<1>8. most \in Seq(T2) /\ Once(most) /\ Range(most) = Range(some) \cup {p}
  BY <1>3, <1>5, <1>6, OnceMore
<1>9. \A q \in Range(most) : Key(q) # Key(SizeOf(spec))
  BY <1>3, <1>6, <1>8
<1> HIDE DEF most, T2
<1>10. all \in Seq(T2 \cup {SizeOf(spec)}) /\ Once(all) /\ Range(all) = Range(most) \cup {SizeOf(spec)}
  <2>1. PICK z : z = SizeOf(spec)
    OBVIOUS
  <2>2. most \in Seq(T2) /\ Once(most) /\ \A q \in Range(most) : Key(q) # Key(z)
    BY <1>8, <1>9, <2>1
  <2>3. /\ Append(most, z) \in Seq(T2 \cup {z}) /\ Once(Append(most, z))
        /\ Range(Append(most, z)) = Range(most) \cup {z}
    BY <2>2, OnceMore
  <2> QED
    BY <2>1, <2>3
<1> HIDE DEF all
<1> QED
  BY <1>1, <1>5, <1>7, <1>8, <1>10 DEF LinkRange

LEMMA InHaving ==
    ASSUME NEW r, NEW names, NEW q
    PROVE  q \in Having(r, names) <=> q \in Range(r) /\ q.name \in names
  BY DEF Having

LEMMA SameValue ==
    ASSUME NEW r, r \in Seq(Range(r)), NEW l, l \in Seq(Range(l)), NEW known,
           Faulty(r, known) = {}, Faulty(l, known) = {},
           NEW family \in Families, Having(l, family) = Having(r, family), NEW default
    PROVE  ValueOf(l, family, default) = ValueOf(r, family, default)
<1>1. CASE Having(r, family) = {}
  <2>1. (\A p \in Range(r) : p.name \notin family) /\ (\A p \in Range(l) : p.name \notin family)
    BY <1>1, InHaving
  <2> QED
    BY <2>1, SaidBy
<1>2. CASE Having(r, family) # {}
  <2>1. PICK p : p \in Having(r, family)
    BY <1>2
  <2>2. p \in Range(r) /\ p \in Range(l) /\ p.name \in family
    BY <2>1, InHaving
  <2> QED
    BY <2>2, SaidBy
<1> QED
  BY <1>1, <1>2

\* A link is understood as it was meant: what the request asked for, from the
\* page of the link.
LEMMA LinkRead ==
    ASSUME NEW r, Proper(r), NEW known, known \subseteq CollectionParameters, Faulty(r, known) = {},
           NEW p, WellFormed(p), Accepted(p), p.name \in {"number", "after", "before"},
           p.name \in known, "size" \in known
    PROVE  LET s == Read(r, known)
               l == Link(r, s, p)
               a == Read(l, known)
           IN  /\ Proper(l) /\ Faulty(l, known) = {} /\ Range(l) = LinkRange(r, s, p)
               /\ a.error = None /\ a.filters = s.filters /\ a.sorts = s.sorts
               /\ a.includes = s.includes /\ a.size = s.size /\ a.totals = s.totals
               /\ a.number = (IF p.name = "number" THEN p.value ELSE 1)
               /\ a.cursor = (IF p.name = "number" THEN None ELSE p.value)
               /\ a.before = (p.name = "before")
               /\ p.name # "number" => Naming(l, {"number"}) = {}
<1> DEFINE s == Read(r, known)
           l == Link(r, s, p)
           a == Read(l, known)
<1>1. s.totals = (ValueOf(r, {"totals"}, "false") = "true") /\ s.totals \in BOOLEAN
  BY DEF Read
<1>2. s.size \in Nat \ {0} /\ s.size <= MaxSize
  BY PageIsPage, PolicyAssumption DEF Proper
<1>3. Key(p) \in {<<"cursor">>, <<"number">>}
  BY DEF Key
<1>0. r \in Seq(Range(r))
  BY DEF Proper
<1> HIDE DEF s
<1>4. /\ \E S : l \in Seq(S)
      /\ Once(l)
      /\ Range(l) = LinkRange(r, s, p)
  <2>1. /\ \E S : Link(r, s, p) \in Seq(S)
        /\ Once(Link(r, s, p))
        /\ Range(Link(r, s, p)) = LinkRange(r, s, p)
    <3>1. s.totals \in BOOLEAN
      BY <1>1
    <3> HIDE DEF l, a
    <3> QED
      BY <1>0, <3>1, LinkIs
  <2> QED
    BY <2>1
<1> HIDE DEF l
<1>5. \A q : q \in Range(l) <=>
        \/ q \in Range(r) /\ ~ IsPage(q.name)
        \/ s.totals /\ q = Totals
        \/ q = p
        \/ q = SizeOf(s)
  BY <1>4 DEF LinkRange
<1>6. l \in Seq(Range(l))
  BY <1>4, SeqOfRange
<1>7. \A q \in Range(r) : q.name \in known /\ Accepted(q) /\ WellFormed(q)
  BY DEF Faulty, Range, Proper
<1>8. /\ Totals.name = "totals" /\ Totals.value = "true" /\ Accepted(Totals) /\ WellFormed(Totals)
      /\ SizeOf(s).name = "size" /\ SizeOf(s).value = s.size /\ Accepted(SizeOf(s)) /\ WellFormed(SizeOf(s))
  BY <1>2 DEF Totals, SizeOf, Accepted, WellFormed
<1>9. s.totals => "totals" \in known
  <2>1. s.totals => \E q \in Range(r) : q.name \in {"totals"}
    <3>1. (\A q \in Range(r) : q.name \notin {"totals"}) => ValueOf(r, {"totals"}, "false") = "false"
      BY SaidBy DEF Proper
    <3> QED
      BY <1>1, <3>1
  <2> QED
    BY <1>7, <2>1
<1>10. Proper(l)
  BY <1>5, <1>6, <1>7, <1>8 DEF Proper
<1>11. Faulty(l, known) = {}
  <2>1. \A n \in DOMAIN l : l[n].name \in known /\ Accepted(l[n])
    BY <1>5, <1>7, <1>8, <1>9 DEF Range
  <2>2. \A n \in DOMAIN l : \A m \in 1 .. n - 1 : Key(l[m]) # Key(l[n])
    <3>1. DOMAIN l = 1 .. Len(l) /\ Len(l) \in Nat
      BY <1>4, LenProperties
    <3>2. \A n \in DOMAIN l : \A m \in 1 .. n - 1 : m \in DOMAIN l /\ m # n
      BY <3>1
    <3> QED
      BY <1>4, <3>2 DEF Once
  <2> QED
    BY <2>1, <2>2 DEF Faulty
<1>12. \A q : IsPage(q.name) <=> q.name \in {"number", "size", "totals", "after", "before", "page"}
  BY DEF IsPage, PageParameters
<1>13. /\ Having(l, {"filter"}) = Having(r, {"filter"})
       /\ Having(l, {"sort"}) = Having(r, {"sort"})
       /\ Having(l, {"include"}) = Having(r, {"include"})
  BY <1>5, <1>8, <1>12 DEF Having
<1>14. /\ ValueOf(l, {"sort"}, DefaultSort) = ValueOf(r, {"sort"}, DefaultSort)
       /\ ValueOf(l, {"include"}, <<>>) = ValueOf(r, {"include"}, <<>>)
  BY <1>6, <1>11, <1>13, SameValue DEF Proper, Families
<1>15. FiltersOf(l) = FiltersOf(r)
  <2>1. FiltersOf(l) = ValuesIn(Having(l, {"filter"})) /\ FiltersOf(r) = ValuesIn(Having(r, {"filter"}))
    BY <1>6, <1>11, SaidBy DEF Proper
  <2> QED
    BY <1>13, <2>1
<1>16. ValueOf(l, {"number"}, 1) = IF p.name = "number" THEN p.value ELSE 1
  <2>1. CASE p.name = "number"
    BY <1>5, <1>6, <1>11, <2>1, SaidBy DEF Families
  <2>2. CASE p.name # "number"
    <3>1. \A q \in Range(l) : q.name \notin {"number"}
      BY <1>5, <1>8, <1>12, <2>2
    <3> QED
      BY <1>6, <1>11, <2>2, <3>1, SaidBy
  <2> QED
    BY <2>1, <2>2
<1>17. ValueOf(l, {"after", "before"}, None) = IF p.name = "number" THEN None ELSE p.value
  <2>1. CASE p.name # "number"
    BY <1>5, <1>6, <1>11, <2>1, SaidBy DEF Families
  <2>2. CASE p.name = "number"
    <3>1. \A q \in Range(l) : q.name \notin {"after", "before"}
      BY <1>5, <1>8, <1>12, <2>2
    <3> QED
      BY <1>6, <1>11, <2>2, <3>1, SaidBy
  <2> QED
    BY <2>1, <2>2
<1>18. ValueOf(l, {"size"}, DefaultSize) = s.size
  BY <1>5, <1>6, <1>8, <1>11, SaidBy DEF Families
<1>19. (ValueOf(l, {"totals"}, "false") = "true") = s.totals
  <2>1. CASE s.totals
    <3>1. Totals \in Range(l)
      BY <1>5, <2>1
    <3>2. ValueOf(l, {"totals"}, "false") = "true"
      BY <1>6, <1>8, <1>11, <3>1, SaidBy DEF Families
    <3> QED
      BY <2>1, <3>2
  <2>2. CASE ~ s.totals
    <3>1. \A q \in Range(l) : q.name \notin {"totals"}
      BY <1>5, <1>8, <1>12, <2>2
    <3>2. ValueOf(l, {"totals"}, "false") = "false"
      BY <1>6, <1>11, <3>1, SaidBy
    <3> QED
      BY <1>1, <2>2, <3>2
  <2> QED
    BY <1>1, <2>1, <2>2
<1>20. (Naming(l, {"before"}) = {}) = (p.name # "before")
  <2>1. (\A q \in Range(l) : q.name \notin {"before"}) <=> p.name # "before"
    BY <1>5, <1>8, <1>12
  <2> QED
    BY <1>6, <1>11, <2>1, SaidBy
<1>21. p.name # "number" => Naming(l, {"number"}) = {}
  <2>1. p.name # "number" => \A q \in Range(l) : q.name \notin {"number"}
    BY <1>5, <1>8, <1>12
  <2> QED
    BY <1>6, <1>11, <2>1, SaidBy
<1>22. a = Understood(FiltersOf(l),
                ValueOf(l, {"sort"}, DefaultSort), ValueOf(l, {"include"}, <<>>),
                ValueOf(l, {"number"}, 1), ValueOf(l, {"size"}, DefaultSize),
                ValueOf(l, {"totals"}, "false"), ValueOf(l, {"after", "before"}, None),
                Naming(l, {"before"}) = {})
  BY <1>11, ReadUnderstands
<1>23. s = Understood(FiltersOf(r),
                ValueOf(r, {"sort"}, DefaultSort), ValueOf(r, {"include"}, <<>>),
                ValueOf(r, {"number"}, 1), ValueOf(r, {"size"}, DefaultSize),
                ValueOf(r, {"totals"}, "false"), ValueOf(r, {"after", "before"}, None),
                Naming(r, {"before"}) = {})
  BY ReadUnderstands DEF s
<1>24. a.size = s.size
  <2>1. a.size = IF s.size < MaxSize THEN s.size ELSE MaxSize
    BY <1>18, <1>22 DEF Understood
  <2> QED
    BY <1>2, <2>1, PolicyAssumption
<1>25. a.error = None /\ a.filters = s.filters /\ a.sorts = s.sorts /\ a.includes = s.includes
  BY <1>14, <1>15, <1>22, <1>23 DEF Understood
<1>26. /\ a.totals = s.totals
       /\ a.number = (IF p.name = "number" THEN p.value ELSE 1)
       /\ a.cursor = (IF p.name = "number" THEN None ELSE p.value)
       /\ a.before = (p.name = "before")
  BY <1>16, <1>17, <1>19, <1>20, <1>22 DEF Understood
<1> QED
  BY <1>4, <1>10, <1>11, <1>21, <1>24, <1>25, <1>26 DEF l, s

-----------------------------------------------------------------------------
(* Order                                                                   *)

Keys(sorts) == [DOMAIN sorts -> Int]

LEMMA LexDecided ==
    ASSUME NEW sorts \in Seq(SortTerms), NEW a \in Keys(sorts), NEW b \in Keys(sorts), NEW k \in DOMAIN sorts,
           \A n \in 1 .. k - 1 : a[n] = b[n], a[k] # b[k]
    PROVE  /\ Lex(a, b, sorts) <=> IF sorts[k].desc THEN a[k] > b[k] ELSE a[k] < b[k]
           /\ Lex(b, a, sorts) <=> IF sorts[k].desc THEN b[k] > a[k] ELSE b[k] < a[k]
<1>1. DOMAIN sorts = 1 .. Len(sorts) /\ Len(sorts) \in Nat
  BY LenProperties
<1>2. \A n \in DOMAIN sorts : a[n] \in Int /\ b[n] \in Int
  BY DEF Keys
<1>3. \A m \in DOMAIN sorts : (\A n \in 1 .. m - 1 : a[n] = b[n]) /\ a[m] # b[m] => m = k
  BY <1>1
<1>4. \A x, y : (x = a /\ y = b) \/ (x = b /\ y = a) =>
        (Lex(x, y, sorts) <=> IF sorts[k].desc THEN x[k] > y[k] ELSE x[k] < y[k])
  <2> SUFFICES ASSUME NEW x, NEW y, (x = a /\ y = b) \/ (x = b /\ y = a)
               PROVE  Lex(x, y, sorts) <=> IF sorts[k].desc THEN x[k] > y[k] ELSE x[k] < y[k]
    OBVIOUS
  <2>1. \A n \in 1 .. k - 1 : x[n] = y[n]
    OBVIOUS
  <2>2. ASSUME NEW m \in DOMAIN sorts, \A n \in 1 .. m - 1 : x[n] = y[n],
               IF sorts[m].desc THEN x[m] > y[m] ELSE x[m] < y[m]
        PROVE  m = k
    <3>1. x[m] # y[m]
      BY <1>2, <2>2
    <3> QED
      BY <1>3, <2>2, <3>1
  <2> QED
    BY <2>1, <2>2 DEF Lex
<1> QED
  BY <1>4

LEMMA LexTrichotomy ==
    ASSUME NEW sorts \in Seq(SortTerms), NEW a \in Keys(sorts), NEW b \in Keys(sorts)
    PROVE  /\ ~ Lex(a, a, sorts)
           /\ ~ (Lex(a, b, sorts) /\ Lex(b, a, sorts))
           /\ a = b \/ Lex(a, b, sorts) \/ Lex(b, a, sorts)
<1>1. DOMAIN sorts = 1 .. Len(sorts) /\ Len(sorts) \in Nat
  BY LenProperties
<1>2. \A n \in DOMAIN sorts : a[n] \in Int /\ b[n] \in Int
  BY DEF Keys
<1>3. ~ Lex(a, a, sorts)
  BY <1>2 DEF Lex
<1> DEFINE differ == {n \in DOMAIN sorts : a[n] # b[n]}
<1>4. CASE differ = {}
  <2>1. a = b
    BY <1>4 DEF Keys
  <2> QED
    BY <1>3, <2>1
<1>5. CASE differ # {}
  <2>1. differ \in SUBSET Nat
    BY <1>1
  <2> HIDE DEF differ
  <2>2. PICK k \in differ : \A m \in differ : k <= m
    BY <1>5, <2>1, LeastNumber
  <2>3. k \in DOMAIN sorts /\ a[k] # b[k] /\ \A n \in 1 .. k - 1 : a[n] = b[n]
    BY <1>1, <2>2 DEF differ
  <2>4. /\ Lex(a, b, sorts) <=> IF sorts[k].desc THEN a[k] > b[k] ELSE a[k] < b[k]
        /\ Lex(b, a, sorts) <=> IF sorts[k].desc THEN b[k] > a[k] ELSE b[k] < a[k]
    BY <2>3, LexDecided
  <2> QED
    BY <1>2, <1>3, <2>3, <2>4
<1> QED
  BY <1>4, <1>5

LEMMA LexTransitive ==
    ASSUME NEW sorts \in Seq(SortTerms), NEW a \in Keys(sorts), NEW b \in Keys(sorts), NEW c \in Keys(sorts),
           Lex(a, b, sorts), Lex(b, c, sorts)
    PROVE  Lex(a, c, sorts)
<1>1. DOMAIN sorts = 1 .. Len(sorts) /\ Len(sorts) \in Nat
  BY LenProperties
<1>2. \A n \in DOMAIN sorts : a[n] \in Int /\ b[n] \in Int /\ c[n] \in Int
  BY DEF Keys
<1>3. PICK j \in DOMAIN sorts :
        /\ \A n \in 1 .. j - 1 : a[n] = b[n]
        /\ IF sorts[j].desc THEN a[j] > b[j] ELSE a[j] < b[j]
  BY DEF Lex
<1>4. PICK k \in DOMAIN sorts :
        /\ \A n \in 1 .. k - 1 : b[n] = c[n]
        /\ IF sorts[k].desc THEN b[k] > c[k] ELSE b[k] < c[k]
  BY DEF Lex
<1>5. PICK m \in DOMAIN sorts : m <= j /\ m <= k /\ (m = j \/ m = k)
  BY <1>1
<1>6. \A n \in 1 .. m - 1 : a[n] = c[n]
  BY <1>1, <1>3, <1>4, <1>5
<1>7. /\ m < j => a[m] = b[m]
      /\ m < k => b[m] = c[m]
  BY <1>1, <1>3, <1>4, <1>5
<1>8. IF sorts[m].desc THEN a[m] > c[m] ELSE a[m] < c[m]
  BY <1>1, <1>2, <1>3, <1>4, <1>5, <1>7
<1> QED
  BY <1>6, <1>8 DEF Lex

\* page[before] turns the order around.
LEMMA Inverted ==
    ASSUME NEW spec, spec.sorts \in Seq(SortTerms), spec.before \in BOOLEAN
    PROVE  /\ KeysetSorts(spec) \in Seq(SortTerms)
           /\ DOMAIN KeysetSorts(spec) = DOMAIN spec.sorts
           /\ \A k \in DOMAIN spec.sorts :
                /\ KeysetSorts(spec)[k].name = spec.sorts[k].name
                /\ KeysetSorts(spec)[k].desc = (spec.sorts[k].desc # spec.before)
           /\ ~ spec.before => KeysetSorts(spec) = spec.sorts
           /\ spec.before => \A a, b \in Keys(spec.sorts) : Lex(a, b, KeysetSorts(spec)) <=> Lex(b, a, spec.sorts)
<1> DEFINE sorts == spec.sorts
           order == KeysetSorts(spec)
<1>1. DOMAIN sorts = 1 .. Len(sorts) /\ Len(sorts) \in Nat /\ \A k \in DOMAIN sorts : sorts[k] \in SortTerms
  BY LenProperties, ElementOfSeq
<1>2. \A term \in SortTerms : DOMAIN term = {"name", "desc"} /\ term.desc \in BOOLEAN
  BY DEF SortTerms
<1>3. order = [k \in DOMAIN sorts |-> [sorts[k] EXCEPT !.desc = (@ # spec.before)]]
  BY DEF KeysetSorts
<1> HIDE DEF order
<1>4. ASSUME NEW k \in DOMAIN sorts
      PROVE  order[k] \in SortTerms /\ order[k].name = sorts[k].name /\ order[k].desc = (sorts[k].desc # spec.before)
  <2>1. order[k] = [sorts[k] EXCEPT !.desc = (@ # spec.before)]
    BY <1>3
  <2>2. sorts[k] \in SortTerms
    BY <1>1
  <2> QED
    BY <2>1, <2>2 DEF SortTerms
<1>5. order \in [1 .. Len(sorts) -> SortTerms] /\ DOMAIN order = DOMAIN sorts
  BY <1>1, <1>3, <1>4
<1>6. order \in Seq(SortTerms)
  BY <1>1, <1>5
<1>7. ASSUME ~ spec.before PROVE order = sorts
  <2>1. \A k \in DOMAIN sorts : order[k] = sorts[k]
    <3> SUFFICES ASSUME NEW k \in DOMAIN sorts PROVE order[k] = sorts[k]
      OBVIOUS
    <3>1. order[k] \in SortTerms /\ sorts[k] \in SortTerms
      BY <1>1, <1>4
    <3>2. order[k].name = sorts[k].name /\ order[k].desc = sorts[k].desc
      BY <1>4, <1>7, <3>1 DEF SortTerms
    <3> QED
      BY <3>1, <3>2 DEF SortTerms
  <2> QED
    BY <1>1, <1>5, <2>1
<1>8. ASSUME spec.before, NEW a \in Keys(sorts), NEW b \in Keys(sorts) PROVE Lex(a, b, order) <=> Lex(b, a, sorts)
  <2>1. \A k \in DOMAIN sorts : order[k].desc <=> ~ sorts[k].desc
    BY <1>1, <1>2, <1>4, <1>8
  <2>2. \A n \in DOMAIN sorts : a[n] \in Int /\ b[n] \in Int
    BY DEF Keys
  <2>3. \A k \in DOMAIN sorts : (IF order[k].desc THEN a[k] > b[k] ELSE a[k] < b[k])
            <=> (IF sorts[k].desc THEN b[k] > a[k] ELSE b[k] < a[k])
    BY <2>1, <2>2
  <2>4. \A k \in DOMAIN sorts : (\A n \in 1 .. k - 1 : a[n] = b[n]) <=> (\A n \in 1 .. k - 1 : b[n] = a[n])
    OBVIOUS
  <2> QED
    BY <1>5, <2>3, <2>4 DEF Lex
<1> QED
  BY <1>4, <1>5, <1>6, <1>7, <1>8 DEF order

-----------------------------------------------------------------------------
(* The rows of a statement                                                 *)

LEMMA KeyTyped ==
    ASSUME RowsTyped, NEW sorts \in Seq(SortTerms), NEW i \in Stored
    PROVE  /\ KeyOf(i, sorts) \in Keys(sorts)
           /\ Addressable(sorts) => KeyOf(i, sorts) \in [DOMAIN sorts -> ColumnValues]
<1>1. ASSUME NEW k \in DOMAIN sorts
      PROVE  /\ Value(i, ColumnOf(sorts[k].name)) \in ColumnValues \cup {Null}
             /\ ColumnOf(sorts[k].name) \notin Nullable => Value(i, ColumnOf(sorts[k].name)) \in ColumnValues
  <2> DEFINE name == sorts[k].name
  <2>1. name \in DOMAIN SortColumns \cup {TieBreaker.name}
    <3>1. sorts[k] \in SortTerms
      BY ElementOfSeq, LenProperties
    <3> QED
      BY <3>1 DEF SortTerms
  <2>2. i \in Ids /\ table[i] \in Rows
    BY DEF Stored, RowsTyped
  <2> HIDE DEF name
  <2>3. CASE ColumnOf(name) = TieBreaker.column
    BY <2>2, <2>3, RowsAssumption DEF Value, name
  <2>4. CASE ColumnOf(name) # TieBreaker.column
    <3>1. name \in DOMAIN SortColumns /\ ColumnOf(name) = SortColumns[name]
      BY <2>1, <2>4 DEF ColumnOf
    <3>2. Value(i, ColumnOf(name)) = table[i][SortColumns[name]]
      BY <2>4, <3>1 DEF Value
    <3>3. \/ table[i][SortColumns[name]] \in ColumnValues
          \/ table[i][SortColumns[name]] = Null /\ SortColumns[name] \in Nullable
      BY <2>2, <2>4, <3>1, RowsAssumption
    <3> QED
      BY <3>1, <3>2, <3>3 DEF name
  <2> QED
    BY <2>3, <2>4
<1>2. Null \in Int /\ ColumnValues \subseteq Int
  BY PolicyAssumption
<1> QED
  BY <1>1, <1>2 DEF KeyOf, Keys, Addressable

LEMMA KeyIdentifies ==
    ASSUME NEW sorts, Identifying(sorts), NEW i, NEW j, KeyOf(i, sorts) = KeyOf(j, sorts)
    PROVE  i = j
<1>1. PICK k \in DOMAIN sorts : ColumnOf(sorts[k].name) = TieBreaker.column
  BY DEF Identifying
<1>2. KeyOf(i, sorts)[k] = i /\ KeyOf(j, sorts)[k] = j
  BY <1>1 DEF KeyOf, Value
<1> QED
  BY <1>2

LEMMA PrecedesLex ==
    ASSUME NEW sorts \in Seq(SortTerms), NEW i, NEW j
    PROVE  Precedes(i, j, sorts) <=> Lex(KeyOf(i, sorts), KeyOf(j, sorts), sorts)
<1>1. DOMAIN sorts = 1 .. Len(sorts) /\ Len(sorts) \in Nat
  BY LenProperties
<1>2. \A k \in DOMAIN sorts : /\ KeyOf(i, sorts)[k] = Value(i, ColumnOf(sorts[k].name))
                              /\ KeyOf(j, sorts)[k] = Value(j, ColumnOf(sorts[k].name))
  BY DEF KeyOf
<1>3. \A k \in DOMAIN sorts : 1 .. k - 1 \subseteq DOMAIN sorts
  BY <1>1
<1> QED
  BY <1>2, <1>3 DEF Precedes, Lex

\* A sort that includes the tie breaker puts the rows of a table in one order.
LEMMA RowOrder ==
    ASSUME RowsTyped, NEW sorts, Identifying(sorts), NEW i \in Stored, NEW j \in Stored, NEW l \in Stored
    PROVE  /\ ~ Precedes(i, i, sorts)
           /\ ~ (Precedes(i, j, sorts) /\ Precedes(j, i, sorts))
           /\ Precedes(i, j, sorts) /\ Precedes(j, l, sorts) => Precedes(i, l, sorts)
           /\ i = j \/ Precedes(i, j, sorts) \/ Precedes(j, i, sorts)
<1> DEFINE key(n) == KeyOf(n, sorts)
<1>1. sorts \in Seq(SortTerms)
  BY DEF Identifying
<1>2. key(i) \in Keys(sorts) /\ key(j) \in Keys(sorts) /\ key(l) \in Keys(sorts)
  BY <1>1, KeyTyped
<1>3. \A m, n : Precedes(m, n, sorts) <=> Lex(key(m), key(n), sorts)
  BY <1>1, PrecedesLex
<1>4. key(i) = key(j) => i = j
  BY KeyIdentifies
<1> HIDE DEF key
<1>5. Lex(key(i), key(j), sorts) /\ Lex(key(j), key(l), sorts) => Lex(key(i), key(l), sorts)
  BY <1>1, <1>2, LexTransitive
<1>6. /\ ~ Lex(key(i), key(i), sorts)
      /\ ~ (Lex(key(i), key(j), sorts) /\ Lex(key(j), key(i), sorts))
      /\ key(i) = key(j) \/ Lex(key(i), key(j), sorts) \/ Lex(key(j), key(i), sorts)
  BY <1>1, <1>2, LexTrichotomy
<1> QED
  BY <1>3, <1>4, <1>5, <1>6

\* A statement has a finite number of rows, which an offset can count.
LEMMA JoinedFinite ==
    ASSUME RowsTyped, NEW K \in SUBSET Ids
    PROVE  /\ IsFiniteSet(Joined(K))
           /\ Cardinality(Joined(K)) \in Nat /\ Cardinality(Joined(K)) <= MaxOffset
<1> DEFINE f == [i \in Ids |-> {i} \X (1 .. copies[i])]
           parts == {f[i] : i \in Ids}
           All == UNION {{i} \X (1 .. copies[i]) : i \in Ids}
<1>1. copies \in [Ids -> Nat \ {0}] /\ Cardinality(All) <= MaxOffset
  BY JoinsAssumption DEF RowsTyped
<1>2. IsFiniteSet(Ids)
  BY RowsAssumption
<1>3. All = UNION parts
  OBVIOUS
<1>4. IsFiniteSet(parts)
  <2>1. f \in Surjection(Ids, parts)
    BY DEF Surjection
  <2> HIDE DEF f, parts
  <2> QED
    BY <1>2, <2>1, FS_Surjection
<1>5. ASSUME NEW i \in Ids PROVE IsFiniteSet(f[i])
  <2>1. IsFiniteSet({i}) /\ IsFiniteSet(1 .. copies[i])
    <3>1. copies[i] \in Int
      BY <1>1
    <3>2. IsFiniteSet({i})
      BY FS_Singleton
    <3>3. IsFiniteSet(1 .. copies[i])
      BY <3>1, FS_Interval
    <3> QED
      BY <3>2, <3>3
  <2>2. IsFiniteSet({i} \X (1 .. copies[i]))
    BY <2>1, FS_Product
  <2> QED
    BY <2>2
<1>6. \A T \in parts : IsFiniteSet(T)
  BY <1>5
<1>7. Joined(K) \in SUBSET All
  <2>1. \A i \in K : 1 .. Copies(i) \subseteq 1 .. copies[i]
    BY <1>1 DEF Copies
  <2> QED
    BY <2>1 DEF Joined
<1> HIDE DEF parts, All
<1>8. IsFiniteSet(All)
  BY <1>3, <1>4, <1>6, FS_UNION
<1>9. /\ IsFiniteSet(Joined(K))
      /\ Cardinality(Joined(K)) <= Cardinality(All)
  BY <1>7, <1>8, FS_Subset
<1>10. Cardinality(Joined(K)) \in Nat /\ Cardinality(All) \in Nat
  BY <1>8, <1>9, FS_CardinalityType
<1> QED
  BY <1>1, <1>9, <1>10, PolicyAssumption

LEMMA InJoined ==
    ASSUME NEW K, NEW pair
    PROVE  pair \in Joined(K) <=> \E i \in K : \E n \in 1 .. Copies(i) : pair = <<i, n>>
  BY DEF Joined

Earlier(J, sorts) ==
    {pair \in J \X J : \/ Precedes(pair[1][1], pair[2][1], sorts)
                       \/ pair[1][1] = pair[2][1] /\ pair[1][2] < pair[2][2]}

LEMMA InEarlier ==
    ASSUME NEW J, NEW sorts, NEW p \in J, NEW q \in J
    PROVE  <<p, q>> \in Earlier(J, sorts) <=> Precedes(p[1], q[1], sorts) \/ (p[1] = q[1] /\ p[2] < q[2])
<1>1. <<p, q>> \in J \X J /\ <<p, q>>[1] = p /\ <<p, q>>[2] = q
  OBVIOUS
<1> QED
  BY <1>1 DEF Earlier

LEMMA JoinedOrder ==
    ASSUME RowsTyped, NEW K \in SUBSET Stored, NEW sorts, Identifying(sorts)
    PROVE  StrictOrder(Joined(K), Earlier(Joined(K), sorts))
<1> DEFINE J == Joined(K)
           before(p, q) == Precedes(p[1], q[1], sorts) \/ (p[1] = q[1] /\ p[2] < q[2])
<1>1. \A p \in J : p[1] \in Stored /\ p[2] \in Int
  BY InJoined
<1>2. \A p, q \in J : <<p, q>> \in Earlier(J, sorts) <=> before(p, q)
  BY InEarlier
<1>3. \A p, q \in J : p[1] = q[1] /\ p[2] = q[2] => p = q
  BY InJoined
<1> HIDE DEF J
<1>4. \A p \in J : ~ before(p, p)
  BY <1>1, RowOrder
<1>5. ASSUME NEW p \in J, NEW q \in J, NEW r \in J, before(p, q), before(q, r) PROVE before(p, r)
  <2>1. Precedes(p[1], q[1], sorts) /\ Precedes(q[1], r[1], sorts) => Precedes(p[1], r[1], sorts)
    BY <1>1, RowOrder
  <2> QED
    BY <1>1, <1>5, <2>1
<1>6. ASSUME NEW p \in J, NEW q \in J PROVE p = q \/ before(p, q) \/ before(q, p)
  <2>1. p[1] = q[1] \/ Precedes(p[1], q[1], sorts) \/ Precedes(q[1], p[1], sorts)
    BY <1>1, RowOrder
  <2>2. p[2] = q[2] \/ p[2] < q[2] \/ q[2] < p[2]
    BY <1>1
  <2> QED
    BY <1>3, <2>1, <2>2
<1> HIDE DEF before
<1>7. StrictOrder(J, Earlier(J, sorts))
  BY <1>2, <1>4, <1>5, <1>6 DEF StrictOrder
<1> QED
  BY <1>7 DEF J

\* The rows come in the order asked for, those of one id together.
LEMMA RawRowsAre ==
    ASSUME RowsTyped, NEW spec, Identifying(OrderOf(spec)), Keyset(spec) \in SUBSET Stored
    PROVE  LET R == RawRows(spec) IN
           /\ R \in Seq(Keyset(spec))
           /\ Len(R) = Cardinality(Joined(Keyset(spec))) /\ Len(R) <= MaxOffset
           /\ \A i \in Keyset(spec) : \E n \in DOMAIN R : R[n] = i
           /\ \A m, n \in DOMAIN R : m < n => R[m] = R[n] \/ Precedes(R[m], R[n], OrderOf(spec))
           /\ (\A i \in Ids : Copies(i) = 1) =>
                \A m, n \in DOMAIN R : m < n => Precedes(R[m], R[n], OrderOf(spec))
<1> DEFINE K == Keyset(spec)
           J == Joined(K)
           order == Earlier(J, OrderOf(spec))
           ordered == InOrder(J, order)
           N == Cardinality(J)
           R == RawRows(spec)
<1>1. K \in SUBSET Ids /\ K \in SUBSET Stored
  BY DEF Stored
<1> HIDE DEF K
<1>2. IsFiniteSet(J) /\ N \in Nat /\ N <= MaxOffset
  BY <1>1, JoinedFinite
<1>3. StrictOrder(J, order)
  BY <1>1, JoinedOrder
<1>4. \A p, q \in J : <<p, q>> \in order <=> Precedes(p[1], q[1], OrderOf(spec)) \/ (p[1] = q[1] /\ p[2] < q[2])
  BY InEarlier
<1>5. \A p \in J : p[1] \in K
  BY InJoined
<1>6. ASSUME NEW i \in K PROVE \E p \in J : p[1] = i
  <2>1. Copies(i) \in Nat \ {0}
    <3>1. copies \in [Ids -> Nat \ {0}]
      BY JoinsAssumption DEF RowsTyped
    <3> QED
      BY <1>1, <3>1 DEF Copies
  <2>2. <<i, 1>> \in J
    BY <2>1, InJoined
  <2> QED
    BY <2>2
<1>13. (\A i \in Ids : Copies(i) = 1) => \A p \in J : p[2] = 1
  <2> SUFFICES ASSUME \A i \in Ids : Copies(i) = 1, NEW p \in J PROVE p[2] = 1
    OBVIOUS
  <2>1. PICK i \in K : \E n \in 1 .. Copies(i) : p = <<i, n>>
    BY InJoined
  <2>2. Copies(i) = 1
    BY <1>1
  <2>3. PICK n \in 1 .. 1 : p = <<i, n>>
    BY <2>1, <2>2
  <2> QED
    BY <2>3
<1>7. R = [n \in 1 .. N |-> ordered[n][1]]
  BY DEF RawRows, Earlier, K
<1> HIDE DEF J, order
<1>8. /\ \A n \in 1 .. N : ordered[n] \in J
      /\ \A x \in J : \E n \in 1 .. N : ordered[n] = x
      /\ \A m, n \in 1 .. N : m < n => <<ordered[m], ordered[n]>> \in order
  BY <1>2, <1>3, PutInOrder
<1> HIDE DEF ordered, N, R
<1>9. R \in [1 .. N -> K]
  BY <1>5, <1>7, <1>8
<1>10. R \in Seq(K) /\ Len(R) = N /\ DOMAIN R = 1 .. N
  BY <1>2, <1>9
<1>11. \A i \in K : \E n \in 1 .. N : R[n] = i
  BY <1>6, <1>7, <1>8
<1>12. \A m, n \in 1 .. N : m < n => R[m] = R[n] \/ Precedes(R[m], R[n], OrderOf(spec))
  BY <1>4, <1>7, <1>8
<1>14. (\A i \in Ids : Copies(i) = 1) =>
         \A m, n \in 1 .. N : m < n => Precedes(R[m], R[n], OrderOf(spec))
  <2> SUFFICES ASSUME \A i \in Ids : Copies(i) = 1, NEW m \in 1 .. N, NEW n \in 1 .. N, m < n
               PROVE  Precedes(R[m], R[n], OrderOf(spec))
    OBVIOUS
  <2>1. ordered[m] \in J /\ ordered[n] \in J /\ <<ordered[m], ordered[n]>> \in order
    BY <1>8
  <2>2. ordered[m][2] = 1 /\ ordered[n][2] = 1
    BY <1>13, <2>1
  <2>3. ~ (ordered[m][2] < ordered[n][2])
    BY <2>2
  <2> QED
    BY <1>4, <1>7, <2>1, <2>3
<1> QED
  BY <1>2, <1>10, <1>11, <1>12, <1>14 DEF R, N, J, K

-----------------------------------------------------------------------------
(* A page                                                                  *)

\* Each entry where it first comes.
LEMMA DistinctIs ==
    ASSUME NEW T, NEW s \in Seq(T)
    PROVE  LET D == Distinct(s) IN
           /\ D \in Seq(T) /\ DOMAIN D = 1 .. Len(D) /\ Len(D) \in Nat /\ Len(D) <= Len(s)
           /\ \E at \in [DOMAIN D -> DOMAIN s] :
                /\ \A k \in DOMAIN D : D[k] = s[at[k]] /\ k <= at[k]
                /\ \A n \in DOMAIN s : \E k \in DOMAIN D : D[k] = s[n] /\ at[k] <= n
                /\ \A j, k \in DOMAIN D : j < k => at[j] < at[k] /\ D[j] # D[k]
<1> DEFINE S == {n \in DOMAIN s : \A m \in 1 .. n - 1 : s[m] # s[n]}
           N == Cardinality(S)
           D == Distinct(s)
<1>1. S \in SUBSET DOMAIN s /\ D = Extract(s, S)
  BY DEF Distinct
<1>2. DOMAIN s = 1 .. Len(s) /\ Len(s) \in Nat
  BY LenProperties
<1>3. \A n : n \in S <=> n \in DOMAIN s /\ \A m \in 1 .. n - 1 : s[m] # s[n]
  OBVIOUS
<1> HIDE DEF S, D
<1>4. /\ N \in Nat /\ D \in Seq(T) /\ Len(D) = N
      /\ \E at \in [1 .. N -> S] :
            /\ \A k \in 1 .. N : D[k] = s[at[k]]
            /\ \A n \in S : \E k \in 1 .. N : at[k] = n
            /\ \A j, k \in 1 .. N : j < k => at[j] < at[k]
  BY <1>1, Extracted
<1>5. DOMAIN D = 1 .. N
  BY <1>4, LenProperties
<1>6. PICK at \in [1 .. N -> S] :
        /\ \A k \in 1 .. N : D[k] = s[at[k]]
        /\ \A n \in S : \E k \in 1 .. N : at[k] = n
        /\ \A j, k \in 1 .. N : j < k => at[j] < at[k]
  BY <1>4
<1> HIDE DEF N
<1>7. \A k \in 1 .. N : at[k] \in S /\ at[k] \in DOMAIN s /\ at[k] \in Nat
  BY <1>1, <1>2, <1>6
<1>8. ASSUME NEW n \in DOMAIN s PROVE \E k \in 1 .. N : D[k] = s[n] /\ at[k] <= n
  <2> DEFINE same == {m \in DOMAIN s : s[m] = s[n]}
  <2>1. same \in SUBSET Nat /\ same # {}
    BY <1>2
  <2> HIDE DEF same
  <2>2. PICK m \in same : \A l \in same : m <= l
    BY <2>1, LeastNumber
  <2>3. m \in S /\ m <= n /\ s[m] = s[n]
    BY <1>2, <1>3, <2>2 DEF same
  <2> QED
    BY <1>6, <2>3
<1>9. \A k \in 1 .. N : k <= at[k]
  <2> DEFINE P(k) == k + 1 <= N => k + 1 <= at[k + 1]
             U == {k \in Nat : P(k)}
  <2>1. P(0)
    BY <1>2, <1>4, <1>7
  <2>2. ASSUME NEW k \in Nat, P(k) PROVE P(k + 1)
    <3> SUFFICES ASSUME k + 2 <= N PROVE k + 2 <= at[k + 2]
      OBVIOUS
    <3>1. at[k + 1] < at[k + 2] /\ k + 1 \in 1 .. N /\ k + 2 \in 1 .. N
      BY <1>4, <1>6
    <3> QED
      BY <1>4, <1>7, <2>2, <3>1
  <2> HIDE DEF P
  <2>3. U \in SUBSET Nat /\ 0 \in U /\ \A n \in U : n + 1 \in U
    BY <2>1, <2>2
  <2>4. U = Nat
    BY <2>3, AllNumbers
  <2>5. \A k \in Nat : P(k)
    BY <2>4
  <2>6. \A k \in 1 .. N : k - 1 \in Nat
    BY <1>4
  <2>7. \A k \in 1 .. N : P(k - 1) /\ (k - 1) + 1 = k
    BY <1>4, <2>5, <2>6
  <2> QED
    BY <2>7 DEF P
<1>10. N <= Len(s)
  <2>1. CASE N = 0
    BY <1>2, <2>1
  <2>2. CASE N # 0
    <3>1. N \in 1 .. N
      BY <1>4, <2>2
    <3>2. N <= at[N] /\ at[N] \in DOMAIN s /\ at[N] \in Nat
      BY <1>7, <1>9, <3>1
    <3>3. at[N] <= Len(s)
      BY <1>2, <3>2
    <3> QED
      BY <1>2, <1>4, <3>2, <3>3
  <2> QED
    BY <2>1, <2>2
<1>11. ASSUME NEW j \in 1 .. N, NEW k \in 1 .. N, j < k PROVE D[j] # D[k]
  <2>1. at[j] \in 1 .. at[k] - 1
    BY <1>2, <1>6, <1>7, <1>11
  <2> QED
    BY <1>3, <1>6, <1>7, <2>1
<1>12. at \in [1 .. N -> DOMAIN s]
  BY <1>6, <1>7
<1>13. /\ \A k \in DOMAIN D : D[k] = s[at[k]] /\ k <= at[k]
       /\ \A n \in DOMAIN s : \E k \in DOMAIN D : D[k] = s[n] /\ at[k] <= n
       /\ \A j, k \in DOMAIN D : j < k => at[j] < at[k] /\ D[j] # D[k]
  BY <1>5, <1>6, <1>8, <1>9, <1>11
<1>14. at \in [DOMAIN D -> DOMAIN s] /\ DOMAIN D = 1 .. Len(D) /\ Len(D) \in Nat /\ Len(D) <= Len(s)
  BY <1>4, <1>5, <1>10, <1>12
<1> QED
  BY <1>4, <1>13, <1>14 DEF D

LEMMA PositionTyped ==
    ASSUME NEW spec, SpecTyped(spec), Positioned(spec)
    PROVE  /\ spec.cursor.v \in Keys(spec.sorts)
           /\ Addressable(spec.sorts)
<1>1. /\ spec.cursor \in Cursors /\ Len(spec.cursor.v) = Len(spec.sorts) /\ Addressable(spec.sorts)
      /\ spec.sorts \in Seq(SortTerms)
  BY DEF SpecTyped, Positioned, CursorAccepted, Identifying
<1>2. spec.cursor.v \in Seq(Int)
  BY <1>1 DEF Cursors
<1> QED
  BY <1>1, <1>2, LenProperties DEF Keys

LEMMA BeyondLex ==
    ASSUME NEW spec, spec.sorts \in Seq(SortTerms), spec.before \in BOOLEAN,
           spec.cursor.v \in Keys(spec.sorts), NEW key \in Keys(spec.sorts)
    PROVE  /\ Beyond(key, spec) <=> Lex(spec.cursor.v, key, KeysetSorts(spec))
           /\ Beyond(key, spec) => WithinBound(key, spec)
<1> DEFINE sorts == spec.sorts
           order == KeysetSorts(spec)
           v == spec.cursor.v
<1>1. /\ DOMAIN order = DOMAIN sorts
      /\ \A k \in DOMAIN sorts : order[k].desc = (sorts[k].desc # spec.before)
  BY Inverted
<1>2. \A k \in DOMAIN sorts : v[k] \in Int /\ key[k] \in Int
  BY DEF Keys
<1>3. DOMAIN sorts = 1 .. Len(sorts) /\ Len(sorts) \in Nat
  BY LenProperties
<1> HIDE DEF order
<1>4. \A k \in DOMAIN sorts :
        (IF sorts[k].desc # spec.before THEN key[k] < v[k] ELSE key[k] > v[k])
        <=> (IF order[k].desc THEN v[k] > key[k] ELSE v[k] < key[k])
  BY <1>1, <1>2
<1>5. Beyond(key, spec) <=> Lex(v, key, order)
  <2>1. \A k \in DOMAIN sorts : (\A n \in 1 .. k - 1 : key[n] = v[n]) <=> (\A n \in 1 .. k - 1 : v[n] = key[n])
    OBVIOUS
  <2> QED
    BY <1>1, <1>4, <2>1 DEF Beyond, Lex
<1>6. ASSUME Beyond(key, spec) PROVE WithinBound(key, spec)
  <2>1. PICK k \in DOMAIN sorts :
            /\ \A n \in 1 .. k - 1 : key[n] = v[n]
            /\ IF sorts[k].desc # spec.before THEN key[k] < v[k] ELSE key[k] > v[k]
    BY <1>6 DEF Beyond
  <2>2. 1 \in DOMAIN sorts
    BY <1>3, <2>1
  <2>3. CASE k = 1
    BY <1>2, <2>1, <2>2, <2>3 DEF WithinBound
  <2>4. CASE k # 1
    <3>1. key[1] = v[1]
      BY <1>3, <2>1, <2>4
    <3> QED
      BY <1>2, <2>2, <3>1 DEF WithinBound
  <2> QED
    BY <2>3, <2>4
<1> QED
  BY <1>5, <1>6 DEF order

\* The rows of a position are those beyond it.
LEMMA KeysetIs ==
    ASSUME RowsTyped, NEW spec, SpecTyped(spec), NEW i
    PROVE  /\ i \in Selected(spec) => i \in Stored
           /\ i \in Keyset(spec) <=>
                /\ i \in Selected(spec)
                /\ Positioned(spec) => Lex(spec.cursor.v, KeyOf(i, spec.sorts), KeysetSorts(spec))
<1>1. i \in Selected(spec) => i \in Stored
  BY DEF Selected
<1>2. spec.sorts \in Seq(SortTerms) /\ spec.before \in BOOLEAN
  BY DEF SpecTyped, Identifying
<1>3. i \in Keyset(spec) <=>
        /\ i \in Selected(spec)
        /\ Positioned(spec) => WithinBound(KeyOf(i, spec.sorts), spec) /\ Beyond(KeyOf(i, spec.sorts), spec)
  BY DEF Keyset
<1>4. i \in Selected(spec) => KeyOf(i, spec.sorts) \in Keys(spec.sorts)
  BY <1>1, <1>2, KeyTyped
<1>5. ASSUME i \in Selected(spec), Positioned(spec)
      PROVE  /\ Beyond(KeyOf(i, spec.sorts), spec) <=> Lex(spec.cursor.v, KeyOf(i, spec.sorts), KeysetSorts(spec))
             /\ Beyond(KeyOf(i, spec.sorts), spec) => WithinBound(KeyOf(i, spec.sorts), spec)
  <2>1. spec.cursor.v \in Keys(spec.sorts)
    BY <1>5, PositionTyped
  <2> QED
    BY <1>2, <1>4, <1>5, <2>1, BeyondLex
<1> QED
  BY <1>1, <1>3, <1>5

LEMMA OrderIdentifies ==
    ASSUME NEW spec, SpecTyped(spec)
    PROVE  Identifying(OrderOf(spec)) /\ (walk = "index" => OrderOf(spec) = KeysetSorts(spec))
<1>1. spec.sorts \in Seq(SortTerms) /\ spec.before \in BOOLEAN
  BY DEF SpecTyped, Identifying
<1>2. Identifying(KeysetSorts(spec))
  <2>1. PICK k \in DOMAIN spec.sorts : ColumnOf(spec.sorts[k].name) = TieBreaker.column
    BY DEF SpecTyped, Identifying
  <2> QED
    BY <1>1, <2>1, Inverted DEF Identifying
<1>3. Identifying(<<Term(TieBreaker.name, FALSE)>>)
  <2>1. Term(TieBreaker.name, FALSE) \in SortTerms /\ ColumnOf(Term(TieBreaker.name, FALSE).name) = TieBreaker.column
    BY DEF Term, SortTerms, ColumnOf
  <2> DEFINE term == Term(TieBreaker.name, FALSE)
  <2> HIDE DEF term
  <2>2. <<term>> \in Seq({term}) /\ DOMAIN <<term>> = {1} /\ <<term>>[1] = term
    OBVIOUS
  <2>3. <<term>> \in Seq(SortTerms)
    <3>1. term \in SortTerms
      BY <2>1 DEF term
    <3> QED
      BY <3>1
  <2>4. ColumnOf(<<term>>[1].name) = TieBreaker.column
    BY <2>1, <2>2 DEF term
  <2> QED
    BY <2>2, <2>3, <2>4 DEF Identifying, term
<1> QED
  BY <1>2, <1>3 DEF OrderOf

\* LIMIT and OFFSET.
Slice(R, offset, limit) == SubSeq(R, offset + 1, IF offset + limit < Len(R) THEN offset + limit ELSE Len(R))

LEMMA Sliced ==
    ASSUME NEW T, NEW R \in Seq(T), NEW offset \in Nat, NEW limit \in Nat
    PROVE  LET L == Slice(R, offset, limit) IN
           /\ L \in Seq(T) /\ Len(L) \in Nat /\ DOMAIN L = 1 .. Len(L)
           /\ Len(L) = (IF offset >= Len(R) THEN 0
                        ELSE IF offset + limit < Len(R) THEN limit ELSE Len(R) - offset)
           /\ \A n \in DOMAIN L : L[n] = R[offset + n]
<1> DEFINE end == IF offset + limit < Len(R) THEN offset + limit ELSE Len(R)
           L == SubSeq(R, offset + 1, end)
<1>1. Len(R) \in Nat /\ DOMAIN R = 1 .. Len(R)
  BY LenProperties
<1>2. end \in Int /\ end <= Len(R) /\ offset + 1 \in Int
  BY <1>1
<1>3. \A n \in offset + 1 .. end : R[n] \in T
  BY <1>1, <1>2, ElementOfSeq
<1>4. end - (offset + 1) + 1 = end - offset
  BY <1>2
<1> HIDE DEF end
<1>5. /\ L \in Seq(T)
      /\ Len(L) = (IF offset + 1 <= end THEN end - (offset + 1) + 1 ELSE 0)
      /\ \A n \in 1 .. end - (offset + 1) + 1 : L[n] = R[offset + 1 + n - 1]
  BY <1>2, <1>3, SubSeqProperties
<1>6. Len(L) \in Nat /\ DOMAIN L = 1 .. Len(L)
  BY <1>5, LenProperties
<1> HIDE DEF L
<1>7. Len(L) = (IF offset >= Len(R) THEN 0
                        ELSE IF offset + limit < Len(R) THEN limit ELSE Len(R) - offset)
  <2> DEFINE N == Len(R)
             len == Len(L)
  <2>1. /\ N \in Nat /\ end = (IF offset + limit < N THEN offset + limit ELSE N)
        /\ len = (IF offset + 1 <= end THEN end - (offset + 1) + 1 ELSE 0)
    BY <1>1, <1>5 DEF end
  <2> HIDE DEF N, len
  <2>2. len = (IF offset >= N THEN 0 ELSE IF offset + limit < N THEN limit ELSE N - offset)
    BY <2>1
  <2> QED
    BY <2>2 DEF N, len
<1>8. \A n \in DOMAIN L : n \in 1 .. end - (offset + 1) + 1 /\ offset + 1 + n - 1 = offset + n
  BY <1>2, <1>5, <1>6
<1>9. \A n \in DOMAIN L : L[n] = R[offset + n]
  BY <1>5, <1>8
<1> QED
  BY <1>5, <1>6, <1>7, <1>9 DEF L, end, Slice

Window(spec) == Limited(RawRows(spec), spec, spec.size + 1)
Least(a, b) == IF a < b THEN a ELSE b
Models(spec) == SubSeq(Distinct(Window(spec)), 1, Least(Len(Distinct(Window(spec))), spec.size))

LEMMA IndexPageIs ==
    ASSUME NEW spec
    PROVE  IndexPage(spec) = [ids |-> IF spec.before THEN Reverse(Models(spec)) ELSE Models(spec),
                              hasMore |-> Len(Window(spec)) > spec.size]
  BY DEF IndexPage, Models, Window, Least

Offset(spec) == IF spec.cursor = None THEN (spec.number - 1) * spec.size ELSE 0

\* The rows of a page: distinct, in the order of the statement, and the first of
\* what there is from its offset on.
LEMMA ModelsAre ==
    ASSUME RowsTyped, NEW spec, SpecTyped(spec), Keyset(spec) \in SUBSET Stored
    PROVE  LET R == RawRows(spec)
               M == Models(spec)
           IN  /\ M \in Seq(Keyset(spec)) /\ Len(M) \in Nat /\ DOMAIN M = 1 .. Len(M) /\ Len(M) <= spec.size
               /\ \A m, n \in DOMAIN M : m < n => M[m] # M[n]
               /\ \E at \in [DOMAIN M -> DOMAIN R] :
                    /\ \A k \in DOMAIN M : M[k] = R[at[k]] /\ Offset(spec) < at[k]
                    /\ \A j, k \in DOMAIN M : j < k => at[j] < at[k]
                    /\ \A n \in DOMAIN R : (\A k \in DOMAIN M : M[k] # R[n]) =>
                            \/ n <= Offset(spec)
                            \/ \A k \in DOMAIN M : at[k] < n
               /\ \A n \in DOMAIN R : Offset(spec) < n /\ n <= Offset(spec) + spec.size =>
                    \E k \in DOMAIN M : M[k] = R[n]
               /\ Len(Window(spec)) > spec.size <=> Len(R) > Offset(spec) + spec.size
               /\ Len(Window(spec)) > spec.size => 1 \in DOMAIN M
<1> DEFINE K == Keyset(spec)
           R == RawRows(spec)
           W == Window(spec)
           D == Distinct(W)
           M == Models(spec)
           O == Offset(spec)
           size == spec.size
<1>1. R \in Seq(K) /\ Len(R) \in Nat /\ DOMAIN R = 1 .. Len(R)
  <2>1. R \in Seq(K)
    BY OrderIdentifies, RawRowsAre
  <2> QED
    BY <2>1, LenProperties
<1>2. size \in Nat \ {0}
  BY DEF SpecTyped
<1>3. O \in Nat
  <2>1. spec.number - 1 \in Nat
    BY DEF SpecTyped
  <2>2. (spec.number - 1) * size \in Nat
    BY <1>2, <2>1
  <2> QED
    BY <2>2 DEF Offset
<1>4. W = Slice(R, O, size + 1)
  BY DEF Window, Limited, Offset, Slice
<1> HIDE DEF K, R, W, O, size
<1>5. size + 1 \in Nat
  BY <1>2
<1>6. /\ W \in Seq(K) /\ Len(W) \in Nat /\ DOMAIN W = 1 .. Len(W)
      /\ Len(W) = (IF O >= Len(R) THEN 0
                        ELSE IF O + (size + 1) < Len(R) THEN size + 1 ELSE Len(R) - O)
      /\ \A n \in DOMAIN W : W[n] = R[O + n]
  BY <1>1, <1>3, <1>4, <1>5, Sliced
<1>7. /\ D \in Seq(K) /\ DOMAIN D = 1 .. Len(D) /\ Len(D) \in Nat /\ Len(D) <= Len(W)
      /\ \E at \in [DOMAIN D -> DOMAIN W] :
                /\ \A k \in DOMAIN D : D[k] = W[at[k]] /\ k <= at[k]
                /\ \A n \in DOMAIN W : \E k \in DOMAIN D : D[k] = W[n] /\ at[k] <= n
                /\ \A j, k \in DOMAIN D : j < k => at[j] < at[k] /\ D[j] # D[k]
  BY <1>6, DistinctIs
<1>8. PICK at \in [DOMAIN D -> DOMAIN W] :
                /\ \A k \in DOMAIN D : D[k] = W[at[k]] /\ k <= at[k]
                /\ \A n \in DOMAIN W : \E k \in DOMAIN D : D[k] = W[n] /\ at[k] <= n
                /\ \A j, k \in DOMAIN D : j < k => at[j] < at[k] /\ D[j] # D[k]
  BY <1>7
<1> HIDE DEF D
<1>9. M = SubSeq(D, 1, IF Len(D) < size THEN Len(D) ELSE size)
  BY DEF Models, Least, D, W, size
<1>10. /\ M \in Seq(K) /\ Len(M) \in Nat /\ DOMAIN M = 1 .. Len(M)
       /\ Len(M) = Least(Len(D), size)
       /\ \A n \in DOMAIN M : M[n] = D[n]
  <2>1. Least(Len(D), size) \in Nat /\ Least(Len(D), size) <= Len(D)
    BY <1>2, <1>7 DEF Least
  <2>2. M = SubSeq(D, 1, Least(Len(D), size))
    BY <1>9 DEF Least
  <2> DEFINE least == Least(Len(D), size)
  <2> HIDE DEF least, M
  <2>3. \A n \in 1 .. least : D[n] \in K
    BY <1>7, <2>1, ElementOfSeq DEF least
  <2>4. M \in Seq(K) /\ Len(M) = (IF 1 <= least THEN least - 1 + 1 ELSE 0)
        /\ \A n \in 1 .. least - 1 + 1 : M[n] = D[1 + n - 1]
    BY <2>1, <2>2, <2>3, SubSeqProperties DEF least
  <2>5. Len(M) = least
    BY <2>1, <2>4 DEF least
  <2>6. DOMAIN M = 1 .. Len(M) /\ Len(M) \in Nat
    BY <2>4, LenProperties
  <2>7. \A n \in DOMAIN M : M[n] = D[n]
    <3> TAKE n \in DOMAIN M
    <3>1. n \in 1 .. least - 1 + 1 /\ 1 + n - 1 = n
      BY <2>1, <2>5, <2>6 DEF least
    <3> QED
      BY <2>4, <3>1
  <2> QED
    BY <2>4, <2>5, <2>6, <2>7 DEF least
<1> HIDE DEF M
<1>11. Len(M) <= size /\ Len(M) <= Len(D) /\ (Len(M) = Len(D) \/ Len(M) = size)
  BY <1>2, <1>7, <1>10 DEF Least
<1>12. DOMAIN M \subseteq DOMAIN D
  BY <1>7, <1>10, <1>11
<1> DEFINE place == [k \in DOMAIN M |-> O + at[k]]
<1>13. \A n \in DOMAIN W : O + n \in DOMAIN R /\ O < O + n
  BY <1>1, <1>2, <1>3, <1>6
<1>14. \A k \in DOMAIN M : at[k] \in DOMAIN W /\ at[k] \in Nat
  BY <1>6, <1>8, <1>12
<1>15. place \in [DOMAIN M -> DOMAIN R]
  BY <1>13, <1>14
<1>16. \A k \in DOMAIN M : M[k] = R[place[k]] /\ O < place[k]
  BY <1>6, <1>8, <1>10, <1>12, <1>13, <1>14
<1>17. ASSUME NEW j \in DOMAIN M, NEW k \in DOMAIN M, j < k
       PROVE  place[j] < place[k] /\ M[j] # M[k]
  BY <1>3, <1>8, <1>10, <1>12, <1>14, <1>17
<1>18. ASSUME NEW n \in DOMAIN R, O < n, n <= O + size PROVE \E k \in DOMAIN M : M[k] = R[n]
  <2>1. n - O \in DOMAIN W /\ O + (n - O) = n /\ n - O <= size
    BY <1>1, <1>2, <1>3, <1>6, <1>18
  <2>2. PICK k \in DOMAIN D : D[k] = W[n - O] /\ at[k] <= n - O
    BY <1>8, <2>1
  <2>3. k <= size
    BY <1>2, <1>6, <1>7, <1>8, <2>1, <2>2
  <2>4. k \in DOMAIN M
    BY <1>7, <1>10, <1>11, <2>3
  <2> QED
    BY <1>6, <1>10, <2>1, <2>2, <2>4
<1>19. ASSUME NEW n \in DOMAIN R, \A k \in DOMAIN M : M[k] # R[n], ~ (n <= O), NEW k \in DOMAIN M
       PROVE  place[k] < n
  <2>1. n > O + size
    BY <1>1, <1>2, <1>3, <1>18, <1>19
  <2>2. CASE n - O \in DOMAIN W
    <3>1. O + (n - O) = n
      BY <1>1, <1>3
    <3>2. PICK l \in DOMAIN D : D[l] = W[n - O] /\ at[l] <= n - O
      BY <1>8, <2>2
    <3>3. D[l] = R[n] /\ l \notin DOMAIN M
      BY <1>6, <1>10, <1>19, <2>2, <3>1, <3>2
    <3>4. k < l
      BY <1>7, <1>10, <1>11, <3>2, <3>3
    <3>5. at[k] < at[l] /\ at[l] \in Nat
      BY <1>6, <1>8, <1>12, <3>4
    <3> QED
      BY <1>1, <1>3, <1>14, <3>2, <3>5
  <2>3. CASE n - O \notin DOMAIN W
    <3>1. n - O > Len(W)
      <4>1. DOMAIN W = 1 .. Len(W) /\ Len(W) \in Nat
        BY <1>6
      <4>2. n \in Nat /\ O \in Nat
        BY <1>1, <1>3
      <4>3. n > O
        BY <1>19, <4>2
      <4> QED
        BY <2>3, <4>1, <4>2, <4>3
    <3> QED
      BY <1>1, <1>3, <1>6, <1>14, <3>1
  <2> QED
    BY <2>2, <2>3
<1>20. Len(W) > size <=> Len(R) > O + size
  <2>1. Len(W) = (IF O >= Len(R) THEN 0 ELSE IF O + (size + 1) < Len(R) THEN size + 1 ELSE Len(R) - O)
    BY <1>6
  <2>2. CASE O >= Len(R)
    BY <1>1, <1>2, <1>3, <2>1, <2>2
  <2>3. CASE ~ (O >= Len(R)) /\ O + (size + 1) < Len(R)
    BY <1>1, <1>2, <1>3, <2>1, <2>3
  <2>4. CASE ~ (O >= Len(R)) /\ ~ (O + (size + 1) < Len(R))
    BY <1>1, <1>2, <1>3, <2>1, <2>4
  <2> QED
    BY <2>2, <2>3, <2>4
<1>21. ASSUME Len(W) > size PROVE 1 \in DOMAIN M
  <2>1. 1 \in DOMAIN W
    BY <1>2, <1>6, <1>21
  <2>2. Len(D) >= 1
    BY <1>7, <1>8, <2>1
  <2> QED
    BY <1>2, <1>7, <1>10, <1>11, <2>2
<1>22. \E where \in [DOMAIN M -> DOMAIN R] :
                    /\ \A k \in DOMAIN M : M[k] = R[where[k]] /\ O < where[k]
                    /\ \A j, k \in DOMAIN M : j < k => where[j] < where[k]
                    /\ \A n \in DOMAIN R : (\A k \in DOMAIN M : M[k] # R[n]) =>
                            \/ n <= O
                            \/ \A k \in DOMAIN M : where[k] < n
  <2> HIDE DEF place
  <2>1. \A j, k \in DOMAIN M : j < k => place[j] < place[k]
    BY <1>17
  <2>2. \A n \in DOMAIN R : (\A k \in DOMAIN M : M[k] # R[n]) =>
                            \/ n <= O
                            \/ \A k \in DOMAIN M : place[k] < n
    BY <1>19
  <2> WITNESS place \in [DOMAIN M -> DOMAIN R]
  <2> QED
    BY <1>15, <1>16, <2>1, <2>2
<1>23. \A m, n \in DOMAIN M : m < n => M[m] # M[n]
  BY <1>17
<1> QED
  BY <1>10, <1>11, <1>18, <1>20, <1>21, <1>22, <1>23 DEF M, K, R, W, O, size

\* What there is of a page by cursor, and what there is not.
LEMMA CursorPage ==
    ASSUME RowsTyped, walk = "index", NEW spec, SpecTyped(spec), spec.cursor # None
    PROVE  LET M == Models(spec) IN
           /\ Keyset(spec) \in SUBSET Stored
           /\ M \in Seq(Keyset(spec)) /\ DOMAIN M = 1 .. Len(M) /\ Len(M) \in Nat
           /\ \A m, n \in DOMAIN M : m < n => Precedes(M[m], M[n], KeysetSorts(spec))
           /\ \A i \in Keyset(spec) : (\A k \in DOMAIN M : M[k] # i) =>
                /\ Len(Window(spec)) > spec.size
                /\ \A k \in DOMAIN M : Precedes(M[k], i, KeysetSorts(spec))
           /\ Len(Window(spec)) > spec.size => 1 \in DOMAIN M
<1> DEFINE K == Keyset(spec)
           R == RawRows(spec)
           M == Models(spec)
           O == Offset(spec)
           order == KeysetSorts(spec)
           more == Len(Window(spec)) > spec.size
<1>1. K \in SUBSET Stored
  BY KeysetIs
<1>2. /\ R \in Seq(K) /\ Len(R) \in Nat /\ DOMAIN R = 1 .. Len(R)
      /\ \A i \in K : \E n \in DOMAIN R : R[n] = i
      /\ \A m, n \in DOMAIN R : m < n => R[m] = R[n] \/ Precedes(R[m], R[n], order)
  <2>1. OrderOf(spec) = order /\ Identifying(OrderOf(spec))
    BY OrderIdentifies
  <2> QED
    BY <1>1, <2>1, RawRowsAre, LenProperties
<1>3. /\ M \in Seq(K) /\ Len(M) \in Nat /\ DOMAIN M = 1 .. Len(M)
      /\ \A m, n \in DOMAIN M : m < n => M[m] # M[n]
      /\ \E at \in [DOMAIN M -> DOMAIN R] :
            /\ \A k \in DOMAIN M : M[k] = R[at[k]] /\ O < at[k]
            /\ \A j, k \in DOMAIN M : j < k => at[j] < at[k]
            /\ \A n \in DOMAIN R : (\A k \in DOMAIN M : M[k] # R[n]) =>
                    \/ n <= O
                    \/ \A k \in DOMAIN M : at[k] < n
      /\ \A n \in DOMAIN R : O < n /\ n <= O + spec.size => \E k \in DOMAIN M : M[k] = R[n]
      /\ more <=> Len(R) > O + spec.size
      /\ more => 1 \in DOMAIN M
  BY <1>1, ModelsAre
<1>4. O = 0 /\ spec.size \in Nat
  BY DEF Offset, SpecTyped
<1> HIDE DEF K, R, M, O, order, more
<1>5. PICK at \in [DOMAIN M -> DOMAIN R] :
            /\ \A k \in DOMAIN M : M[k] = R[at[k]] /\ O < at[k]
            /\ \A j, k \in DOMAIN M : j < k => at[j] < at[k]
            /\ \A n \in DOMAIN R : (\A k \in DOMAIN M : M[k] # R[n]) =>
                    \/ n <= O
                    \/ \A k \in DOMAIN M : at[k] < n
  BY <1>3
<1>6. \A m, n \in DOMAIN M : m < n => Precedes(M[m], M[n], order)
  <2> SUFFICES ASSUME NEW m \in DOMAIN M, NEW n \in DOMAIN M, m < n PROVE Precedes(M[m], M[n], order)
    OBVIOUS
  <2>1. at[m] \in DOMAIN R /\ at[n] \in DOMAIN R /\ at[m] < at[n] /\ M[m] # M[n] /\ M[m] = R[at[m]] /\ M[n] = R[at[n]]
    BY <1>3, <1>5
  <2> QED
    BY <1>2, <2>1
<1>7. ASSUME NEW i \in K, \A k \in DOMAIN M : M[k] # i
      PROVE  more /\ \A k \in DOMAIN M : Precedes(M[k], i, order)
  <2>1. PICK n \in DOMAIN R : R[n] = i
    BY <1>2
  <2>2. n \in Nat /\ n > 0 /\ n <= Len(R)
    BY <1>2
  <2>3. n > spec.size
    BY <1>3, <1>4, <1>7, <2>1, <2>2
  <2>4. more
    BY <1>2, <1>3, <1>4, <2>2, <2>3
  <2>5. ASSUME NEW k \in DOMAIN M PROVE Precedes(M[k], i, order)
    <3>1. at[k] < n /\ at[k] \in DOMAIN R /\ M[k] = R[at[k]] /\ M[k] # R[n]
      BY <1>4, <1>5, <1>7, <2>1, <2>2
    <3> QED
      BY <1>2, <2>1, <3>1
  <2> QED
    BY <2>4, <2>5
<1> QED
  BY <1>1, <1>3, <1>6, <1>7 DEF K, R, M, O, order, more

-----------------------------------------------------------------------------
(* A request of a walk                                                     *)

\* What the requests of a walk are understood as.
LEMMA SpecOf ==
    ASSUME NEW r, Proper(r), Spec(r).error = None
    PROVE  /\ SpecTyped(Spec(r))
           /\ Spec(r).cursor # None => walk = "index" /\ Spec(r).number = 1
           /\ Spec(r) = Read(r, IF walk = "index" THEN CollectionParameters ELSE {"number", "size"})
           /\ Faulty(r, IF walk = "index" THEN CollectionParameters ELSE {"number", "size"}) = {}
<1> DEFINE known == IF walk = "index" THEN CollectionParameters ELSE {"number", "size"}
           s == Spec(r)
<1>1. r \in Seq(Range(r)) /\ \A p \in Range(r) : WellFormed(p)
  BY DEF Proper
<1>2. /\ Faulty(r, known) = {} /\ s = Read(r, known) /\ OffsetAccepted(s)
      /\ walk = "index" /\ s.cursor # None => Naming(r, {"number"}) = {} /\ CursorAccepted(s.cursor, s.sorts)
  BY AcceptedReads DEF Spec
<1> HIDE DEF known, s
<1>3. s.number \in Nat \ {0} /\ s.size \in 1 .. MaxSize
  BY <1>1, <1>2, PageIsPage
<1>4. Identifying(s.sorts)
  BY <1>1, <1>2, SortsUnderstood DEF Identifying
<1>5. /\ s.cursor = ValueOf(r, {"after", "before"}, None)
      /\ s.number = ValueOf(r, {"number"}, 1)
  BY <1>2, ReadFields
<1>6. s.before = (Naming(r, {"before"}) # {}) /\ s.totals \in BOOLEAN
  BY <1>2 DEF Read
<1>7. s.before \in BOOLEAN
  BY <1>6
<1>8. ASSUME NEW p \in Range(r), p.name \in {"after", "before"}
      PROVE  s.cursor = p.value /\ s.cursor \in Cursors /\ s.cursor # None
  <2>1. s.cursor = p.value
    BY <1>1, <1>2, <1>5, <1>8, SaidBy DEF Families
  <2> QED
    BY <1>1, <1>8, <2>1, NoneIsNoCode DEF WellFormed
<1>9. ASSUME \A p \in Range(r) : p.name \notin {"after", "before"}
      PROVE  s.cursor = None
  BY <1>1, <1>2, <1>5, <1>9, SaidBy
<1>10. s.cursor # None => s.cursor \in Cursors
  BY <1>8, <1>9
<1>11. s.before => s.cursor # None
  <2>1. s.before => \E p \in Range(r) : p.name \in {"before"}
    BY <1>1, <1>2, <1>6, SaidBy
  <2> QED
    BY <1>8, <2>1
<1>12. walk # "index" => s.cursor = None
  <2>1. walk # "index" => \A p \in Range(r) : p.name \in {"number", "size"}
    BY <1>2 DEF Faulty, Range, known
  <2> QED
    BY <1>9, <2>1
<1>13. s.cursor # None => s.number = 1
  BY <1>2, <1>5, <1>12 DEF ValueOf
<1>14. s.size \in Nat \ {0}
  BY <1>3, PolicyAssumption
<1>15. s.cursor # None => CursorAccepted(s.cursor, s.sorts)
  BY <1>2, <1>12
<1>16. SpecTyped(s)
  BY <1>2, <1>3, <1>4, <1>6, <1>7, <1>10, <1>11, <1>14, <1>15 DEF SpecTyped
<1> QED
  BY <1>2, <1>12, <1>13, <1>16 DEF known, s

LEMMA LinkableHas ==
    /\ [name : {"totals"}, value : {"true"}] \subseteq Linkable
    /\ [name : {"number", "size"}, value : Int] \subseteq Linkable
    /\ [name : {"after", "before"}, value : Cursors] \subseteq Linkable
    /\ \A q \in Requests \cup Related : Range(q) \subseteq Linkable
<1> DEFINE A == Given
           B == [name : {"totals"}, value : {"true"}]
           C == [name : {"number", "size"}, value : Int]
           D == [name : {"after", "before"}, value : Cursors]
<1>1. Linkable = A \cup B \cup C \cup D
  BY DEF Linkable
<1>2. \A q \in Requests \cup Related : Range(q) \subseteq A
  BY DEF Given
<1> HIDE DEF A, B, C, D
<1>3. B \subseteq Linkable /\ C \subseteq Linkable /\ D \subseteq Linkable /\ A \subseteq Linkable
  BY <1>1
<1> QED
  BY <1>2, <1>3 DEF A, B, C, D

\* What a link asks for when it is followed.
LEMMA Followed ==
    ASSUME NEW r, Proper(r), r \in Seq(Linkable), Spec(r).error = None,
           NEW p, WellFormed(p), p \in Linkable, p.name \in {"number", "after", "before"},
           p.name = "number" => p.value \in Nat \ {0} /\ (p.value - 1) * Spec(r).size <= MaxOffset,
           p.name # "number" => walk = "index" /\ CursorAccepted(p.value, Spec(r).sorts)
    PROVE  LET l == Link(r, Spec(r), p) IN
           /\ Proper(l) /\ l \in Seq(Linkable) /\ l # None
           /\ SameAsk(Spec(l), Spec(r))
           /\ Spec(l).number = (IF p.name = "number" THEN p.value ELSE 1)
           /\ Spec(l).cursor = (IF p.name = "number" THEN None ELSE p.value)
           /\ Spec(l).before = (p.name = "before")
<1> DEFINE known == IF walk = "index" THEN CollectionParameters ELSE {"number", "size"}
           s == Spec(r)
           l == Link(r, s, p)
           a == Read(l, known)
<1>1. SpecTyped(s) /\ s = Read(r, known) /\ Faulty(r, known) = {}
  BY SpecOf
<1>2. known \subseteq CollectionParameters /\ "size" \in known /\ p.name \in known
  BY DEF CollectionParameters, PageParameters
<1>3. Accepted(p)
  BY DEF Accepted
<1> HIDE DEF known, s, l
<1>4. /\ Proper(l) /\ Faulty(l, known) = {} /\ Range(l) = LinkRange(r, s, p)
      /\ a.error = None /\ a.filters = s.filters /\ a.sorts = s.sorts
      /\ a.includes = s.includes /\ a.size = s.size /\ a.totals = s.totals
      /\ a.number = (IF p.name = "number" THEN p.value ELSE 1)
      /\ a.cursor = (IF p.name = "number" THEN None ELSE p.value)
      /\ a.before = (p.name = "before")
      /\ p.name # "number" => Naming(l, {"number"}) = {}
  BY <1>1, <1>2, <1>3, LinkRead DEF l
<1>5. OffsetAccepted(a)
  <2>1. CASE p.name = "number"
    <3>1. a.number = p.value /\ a.size = Spec(r).size
      BY <1>4, <2>1 DEF s
    <3> QED
      BY <2>1, <3>1 DEF OffsetAccepted
  <2>2. CASE p.name # "number"
    <3>1. a.number = 1 /\ a.size \in Nat
      BY <1>1, <1>4, <2>2 DEF SpecTyped
    <3> QED
      BY <3>1, PolicyAssumption DEF OffsetAccepted
  <2> QED
    BY <2>1, <2>2
<1>6. a.cursor # None => Naming(l, {"number"}) = {} /\ CursorAccepted(a.cursor, a.sorts)
  BY <1>4 DEF s
<1>7. Spec(l) = a
  <2>1. CASE walk = "index"
    BY <1>5, <1>6, <2>1 DEF Spec, ParseQuery, known
  <2>2. CASE walk # "index"
    BY <1>5, <2>2 DEF Spec, ParsePage, known
  <2> QED
    BY <2>1, <2>2
<1>8. l \in Seq(Linkable)
  <2>1. \A q \in Range(l) : q \in Range(r) \/ q = Totals \/ q = p \/ q = SizeOf(s)
    BY <1>4 DEF LinkRange
  <2>2. \A q \in Range(r) : q \in Linkable
    BY RangeOfSeq
  <2>3. Totals \in Linkable
    <3>1. Totals \in [name : {"totals"}, value : {"true"}]
      BY DEF Totals
    <3> QED
      BY <3>1, LinkableHas
  <2>4. SizeOf(s) \in Linkable
    <3>1. s.size \in Int
      BY <1>1 DEF SpecTyped
    <3>2. SizeOf(s) \in [name : {"number", "size"}, value : Int]
      BY <3>1 DEF SizeOf
    <3> QED
      BY <3>2, LinkableHas
  <2>5. Range(l) \subseteq Linkable
    BY <2>1, <2>2, <2>3, <2>4
  <2> QED
    BY <1>4, <2>5, SeqMonotonic DEF Proper
<1>9. l # None
  BY <1>8, NoneAssumption
<1> QED
  BY <1>4, <1>7, <1>8, <1>9 DEF SameAsk, l, s

-----------------------------------------------------------------------------
(* The links of a page                                                     *)

\* Page numbers reach what an offset can count.
LEMMA Numbers ==
    ASSUME NEW count \in Nat, NEW size \in Nat \ {0}
    PROVE  /\ LastPage(count, size) \in Nat \ {0}
           /\ (LastPage(count, size) - 1) * size <= count
           /\ \A n \in Nat \ {0} : n < LastPage(count, size) <=> n * size < count
<1>1. CASE count = 0
  <2>1. LastPage(count, size) = 1
    BY <1>1 DEF LastPage
  <2>2. \A n \in Nat : n * size \in Nat
    OBVIOUS
  <2> QED
    BY <1>1, <2>1, <2>2
<1>2. CASE count # 0
  <2> DEFINE q == (count + size - 1) \div size
  <2>1. LastPage(count, size) = q
    BY <1>2 DEF LastPage
  <2>2. q \in Nat /\ q * size <= count + size - 1 /\ count + size - 1 < q * size + size
    BY <1>2
  <2> HIDE DEF q
  <2>3. (q - 1) * size = q * size - size /\ q # 0
    BY <1>2, <2>2
  <2>4. ASSUME NEW n \in Nat, n < q PROVE n * size <= (q - 1) * size
    <3>1. q - 1 - n \in Nat
      BY <2>2, <2>4
    <3>2. (q - 1 - n) * size \in Nat
      BY <3>1
    <3> QED
      BY <2>2, <3>2
  <2>5. ASSUME NEW n \in Nat, ~ (n < q) PROVE n * size >= q * size
    <3>1. n - q \in Nat
      BY <2>2, <2>5
    <3>2. (n - q) * size \in Nat
      BY <3>1
    <3> QED
      BY <2>2, <3>2
  <2>6. \A n \in Nat : n * size \in Nat /\ q * size \in Nat
    BY <2>2
  <2>7. \A n \in Nat : n < q <=> n * size < count
    BY <2>2, <2>3, <2>4, <2>5, <2>6
  <2> QED
    BY <2>1, <2>2, <2>3, <2>7
<1> QED
  BY <1>1, <1>2

ToNumber(r, n) == Link(r, Spec(r), [name |-> "number", value |-> n])
ToCursor(r, name, c) == Link(r, Spec(r), [name |-> name, value |-> c])

LEMMA NumberFollowed ==
    ASSUME NEW r, Proper(r), r \in Seq(Linkable), Spec(r).error = None, Spec(r).cursor = None,
           NEW n \in Nat \ {0}, (n - 1) * Spec(r).size <= MaxOffset
    PROVE  /\ ToNumber(r, n) # None /\ Leads(ToNumber(r, n), r)
           /\ Spec(ToNumber(r, n)).number = n /\ ~ Spec(ToNumber(r, n)).before
<1> DEFINE p == [name |-> "number", value |-> n]
<1>1. p.name = "number" /\ p.value = n /\ WellFormed(p)
  BY DEF WellFormed
<1>2. p \in Linkable
  <2>1. p \in [name : {"number", "size"}, value : Int]
    OBVIOUS
  <2> QED
    BY <2>1, LinkableHas
<1>3. ToNumber(r, n) = Link(r, Spec(r), p)
  BY DEF ToNumber
<1> HIDE DEF p
<1>4. LET l == Link(r, Spec(r), p) IN
           /\ Proper(l) /\ l \in Seq(Linkable) /\ l # None
           /\ SameAsk(Spec(l), Spec(r))
           /\ Spec(l).number = n
           /\ Spec(l).cursor = None
           /\ Spec(l).before = FALSE
  BY <1>1, <1>2, Followed
<1> QED
  BY <1>3, <1>4 DEF Leads

LEMMA CursorFollowed ==
    ASSUME NEW r, Proper(r), r \in Seq(Linkable), Spec(r).error = None, walk = "index",
           Spec(r).cursor # None, NEW name \in {"after", "before"},
           NEW c \in Cursors, CursorAccepted(c, Spec(r).sorts)
    PROVE  /\ ToCursor(r, name, c) # None /\ Leads(ToCursor(r, name, c), r)
           /\ Spec(ToCursor(r, name, c)).cursor = c
           /\ Spec(ToCursor(r, name, c)).before = (name = "before")
<1> DEFINE p == [name |-> name, value |-> c]
<1>1. p.name = name /\ p.value = c /\ WellFormed(p)
  BY DEF WellFormed
<1>2. p \in Linkable
  <2>1. p \in [name : {"after", "before"}, value : Cursors]
    OBVIOUS
  <2> QED
    BY <2>1, LinkableHas
<1>3. ToCursor(r, name, c) = Link(r, Spec(r), p)
  BY DEF ToCursor
<1>5. c # None
  BY NoneIsNoCode
<1> HIDE DEF p
<1>4. LET l == Link(r, Spec(r), p) IN
           /\ Proper(l) /\ l \in Seq(Linkable) /\ l # None
           /\ SameAsk(Spec(l), Spec(r))
           /\ Spec(l).cursor = c
           /\ Spec(l).before = (name = "before")
  BY <1>1, <1>2, Followed
<1> QED
  BY <1>3, <1>4, <1>5 DEF Leads

\* The links of a page by number are accepted, and agree with each other.
LEMMA OffsetLinksLead ==
    ASSUME NEW r, Proper(r), r \in Seq(Linkable), Spec(r).error = None, Spec(r).cursor = None,
           NEW count, count = None \/ count \in 0 .. MaxOffset,
           NEW more \in BOOLEAN, more => Spec(r).number * Spec(r).size <= MaxOffset
    PROVE  LET links == OffsetLinks(r, Spec(r), count, more) IN
           /\ LinksLead(r, links)
           /\ links.next = None <=> ~ more /\ (count # None => Spec(r).number >= LastPage(count, Spec(r).size))
           /\ links.next # None => Spec(links.next).number = Spec(r).number + 1
           /\ links.last # None /\ links.next = None => Spec(links.last).number <= Spec(r).number
<1> DEFINE links == OffsetLinks(r, Spec(r), count, more)
           s == Spec(r)
           number == s.number
           size == s.size
           last == LastPage(count, size)
<1>1. number \in Nat \ {0} /\ size \in Nat \ {0} /\ (number - 1) * size <= MaxOffset
  BY SpecOf DEF SpecTyped, OffsetAccepted
<1>2. MaxOffset \in Nat
  BY PolicyAssumption
<1>3. count # None =>
        /\ last \in Nat \ {0} /\ (last - 1) * size <= MaxOffset
        /\ \A n \in Nat \ {0} : n < last <=> n * size < count
  <2> SUFFICES ASSUME count # None
      PROVE  /\ last \in Nat \ {0} /\ (last - 1) * size <= MaxOffset
             /\ \A n \in Nat \ {0} : n < last <=> n * size < count
    OBVIOUS
  <2>1. count \in Nat /\ count <= MaxOffset
    BY <1>2
  <2> HIDE DEF number, size
  <2>2. /\ last \in Nat \ {0} /\ (last - 1) * size <= count
        /\ \A n \in Nat \ {0} : n < last <=> n * size < count
    BY <1>1, <2>1, Numbers
  <2> HIDE DEF last
  <2>3. (last - 1) * size \in Int
    BY <1>1, <2>2
  <2> QED
    BY <1>2, <2>1, <2>2, <2>3
<1>4. links = [self |-> ToNumber(r, number),
               first |-> ToNumber(r, 1),
               prev |-> IF number > 1 THEN ToNumber(r, number - 1) ELSE None,
               next |-> IF more \/ MoreByCount(s, count) THEN ToNumber(r, number + 1) ELSE None,
               last |-> IF count = None THEN None ELSE ToNumber(r, last)]
  BY DEF OffsetLinks, ToNumber
<1>5. MoreByCount(s, count) <=> count # None /\ number < last
  BY DEF MoreByCount
<1> HIDE DEF links, number, size, last
<1>6. more \/ MoreByCount(s, count) => (number + 1) - 1 = number /\ number * size <= MaxOffset
  <2>1. more => number * size <= MaxOffset
    BY DEF number, size, s
  <2>2. number * size \in Nat
    BY <1>1
  <2>3. ASSUME MoreByCount(s, count) PROVE number * size <= MaxOffset
    <3>1. count # None /\ number < last /\ count \in 0 .. MaxOffset
      BY <1>5, <2>3
    <3>2. number * size < count
      BY <1>1, <1>3, <3>1
    <3> QED
      BY <1>2, <2>2, <3>1, <3>2
  <2> QED
    BY <1>1, <2>1, <2>3
<1>7. \A n \in Nat \ {0} : (n - 1) * size <= MaxOffset =>
        /\ ToNumber(r, n) # None /\ Leads(ToNumber(r, n), r)
        /\ Spec(ToNumber(r, n)).number = n
  BY NumberFollowed DEF size, s
<1>8. /\ ToNumber(r, number) # None /\ Leads(ToNumber(r, number), r)
      /\ ToNumber(r, 1) # None /\ Leads(ToNumber(r, 1), r)
  <2>1. (1 - 1) * size <= MaxOffset
    BY <1>1, <1>2
  <2> QED
    BY <1>1, <1>7, <2>1
<1>9. number > 1 => ToNumber(r, number - 1) # None /\ Leads(ToNumber(r, number - 1), r)
  <2> SUFFICES ASSUME number > 1 PROVE ToNumber(r, number - 1) # None /\ Leads(ToNumber(r, number - 1), r)
    OBVIOUS
  <2>1. number - 1 \in Nat \ {0}
    BY <1>1
  <2>2. ((number - 1) - 1) * size = (number - 1) * size - size /\ (number - 1) * size \in Nat
    BY <1>1, <2>1
  <2>3. ((number - 1) - 1) * size <= MaxOffset
    BY <1>1, <1>2, <2>2
  <2> QED
    BY <1>7, <2>1, <2>3
<1>10. more \/ MoreByCount(s, count) =>
        /\ ToNumber(r, number + 1) # None /\ Leads(ToNumber(r, number + 1), r)
        /\ Spec(ToNumber(r, number + 1)).number = number + 1
  <2>1. number + 1 \in Nat \ {0}
    BY <1>1
  <2> QED
    BY <1>6, <1>7, <2>1
<1>11. count # None =>
        /\ ToNumber(r, last) # None /\ Leads(ToNumber(r, last), r)
        /\ Spec(ToNumber(r, last)).number = last
  BY <1>3, <1>7
<1>12. \A l : Leads(l, r) => l \in Seq(Linkable)
  BY DEF Leads
<1>13. LinksLead(r, links)
  <2>1. /\ links.self = ToNumber(r, number)
        /\ links.first = ToNumber(r, 1)
        /\ links.prev = None \/ (number > 1 /\ links.prev = ToNumber(r, number - 1))
        /\ links.next = None \/ ((more \/ MoreByCount(s, count)) /\ links.next = ToNumber(r, number + 1))
        /\ links.last = None \/ (count # None /\ links.last = ToNumber(r, last))
    BY <1>4
  <2>2. \A field \in LinkFields : links[field] = None \/ Leads(links[field], r)
    BY <1>8, <1>9, <1>10, <1>11, <2>1 DEF LinkFields
  <2>3. DOMAIN links = LinkFields /\ links = [field \in LinkFields |-> links[field]]
    BY <1>4 DEF LinkFields
  <2>4. links \in [LinkFields -> Seq(Linkable) \cup {None}]
    BY <1>12, <2>2, <2>3
  <2> QED
    BY <2>2, <2>4 DEF LinksLead
<1>14. links.next = None <=> ~ (more \/ MoreByCount(s, count))
  BY <1>4, <1>10
<1>15. count # None => (~ (number < last) <=> number >= last)
  <2>1. count # None => last \in Nat
    BY <1>3
  <2>2. number \in Nat
    BY <1>1
  <2> QED
    BY <2>1, <2>2
<1>16. links.next # None => Spec(links.next).number = number + 1
  BY <1>4, <1>10
<1>17. links.last # None /\ links.next = None => Spec(links.last).number <= number
  <2> SUFFICES ASSUME links.last # None, links.next = None PROVE Spec(links.last).number <= number
    OBVIOUS
  <2>1. count # None /\ links.last = ToNumber(r, last)
    BY <1>4
  <2>2. ~ (number < last)
    BY <1>5, <1>14, <2>1
  <2> QED
    <3>1. last \in Nat /\ number \in Nat
      BY <1>1, <1>3, <2>1
    <3>2. Spec(links.last).number = last
      BY <1>11, <2>1
    <3> QED
      BY <2>2, <3>1, <3>2
<1> QED
  BY <1>5, <1>13, <1>14, <1>15, <1>16, <1>17 DEF links, number, size, last, s

LEMMA MintedAt ==
    ASSUME RowsTyped, NEW spec, SpecTyped(spec), spec.cursor # None, NEW i \in Keyset(spec)
    PROVE  /\ Minted(CursorAt(i, spec), spec) /\ CursorAt(i, spec) # None
           /\ CursorAt(i, spec) = [s |-> spec.sorts, v |-> KeyOf(i, spec.sorts)]
<1> DEFINE sorts == spec.sorts
           key == KeyOf(i, sorts)
           c == [s |-> sorts, v |-> key]
<1>1. sorts \in Seq(SortTerms) /\ Addressable(sorts) /\ Identifying(sorts)
  BY DEF SpecTyped, CursorAccepted, Identifying
<1>2. i \in Stored /\ (Positioned(spec) => Lex(spec.cursor.v, key, KeysetSorts(spec)))
  BY KeysetIs
<1>3. key \in [DOMAIN sorts -> ColumnValues]
  BY <1>1, <1>2, KeyTyped
<1>4. ColumnValues \subseteq Int /\ Null \notin ColumnValues
  BY PolicyAssumption
<1> HIDE DEF key
<1>5. \A n \in DOMAIN sorts : key[n] # Null
  BY <1>3, <1>4
<1>6. CursorAt(i, spec) = c
  BY <1>1, <1>5 DEF CursorAt, EncodeCursor, key
<1>7. DOMAIN sorts = 1 .. Len(sorts) /\ Len(sorts) \in Nat
  BY <1>1, LenProperties
<1>8. key \in Seq(ColumnValues) /\ key \in Seq(Int) /\ Len(key) = Len(sorts)
  <2> DEFINE N == Len(sorts)
  <2>1. N \in Nat /\ key \in [1 .. N -> ColumnValues]
    BY <1>3, <1>7
  <2> HIDE DEF N
  <2>2. key \in Seq(ColumnValues) /\ Len(key) = N
    BY <2>1
  <2>3. key \in Seq(Int)
    BY <1>4, <2>2, SeqMonotonic
  <2> QED
    BY <2>2, <2>3 DEF N
<1>9. sorts \in Seq([name : STRING, desc : BOOLEAN])
  <2>1. SortTerms \subseteq [name : STRING, desc : BOOLEAN]
    BY PolicyAssumption DEF SortTerms
  <2> QED
    BY <1>1, <2>1, SeqMonotonic
<1>10. c \in Cursors
  BY <1>8, <1>9 DEF Cursors
<1>11. c # Boundary
  <2>1. Len(sorts) # 0
    BY <1>1, <1>7 DEF Identifying
  <2>2. Len(<<>>) = 0
    OBVIOUS
  <2>3. key # <<>>
    BY <1>8, <2>1, <2>2
  <2>4. c.v = key /\ Boundary.v = <<>>
    BY DEF Boundary
  <2> QED
    BY <2>3, <2>4
<1>12. CursorAccepted(c, sorts)
  <2>1. Range(key) \subseteq ColumnValues
    BY <1>8, RangeOfSeq
  <2> QED
    BY <1>1, <1>8, <2>1 DEF CursorAccepted, Decodable
<1>13. c # None
  BY <1>10, NoneIsNoCode
<1> QED
  BY <1>2, <1>6, <1>10, <1>11, <1>12, <1>13 DEF Minted, key

\* The links of a page by cursor are accepted, and lead on from its last row.
LEMMA CursorLinksLead ==
    ASSUME NEW r, Proper(r), r \in Seq(Linkable), Spec(r).error = None, walk = "index", Spec(r).cursor # None,
           NEW more \in BOOLEAN, NEW c, Minted(c, Spec(r)), NEW d, Minted(d, Spec(r))
    PROVE  LET links == CursorLinks(r, Spec(r), more, c, d)
               on == OnwardOf(r, links)
               x == IF Spec(r).before THEN d ELSE c
           IN  /\ LinksLead(r, links)
               /\ on = None <=> ~ (more /\ x # None)
               /\ on # None => Spec(on).cursor = x /\ Spec(on).before = Spec(r).before
<1> DEFINE links == CursorLinks(r, Spec(r), more, c, d)
           s == Spec(r)
           on == OnwardOf(r, links)
           here == s.cursor
<1>1. /\ here \in Cursors /\ CursorAccepted(here, s.sorts) /\ s.before \in BOOLEAN
      /\ Boundary \in Cursors /\ CursorAccepted(Boundary, s.sorts)
  <2>1. here \in Cursors /\ CursorAccepted(here, s.sorts) /\ s.before \in BOOLEAN
    BY SpecOf DEF SpecTyped
  <2>2. Boundary \in Cursors
    BY DEF Boundary, Cursors
  <2> QED
    BY <2>1, <2>2 DEF CursorAccepted
<1>2. (c # None => c \in Cursors /\ CursorAccepted(c, s.sorts)) /\ (d # None => d \in Cursors /\ CursorAccepted(d, s.sorts))
  BY DEF Minted
<1>3. \A name \in {"after", "before"}, x \in Cursors : CursorAccepted(x, s.sorts) =>
        /\ ToCursor(r, name, x) # None /\ Leads(ToCursor(r, name, x), r)
        /\ Spec(ToCursor(r, name, x)).cursor = x
        /\ Spec(ToCursor(r, name, x)).before = (name = "before")
  BY CursorFollowed
<1> DEFINE toNext == IF s.before THEN here # Boundary ELSE more
           toPrev == IF s.before THEN more ELSE here # Boundary
<1>4. links = [self |-> IF s.before THEN ToCursor(r, "before", here) ELSE ToCursor(r, "after", here),
               first |-> ToCursor(r, "after", Boundary),
               prev |-> IF toPrev /\ d # None THEN ToCursor(r, "before", d) ELSE None,
               next |-> IF toNext /\ c # None THEN ToCursor(r, "after", c) ELSE None,
               last |-> ToCursor(r, "before", Boundary)]
  BY DEF CursorLinks, ToCursor
<1> HIDE DEF links, s, here
<1>5. /\ Leads(ToCursor(r, "before", here), r) /\ Leads(ToCursor(r, "after", here), r)
      /\ Leads(ToCursor(r, "before", Boundary), r) /\ Leads(ToCursor(r, "after", Boundary), r)
  BY <1>1, <1>3
<1>6. /\ d # None => /\ ToCursor(r, "before", d) # None /\ Leads(ToCursor(r, "before", d), r)
                     /\ Spec(ToCursor(r, "before", d)).cursor = d /\ Spec(ToCursor(r, "before", d)).before = TRUE
      /\ c # None => /\ ToCursor(r, "after", c) # None /\ Leads(ToCursor(r, "after", c), r)
                     /\ Spec(ToCursor(r, "after", c)).cursor = c /\ Spec(ToCursor(r, "after", c)).before = FALSE
  BY <1>2, <1>3
<1>7. \A l : Leads(l, r) => l \in Seq(Linkable)
  BY DEF Leads
<1>8. LinksLead(r, links)
  <2>1. /\ links.self \in {ToCursor(r, "before", here), ToCursor(r, "after", here)}
        /\ links.first = ToCursor(r, "after", Boundary)
        /\ links.prev = None \/ (d # None /\ links.prev = ToCursor(r, "before", d))
        /\ links.next = None \/ (c # None /\ links.next = ToCursor(r, "after", c))
        /\ links.last = ToCursor(r, "before", Boundary)
    BY <1>4
  <2>2. \A field \in LinkFields : links[field] = None \/ Leads(links[field], r)
    BY <1>5, <1>6, <2>1 DEF LinkFields
  <2>3. DOMAIN links = LinkFields /\ links = [field \in LinkFields |-> links[field]]
    BY <1>4 DEF LinkFields
  <2>4. links \in [LinkFields -> Seq(Linkable) \cup {None}]
    BY <1>7, <2>2, <2>3
  <2> QED
    BY <2>2, <2>4 DEF LinksLead
<1>9. CASE s.before
  <2>1. on = links.prev
    BY <1>9 DEF OnwardOf, s
  <2>2. links.prev = IF more /\ d # None THEN ToCursor(r, "before", d) ELSE None
    BY <1>4, <1>9
  <2> QED
    BY <1>1, <1>6, <1>8, <1>9, <2>1, <2>2 DEF s, links
<1>10. CASE ~ s.before
  <2>1. on = links.next
    BY <1>10 DEF OnwardOf, s
  <2>2. links.next = IF more /\ c # None THEN ToCursor(r, "after", c) ELSE None
    BY <1>4, <1>10
  <2> QED
    BY <1>1, <1>6, <1>8, <1>10, <2>1, <2>2 DEF s, links
<1> QED
  BY <1>9, <1>10

LEMMA Reversed ==
    ASSUME NEW T, NEW s \in Seq(T)
    PROVE  /\ Reverse(s) \in Seq(T) /\ Len(Reverse(s)) = Len(s) /\ DOMAIN Reverse(s) = DOMAIN s
           /\ \A n \in DOMAIN s : Reverse(s)[n] = s[Len(s) - n + 1] /\ Len(s) - n + 1 \in DOMAIN s
<1>1. Len(s) \in Nat /\ DOMAIN s = 1 .. Len(s)
  BY LenProperties
<1>2. \A n \in DOMAIN s : Len(s) - n + 1 \in DOMAIN s
  BY <1>1
<1>3. \A n \in DOMAIN s : s[n] \in T
  BY <1>1, ElementOfSeq
<1>4. Reverse(s) = [n \in 1 .. Len(s) |-> s[Len(s) - n + 1]]
  BY DEF Reverse
<1>5. Reverse(s) \in [1 .. Len(s) -> T]
  BY <1>1, <1>2, <1>3, <1>4
<1>6. Reverse(s) \in Seq(T) /\ Len(Reverse(s)) = Len(s) /\ DOMAIN Reverse(s) = 1 .. Len(s)
  BY <1>1, <1>5
<1> QED
  BY <1>1, <1>2, <1>4, <1>6

\* What a page leads to: as the request went, from where it ended.
LEMMA Answered ==
    ASSUME RowsTyped, NEW r, Proper(r), r \in Seq(Linkable), Spec(r).error = None,
           NEW count, count = None \/ count \in 0 .. MaxOffset
    PROVE  LET s == Spec(r)
               a == Answer(r, s, count)
               on == OnwardOf(r, a.links)
               M == Models(s)
           IN  /\ a \in Pages /\ a # None /\ LinksLead(r, a.links) /\ DOMAIN a.links = LinkFields
               /\ walk = "index" => a.ids = (IF s.before THEN Reverse(M) ELSE M)
               /\ walk # "index" => a.ids = Limited(RawRows(s), s, s.size)
               /\ s.cursor = None =>
                    /\ ~ s.before
                    /\ on = None <=> /\ walk = "index" => ~ Len(Window(s)) > s.size
                                     /\ count # None => s.number >= LastPage(count, s.size)
                    /\ on # None => Spec(on).number = s.number + 1
                    /\ a.links.last # None /\ a.links.next = None => Spec(a.links.last).number <= s.number
               /\ s.cursor # None =>
                    /\ on = None <=> ~ Len(Window(s)) > s.size
                    /\ on # None => /\ Len(M) \in DOMAIN M
                                    /\ Spec(on).cursor = CursorAt(M[Len(M)], s)
                                    /\ Minted(Spec(on).cursor, s)
                                    /\ Spec(on).before = s.before
<1> DEFINE s == Spec(r)
           a == Answer(r, s, count)
           on == OnwardOf(r, a.links)
           M == Models(s)
           more == Len(Window(s)) > s.size
           ids == IF walk = "index" THEN (IF s.before THEN Reverse(M) ELSE M) ELSE Limited(RawRows(s), s, s.size)
           hasMore == walk = "index" /\ more
           cursor(n) == IF ids = <<>> THEN None ELSE CursorAt(ids[n], s)
           K == Keyset(s)
           R == RawRows(s)
<1>1. SpecTyped(s) /\ (s.cursor # None => walk = "index")
  BY SpecOf
<1>2. K \in SUBSET Stored /\ K \subseteq Ids
  <2>1. K \in SUBSET Stored
    BY <1>1, KeysetIs
  <2> QED
    BY <2>1 DEF Stored
<1>3. /\ M \in Seq(K) /\ Len(M) \in Nat /\ DOMAIN M = 1 .. Len(M)
      /\ more => 1 \in DOMAIN M
      /\ more <=> Len(R) > Offset(s) + s.size
  <2> HIDE DEF s, M
  <2> QED
    BY <1>1, <1>2, ModelsAre DEF M
<1>4. a.ids = ids /\ a.links = (IF s.cursor = None THEN OffsetLinks(r, s, count, hasMore)
                                ELSE CursorLinks(r, s, hasMore, cursor(Len(ids)), cursor(1)))
      /\ a = [ids |-> a.ids, links |-> a.links]
  <2>1. walk = "index" => IndexPage(s) = [ids |-> ids, hasMore |-> hasMore]
    BY IndexPageIs
  <2>2. walk # "index" => RelatedPage(s) = [ids |-> ids, hasMore |-> hasMore]
    BY DEF RelatedPage
  <2> HIDE DEF ids, hasMore, s
  <2> QED
    BY <2>1, <2>2 DEF Answer
<1>5. R \in Seq(K) /\ Len(R) \in Nat /\ Len(R) <= MaxOffset
  <2> HIDE DEF s
  <2>1. R \in Seq(K) /\ Len(R) <= MaxOffset
    BY <1>1, <1>2, OrderIdentifies, RawRowsAre
  <2> QED
    BY <2>1, LenProperties
<1>6. ids \in Seq(K)
  <2>1. CASE walk = "index"
    <3> HIDE DEF M, K
    <3> QED
      BY <1>3, <2>1, Reversed
  <2>2. CASE walk # "index"
    <3>1. s.cursor = None /\ s.size \in Nat /\ s.number - 1 \in Nat
      BY <1>1, <2>2 DEF SpecTyped
    <3>2. (s.number - 1) * s.size \in Nat
      BY <3>1
    <3>3. ids = Slice(R, (s.number - 1) * s.size, s.size)
      BY <2>2, <3>1 DEF Limited, Slice
    <3> HIDE DEF ids, s, R, K
    <3> QED
      BY <1>5, <3>1, <3>2, <3>3, Sliced
  <2> QED
    BY <2>1, <2>2
<1> HIDE DEF ids, M, R
<1>7. ASSUME s.cursor = None
      PROVE  /\ ~ s.before
             /\ LinksLead(r, a.links)
             /\ on = None <=> /\ walk = "index" => ~ more
                              /\ count # None => s.number >= LastPage(count, s.size)
             /\ on # None => Spec(on).number = s.number + 1
             /\ a.links.last # None /\ a.links.next = None => Spec(a.links.last).number <= s.number
  <2>1. ~ s.before
    BY <1>1, <1>7 DEF SpecTyped
  <2>2. hasMore \in BOOLEAN /\ (hasMore => s.number * s.size <= MaxOffset)
    <3>1. s.number \in Nat \ {0} /\ s.size \in Nat
      BY <1>1 DEF SpecTyped
    <3>2. (s.number - 1) * s.size = s.number * s.size - s.size /\ s.number * s.size \in Nat
      BY <3>1
    <3>3. Offset(s) + s.size = s.number * s.size
      BY <1>7, <3>1, <3>2 DEF Offset
    <3>4. more => s.number * s.size < Len(R)
      BY <1>3, <1>5, <3>2, <3>3
    <3>5. more => s.number * s.size <= MaxOffset
      BY <1>5, <3>2, <3>4, PolicyAssumption
    <3> HIDE DEF more
    <3> QED
      BY <3>5
  <2> DEFINE links == OffsetLinks(r, s, count, hasMore)
  <2> HIDE DEF hasMore
  <2>3. /\ LinksLead(r, links)
        /\ links.next = None <=> ~ hasMore /\ (count # None => s.number >= LastPage(count, s.size))
        /\ links.next # None => Spec(links.next).number = s.number + 1
        /\ links.last # None /\ links.next = None => Spec(links.last).number <= s.number
    BY <1>7, <2>2, OffsetLinksLead
  <2>4. on = links.next /\ a.links = links
    BY <1>4, <1>7, <2>1 DEF OnwardOf
  <2>5. ~ hasMore <=> (walk = "index" => ~ more)
    BY DEF hasMore
  <2> HIDE DEF links, more, on, a, s
  <2> QED
    BY <2>1, <2>3, <2>4, <2>5
<1>8. ASSUME s.cursor # None
      PROVE  /\ LinksLead(r, a.links)
             /\ on = None <=> ~ more
             /\ on # None => /\ Len(M) \in DOMAIN M
                             /\ Spec(on).cursor = CursorAt(M[Len(M)], s)
                             /\ Minted(Spec(on).cursor, s)
                             /\ Spec(on).before = s.before
  <2>1. walk = "index" /\ (hasMore <=> more) /\ hasMore \in BOOLEAN /\ s.before \in BOOLEAN
    BY <1>1, <1>8 DEF SpecTyped
  <2>2. ids = IF s.before THEN Reverse(M) ELSE M
    BY <2>1 DEF ids
  <2> DEFINE c == cursor(Len(ids))
             d == cursor(1)
             x == IF s.before THEN d ELSE c
  <2>3. \A n \in 1 .. Len(ids) : Minted(CursorAt(ids[n], s), s) /\ CursorAt(ids[n], s) # None
    <3>1. \A n \in 1 .. Len(ids) : ids[n] \in K
      BY <1>6, ElementOfSeq
    <3> HIDE DEF s
    <3> QED
      BY <1>1, <1>8, <3>1, MintedAt
  <2>4. ids # <<>> => 1 \in 1 .. Len(ids) /\ Len(ids) \in 1 .. Len(ids)
    BY <1>6, EmptySeq
  <2>5. Minted(c, s) /\ Minted(d, s)
    <3>1. Minted(None, s)
      BY DEF Minted
    <3> QED
      BY <2>3, <2>4, <3>1
  <2>6. M # <<>> => /\ Len(M) \in DOMAIN M
                    /\ x = CursorAt(M[Len(M)], s) /\ x # None
    <3>1. M # <<>> => Len(M) \in DOMAIN M /\ 1 \in DOMAIN M
      BY <1>3, EmptySeq
    <3>2. CASE ~ s.before
      <4>1. ids = M /\ x = c
        BY <2>2, <3>2
      <4> QED
        BY <2>3, <2>4, <3>1, <4>1
    <3>3. CASE s.before
      <4>1. ids = Reverse(M) /\ x = d
        BY <2>2, <3>3
      <4>2. Len(ids) = Len(M) /\ (1 \in DOMAIN M => ids[1] = M[Len(M) - 1 + 1])
        BY <1>3, <4>1, Reversed
      <4>3. M # <<>> => ids # <<>> /\ ids[1] = M[Len(M)]
        <5>1. M # <<>> => Len(M) # 0
          BY <1>3, <3>1
        <5>2. Len(M) - 1 + 1 = Len(M)
          BY <1>3
        <5>3. Len(<<>>) = 0
          BY EmptySeq
        <5> QED
          BY <3>1, <4>2, <5>1, <5>2, <5>3
      <4> QED
        BY <2>3, <2>4, <3>1, <4>1, <4>3
    <3> QED
      BY <2>1, <3>2, <3>3
  <2>7. more => M # <<>>
    <3>1. DOMAIN <<>> = {}
      OBVIOUS
    <3> QED
      BY <1>3, <3>1
  <2> HIDE DEF c, d
  <2> DEFINE links == CursorLinks(r, s, hasMore, c, d)
  <2>8. a.links = links
    BY <1>4, <1>8 DEF c, d
  <2> HIDE DEF hasMore
  <2>9. /\ LinksLead(r, links)
        /\ OnwardOf(r, links) = None <=> ~ (hasMore /\ x # None)
        /\ OnwardOf(r, links) # None =>
            Spec(OnwardOf(r, links)).cursor = x /\ Spec(OnwardOf(r, links)).before = s.before
    BY <1>8, <2>1, <2>5, CursorLinksLead
  <2>10. Minted(x, s)
    BY <2>5
  <2>11. on = OnwardOf(r, links)
    BY <2>8
  <2> HIDE DEF links, on, a, s, x, more
  <2> QED
    BY <2>1, <2>6, <2>7, <2>8, <2>9, <2>10, <2>11
<1>9. LinksLead(r, a.links)
  BY <1>7, <1>8
<1>10. a \in Pages
  <2>1. a.links \in [LinkFields -> Seq(Linkable) \cup {None}]
    BY <1>9 DEF LinksLead
  <2>2. a.ids \in Seq(Ids)
    BY <1>2, <1>4, <1>6, SeqMonotonic
  <2> HIDE DEF a
  <2> QED
    BY <1>4, <2>1, <2>2 DEF Pages, LinkFields
<1>11. a # None /\ DOMAIN a.links = LinkFields
  BY <1>9, <1>10, NoneAssumption DEF LinksLead
<1>12. /\ walk = "index" => a.ids = (IF s.before THEN Reverse(M) ELSE M)
       /\ walk # "index" => a.ids = Limited(RawRows(s), s, s.size)
  BY <1>4 DEF ids
<1> QED
  BY <1>7, <1>8, <1>9, <1>10, <1>11, <1>12 DEF M


-----------------------------------------------------------------------------
(* What a step leaves alone                                                *)

LEMMA SpecStays ==
    ASSUME walk' = walk, NEW r
    PROVE  /\ Spec(r)' = Spec(r)
           /\ Sent(r)' <=> Sent(r)
  BY DEF Spec, Sent

LEMMA OnwardStays ==
    ASSUME walk' = walk, NEW r, NEW links
    PROVE  OnwardOf(r, links)' = OnwardOf(r, links)
  BY DEF OnwardOf, Spec

LEMMA LinksStay ==
    ASSUME walk' = walk, NEW r, NEW links
    PROVE  LinksLead(r, links)' <=> LinksLead(r, links)
<1>1. \A l : Leads(l, r)' <=> Leads(l, r)
  BY DEF Leads, Spec
<1> QED
  BY <1>1 DEF LinksLead

LEMMA PageStays ==
    ASSUME walk' = walk, NEW r, NEW p
    PROVE  PageLeads(r, p)' <=> PageLeads(r, p)
<1>1. LinksLead(r, p.links)' <=> LinksLead(r, p.links)
  BY LinksStay
<1> QED
  BY <1>1 DEF PageLeads, OnwardOf, Spec

LEMMA ComingStays ==
    ASSUME walk' = walk, NEW r, NEW p
    PROVE  Coming(r, p)' = Coming(r, p)
  BY DEF Coming, OnwardOf, Spec

LEMMA RowStays ==
    ASSUME walk' = walk, NEW i, table'[i] = table[i], NEW s
    PROVE  /\ (i \in Selected(s))' <=> i \in Selected(s)
           /\ (i \in Keyset(s))' <=> i \in Keyset(s)
           /\ KeyOf(i, s.sorts)' = KeyOf(i, s.sorts)
<1>1. \A c : Value(i, c)' = Value(i, c)
  BY DEF Value
<1>2. (i \in Stored)' <=> i \in Stored
  BY DEF Stored
<1>3. (i \in Selected(s))' <=> i \in Selected(s)
  BY <1>1, <1>2 DEF Selected
<1>4. KeyOf(i, s.sorts)' = KeyOf(i, s.sorts)
  BY <1>1 DEF KeyOf
<1> QED
  BY <1>3, <1>4 DEF Keyset

LEMMA AheadStays ==
    ASSUME walk' = walk, NEW i, table'[i] = table[i], NEW q
    PROVE  Ahead(i, q)' <=> Ahead(i, q)
<1>1. \A s : (i \in Keyset(s))' <=> i \in Keyset(s)
  BY RowStays
<1>2. Spec(q)' = Spec(q)
  BY SpecStays
<1> QED
  BY <1>1, <1>2 DEF Ahead

LEMMA PrecedesStays ==
    ASSUME walk' = walk, NEW i, table'[i] = table[i], NEW j, table'[j] = table[j], NEW sorts
    PROVE  Precedes(i, j, sorts)' <=> Precedes(i, j, sorts)
<1>1. \A c : Value(i, c)' = Value(i, c) /\ Value(j, c)' = Value(j, c)
  BY DEF Value
<1> QED
  BY <1>1 DEF Precedes

LEMMA RowsStay ==
    ASSUME walk' = walk, table' = table, copies' = copies, NEW s
    PROVE  /\ RawRows(s)' = RawRows(s)
           /\ Count(s)' = Count(s)
  BY DEF RawRows, Count, OrderOf, Joined, Copies, Keyset, Selected, Stored, KeyOf, Precedes, Value

-----------------------------------------------------------------------------
(* Requests and pages                                                      *)

\* What the first requests are.
LEMMA FirstRequest ==
    ASSUME Init, NEW r, r = request
    PROVE  /\ Sent(r)
           /\ Spec(r).number = 1 /\ Spec(r).cursor \in {None, Boundary}
<1>1. r \in Requests \cup Related
  BY DEF Init
<1>2. r \in Seq(Range(r)) /\ \A p \in Range(r) : WellFormed(p)
  BY <1>1, RequestsAssumption
<1>3. Range(r) \subseteq Linkable
  BY <1>1, LinkableHas
<1>4. r \in Seq(Linkable)
  BY <1>2, <1>3, SeqMonotonic
<1>5. CASE walk = "index"
  <2>1. r \in Requests
    BY <1>5 DEF Init
  <2>2. Spec(r) = ParseQuery(r)
    BY <1>5 DEF Spec
  <2>3. Spec(r).error = None /\ Spec(r).number = 1 /\ Spec(r).cursor \in {None, Boundary}
    BY <2>1, <2>2, RequestsAssumption
  <2> QED
    BY <1>2, <1>4, <2>3 DEF Sent, Proper
<1>6. CASE walk # "index"
  <2>1. r \in Related
    BY <1>6 DEF Init
  <2>2. Spec(r) = ParsePage(r)
    BY <1>6 DEF Spec
  <2>3. Spec(r).error = None /\ Spec(r).number = 1
    BY <2>1, <2>2, RequestsAssumption
  <2>4. Sent(r)
    BY <1>2, <1>4, <2>3 DEF Sent, Proper
  <2>5. Spec(r).cursor = None
    BY <1>6, <2>4, SpecOf DEF Sent
  <2> QED
    BY <2>3, <2>4, <2>5
<1> QED
  BY <1>5, <1>6

LEMMA CountTyped ==
    ASSUME RowsTyped, NEW s
    PROVE  Count(s) \in 0 .. MaxOffset
<1> DEFINE K == Selected(s)
<1>1. K \in SUBSET Ids
  BY DEF Selected, Stored
<1>2. Count(s) = Cardinality(Joined(K))
  BY DEF Count
<1> HIDE DEF K
<1>3. MaxOffset \in Nat
  BY PolicyAssumption
<1> QED
  BY <1>1, <1>2, <1>3, JoinedFinite

\* A page as Answer makes it.
LEMMA AnswerLeads ==
    ASSUME RowsTyped, NEW r, Sent(r), NEW count, count = None \/ count \in 0 .. MaxOffset,
           NEW p, p = Answer(r, Spec(r), count)
    PROVE  /\ PageLeads(r, p)
           /\ p # None /\ p.ids \in Seq(Ids)
<1> DEFINE s == Spec(r)
           on == OnwardOf(r, p.links)
<1>1. Proper(r) /\ r \in Seq(Linkable) /\ s.error = None
  BY DEF Sent
<1>2. /\ p \in Pages /\ p # None /\ LinksLead(r, p.links)
      /\ s.cursor = None =>
            /\ on # None => Spec(on).number = s.number + 1
            /\ p.links.last # None /\ p.links.next = None => Spec(p.links.last).number <= s.number
      /\ s.cursor # None /\ on # None => Minted(Spec(on).cursor, s) /\ Spec(on).before = s.before
  <2> HIDE DEF s
  <2> QED
    BY <1>1, Answered DEF s
<1>3. on # None => Leads(on, r)
  BY <1>2 DEF LinksLead, OnwardOf, LinkFields
<1>4. s.cursor = None /\ on # None => ~ Spec(on).before
  <2> SUFFICES ASSUME s.cursor = None, on # None PROVE ~ Spec(on).before
    OBVIOUS
  <2>1. Proper(on) /\ Spec(on).error = None /\ Spec(on).cursor = None
    BY <1>3 DEF Leads, SameAsk
  <2> HIDE DEF on
  <2>2. SpecTyped(Spec(on))
    BY <2>1, SpecOf
  <2> QED
    BY <2>1, <2>2 DEF SpecTyped
<1>5. p.ids \in Seq(Ids)
  BY <1>2 DEF Pages
<1> HIDE DEF s, on
<1> QED
  BY <1>2, <1>4, <1>5 DEF PageLeads, s, on

LEMMA LinkSent ==
    ASSUME NEW r, NEW links, LinksLead(r, links), NEW field \in LinkFields, links[field] # None
    PROVE  Sent(links[field])
  BY DEF LinksLead, Leads, Sent, SameAsk

LEMMA OnwardSent ==
    ASSUME NEW r, NEW p, PageLeads(r, p), OnwardOf(r, p.links) # None
    PROVE  Sent(OnwardOf(r, p.links)) /\ Leads(OnwardOf(r, p.links), r)
<1>1. LinksLead(r, p.links)
  BY DEF PageLeads
<1> QED
  BY <1>1, LinkSent DEF OnwardOf, LinkFields, LinksLead

LEMMA TypedInit == Init => WalkTyped
<1> SUFFICES ASSUME Init PROVE WalkTyped
  OBVIOUS
<1>1. RowsTyped
  BY RowsAssumption DEF Init, RowsTyped
<1>2. \A r \in {request} : Sent(r)
  BY FirstRequest
<1>3. walked \in Seq(Ids) /\ stable \subseteq Ids
  <2>1. \A s : Selected(s) \subseteq Ids
    BY DEF Selected, Stored
  <2> QED
    BY <2>1 DEF Init
<1> QED
  BY <1>1, <1>2, <1>3 DEF Init, WalkTyped

LEMMA TypedNext == WalkTyped /\ [Next]_vars => WalkTyped'
<1> SUFFICES ASSUME WalkTyped, [Next]_vars PROVE WalkTyped'
  OBVIOUS
<1>1. PICK r, p : r = request /\ p = page
  OBVIOUS
<1>2. /\ RowsTyped /\ (total = None \/ total \in 0 .. MaxOffset)
      /\ walked \in Seq(Ids) /\ stable \subseteq Ids /\ writes \in Nat
      /\ Sent(r) /\ (p # None => PageLeads(r, p))
  BY <1>1 DEF WalkTyped
<1>3. walk' = walk
  BY DEF Next, vars, CountRows, ReadPage, Follow, Write
<1>4. Sent(r)' /\ (p # None => PageLeads(r, p)')
  BY <1>2, <1>3, SpecStays, PageStays
<1>5. CASE CountRows
  <2>1. RowsTyped' /\ walked' = walked /\ stable' = stable /\ writes' = writes /\ request' = r /\ page' = p
    BY <1>1, <1>2, <1>5 DEF CountRows, RowsTyped
  <2>2. total' \in 0 .. MaxOffset
    BY <1>2, <1>5, CountTyped DEF CountRows
  <2> QED
    BY <1>2, <1>4, <2>1, <2>2 DEF WalkTyped
<1>6. CASE ReadPage
  <2>1. PICK a : a = Answer(r, Spec(r), total) /\ page' = a /\ walked' = walked \o a.ids
    BY <1>1, <1>6 DEF ReadPage
  <2>2. RowsTyped' /\ total' = total /\ stable' = stable /\ writes' = writes /\ request' = r
    BY <1>1, <1>2, <1>6 DEF ReadPage, RowsTyped
  <2>3. PageLeads(r, a) /\ a.ids \in Seq(Ids)
    BY <1>2, <2>1, AnswerLeads
  <2>4. PageLeads(r, a)'
    BY <1>3, <2>3, PageStays
  <2>5. walked' \in Seq(Ids)
    BY <1>2, <2>1, <2>3, ConcatProperties
  <2> QED
    BY <1>2, <1>4, <2>1, <2>2, <2>4, <2>5 DEF WalkTyped
<1>7. CASE Follow
  <2>1. PICK q : q = OnwardOf(r, p.links) /\ q # None /\ request' = q /\ p # None
    BY <1>1, <1>7 DEF Follow, Onward, OnwardOf
  <2>2. RowsTyped' /\ total' = None /\ page' = None /\ walked' = walked /\ stable' = stable /\ writes' = writes
    BY <1>2, <1>7 DEF Follow, RowsTyped
  <2>3. Sent(q)
    BY <1>2, <2>1, OnwardSent
  <2>4. Sent(q)'
    BY <1>3, <2>3, SpecStays
  <2> QED
    BY <1>2, <2>1, <2>2, <2>4 DEF WalkTyped
<1>8. ASSUME NEW i \in Ids, Write(i) PROVE WalkTyped'
  <2>1. request' = r /\ page' = p /\ total' = total /\ walked' = walked /\ stable' \subseteq stable /\ writes' \in Nat
    BY <1>1, <1>2, <1>8 DEF Write
  <2>2. RowsTyped'
    BY <1>2, <1>8 DEF Write, RowsTyped
  <2> QED
    BY <1>2, <1>4, <2>1, <2>2 DEF WalkTyped
<1>9. CASE UNCHANGED vars
  <2>1. /\ request' = r /\ page' = p /\ total' = total /\ walked' = walked /\ stable' = stable /\ writes' = writes
        /\ table' = table /\ copies' = copies /\ walk' = walk
    BY <1>1, <1>9 DEF vars
  <2>2. RowsTyped'
    BY <1>2, <2>1 DEF RowsTyped
  <2> QED
    BY <1>2, <1>4, <2>1, <2>2 DEF WalkTyped
<1> QED
  BY <1>5, <1>6, <1>7, <1>8, <1>9 DEF Next

THEOREM WalksAreTyped == Walk => []WalkTyped
  BY TypedInit, TypedNext, PTL DEF Walk

\* Every link of every page, read at whatever moment among the writes, is one
\* the program accepts, for the same selection, order, inclusion, page size and
\* totals; and no page is the last one while its last link points further on.
THEOREM LinksLeadOn == Walk => []LinksConsistent
<1>1. WalkTyped => LinksConsistent
  <2> SUFFICES ASSUME WalkTyped, page # None PROVE LinksConsistent
    BY DEF LinksConsistent, LinksAccepted, NextAgreesWithLast
  <2> DEFINE s == Spec(request)
             kept(other) == [k \in {"filters", "sorts", "includes", "size", "totals"} |-> other[k]]
  <2>1. PageLeads(request, page)
    BY DEF WalkTyped
  <2>2. LinksLead(request, page.links) /\ DOMAIN page.links = LinkFields
    BY <2>1 DEF PageLeads, LinksLead
  <2>3. ASSUME NEW l \in DOMAIN page.links, page.links[l] # None, NEW next, next = Spec(page.links[l])
        PROVE  next.error = None /\ kept(next) = kept(s) /\ (next.cursor = None) = (s.cursor = None)
    <3>1. Leads(page.links[l], request)
      BY <2>2, <2>3 DEF LinksLead
    <3>2. SameAsk(next, s) /\ (next.cursor = None) = (s.cursor = None)
      BY <2>3, <3>1 DEF Leads
    <3> HIDE DEF s
    <3> QED
      BY <3>2 DEF SameAsk
  <2>4. LinksAccepted
    BY <2>3 DEF LinksAccepted
  <2>5. NextAgreesWithLast
    BY <2>1 DEF PageLeads, NextAgreesWithLast, CursorWalk
  <2> QED
    BY <2>4, <2>5 DEF LinksConsistent
<1> QED
  BY <1>1, WalksAreTyped, PTL

\* Keys in order, as the walk compares them.
LEMMA LaterIs ==
    ASSUME NEW sorts \in Seq(SortTerms), NEW a \in Seq(Int), NEW b \in Seq(Int),
           Len(a) = Len(sorts), Len(b) = Len(sorts), Lex(a, b, sorts)
    PROVE  Later(b, a, sorts)
<1>1. PICK k \in DOMAIN sorts : /\ \A n \in 1 .. k - 1 : a[n] = b[n]
                                /\ IF sorts[k].desc THEN a[k] > b[k] ELSE a[k] < b[k]
  BY DEF Lex
<1> DEFINE N == Len(sorts)
<1>2. N \in Nat /\ DOMAIN sorts = 1 .. N /\ DOMAIN a = 1 .. N /\ DOMAIN b = 1 .. N
  BY LenProperties
<1> HIDE DEF N
<1>3. k \in 1 .. N /\ a[k] \in Int /\ b[k] \in Int
  BY <1>2, ElementOfSeq
<1>4. SubSeq(a, 1, k - 1) = [n \in 1 .. k - 1 |-> a[n]] /\ SubSeq(b, 1, k - 1) = [n \in 1 .. k - 1 |-> b[n]]
  <2>1. k - 1 - 1 + 1 = k - 1 /\ \A n \in 1 .. k - 1 : 1 + n - 1 = n
    BY <1>3
  <2> QED
    BY <2>1, <1>3
<1>5. SubSeq(b, 1, k - 1) = SubSeq(a, 1, k - 1)
  BY <1>1, <1>4
<1>6. IF sorts[k].desc THEN b[k] < a[k] ELSE b[k] > a[k]
  BY <1>1, <1>3
<1> QED
  BY <1>5, <1>6 DEF Later

\* Each cursor that is followed is later than the one before it, in the order of
\* the walk: no sequence of writes leads a client around in circles.
THEOREM NoCircles == Walk => CursorAdvances
<1>1. WalkTyped /\ [Next]_vars =>
        [Follow /\ Positioned(Spec(request)) =>
            Later(Spec(request').cursor.v, Spec(request).cursor.v, KeysetSorts(Spec(request)))]_vars
  <2> SUFFICES ASSUME WalkTyped, Follow, Positioned(Spec(request))
               PROVE  Later(Spec(request').cursor.v, Spec(request).cursor.v, KeysetSorts(Spec(request)))
    OBVIOUS
  <2>1. PICK r, p, q : r = request /\ p = page /\ q = request'
    OBVIOUS
  <2>2. PICK s, t : s = Spec(r) /\ t = Spec(q)
    OBVIOUS
  <2>3. q = OnwardOf(r, p.links) /\ q # None /\ p # None
    BY <2>1 DEF Follow, Onward, OnwardOf
  <2>4. Sent(r) /\ PageLeads(r, p)
    BY <2>1, <2>3 DEF WalkTyped
  <2>5. Leads(q, r)
    BY <2>3, <2>4, OnwardSent
  <2>6. SpecTyped(s) /\ Positioned(s)
    BY <2>1, <2>2, <2>4, SpecOf DEF Sent
  <2>7. s.cursor # None
    BY <2>6 DEF Positioned
  <2>8. Minted(t.cursor, s)
    BY <2>2, <2>3, <2>4, <2>7 DEF PageLeads
  <2>9. t.cursor # None
    BY <2>2, <2>5, <2>7 DEF Leads
  <2>10. /\ t.cursor \in Cursors /\ CursorAccepted(t.cursor, s.sorts) /\ t.cursor # Boundary
         /\ Lex(s.cursor.v, t.cursor.v, KeysetSorts(s))
    BY <2>6, <2>8, <2>9 DEF Minted
  <2>11. /\ s.cursor \in Cursors /\ CursorAccepted(s.cursor, s.sorts) /\ s.cursor # Boundary
         /\ s.sorts \in Seq(SortTerms) /\ s.before \in BOOLEAN
    BY <2>6, <2>7 DEF SpecTyped, Identifying, Positioned
  <2>12. /\ s.cursor.v \in Seq(Int) /\ t.cursor.v \in Seq(Int)
         /\ Len(s.cursor.v) = Len(s.sorts) /\ Len(t.cursor.v) = Len(s.sorts)
    BY <2>10, <2>11 DEF Cursors, CursorAccepted
  <2>13. KeysetSorts(s) \in Seq(SortTerms) /\ Len(KeysetSorts(s)) = Len(s.sorts)
    <3>1. KeysetSorts(s) \in Seq(SortTerms) /\ DOMAIN KeysetSorts(s) = DOMAIN s.sorts
      BY <2>11, Inverted
    <3> QED
      BY <2>11, <3>1, LenProperties
  <2>14. Later(t.cursor.v, s.cursor.v, KeysetSorts(s))
    BY <2>10, <2>12, <2>13, LaterIs
  <2> QED
    BY <2>1, <2>2, <2>14
<1> QED
  BY <1>1, WalksAreTyped, PTL DEF Walk, CursorAdvances

-----------------------------------------------------------------------------
(* Walks by cursor                                                         *)

\* The rows after a cursor, and the rows after the last one of its page.
LEMMA Remaining ==
    ASSUME RowsTyped, walk = "index",
           NEW s, SpecTyped(s), s.cursor # None,
           NEW t, SpecTyped(t), t.sorts = s.sorts, t.before = s.before, t.filters = s.filters,
           NEW l \in Keyset(s), t.cursor = CursorAt(l, s),
           NEW i \in Selected(s)
    PROVE  i \in Keyset(t) <=> i \in Keyset(s) /\ Precedes(l, i, KeysetSorts(s))
<1> DEFINE sorts == s.sorts
           ks == KeysetSorts(s)
<1>1. sorts \in Seq(SortTerms) /\ ks \in Seq(SortTerms) /\ DOMAIN ks = DOMAIN sorts
  BY Inverted DEF SpecTyped, Identifying
<1>2. \A k \in DOMAIN sorts : ks[k].name = sorts[k].name
  BY Inverted DEF SpecTyped, Identifying
<1>3. KeysetSorts(t) = ks
  BY DEF KeysetSorts
<1>4. Selected(t) = Selected(s)
  BY DEF Selected
<1>5. l \in Stored /\ i \in Stored /\ (Positioned(s) => Lex(s.cursor.v, KeyOf(l, sorts), ks))
  BY KeysetIs
<1>6. t.cursor = [s |-> sorts, v |-> KeyOf(l, sorts)]
  BY MintedAt
<1>7. Positioned(t)
  <2>1. Minted(t.cursor, s) /\ t.cursor # None
    BY MintedAt
  <2> QED
    BY <2>1 DEF Minted, Positioned
<1>8. i \in Keyset(t) <=> Lex(KeyOf(l, sorts), KeyOf(i, sorts), ks)
  <2>1. t.cursor.v = KeyOf(l, sorts)
    BY <1>6
  <2>2. i \in Keyset(t) <=> /\ i \in Selected(t)
                            /\ Positioned(t) => Lex(t.cursor.v, KeyOf(i, t.sorts), KeysetSorts(t))
    BY KeysetIs
  <2> QED
    BY <1>3, <1>4, <1>7, <2>1, <2>2
<1>9. \A j : KeyOf(j, ks) = KeyOf(j, sorts)
  BY <1>1, <1>2 DEF KeyOf
<1>10. Precedes(l, i, ks) <=> Lex(KeyOf(l, sorts), KeyOf(i, sorts), ks)
  BY <1>1, <1>9, PrecedesLex
<1>11. Lex(KeyOf(l, sorts), KeyOf(i, sorts), ks) => i \in Keyset(s)
  <2> SUFFICES ASSUME Lex(KeyOf(l, sorts), KeyOf(i, sorts), ks), Positioned(s)
               PROVE  Lex(s.cursor.v, KeyOf(i, sorts), ks)
    BY KeysetIs
  <2>1. s.cursor.v \in Keys(sorts)
    BY PositionTyped
  <2>2. KeyOf(l, sorts) \in Keys(sorts) /\ KeyOf(i, sorts) \in Keys(sorts)
    BY <1>1, <1>5, KeyTyped
  <2>3. Keys(ks) = Keys(sorts)
    BY <1>1 DEF Keys
  <2> HIDE DEF ks, sorts
  <2> QED
    BY <1>1, <1>5, <2>1, <2>2, <2>3, LexTransitive
<1> QED
  BY <1>8, <1>10, <1>11

LEMMA Joining ==
    ASSUME NEW T, NEW w \in Seq(T), NEW ids \in Seq(T)
    PROVE  /\ DOMAIN (w \o ids) = 1 .. Len(w) + Len(ids)
           /\ \A n \in DOMAIN w : n \in DOMAIN (w \o ids) /\ (w \o ids)[n] = w[n]
           /\ \A n \in DOMAIN ids : Len(w) + n \in DOMAIN (w \o ids) /\ (w \o ids)[Len(w) + n] = ids[n]
<1> DEFINE L == Len(w)
           N == Len(ids)
<1>1. L \in Nat /\ N \in Nat /\ DOMAIN w = 1 .. L /\ DOMAIN ids = 1 .. N
  BY LenProperties
<1>2. /\ w \o ids \in Seq(T) /\ Len(w \o ids) = L + N
      /\ \A k \in 1 .. L + N : (w \o ids)[k] = IF k <= L THEN w[k] ELSE ids[k - L]
  BY ConcatProperties
<1>3. DOMAIN (w \o ids) = 1 .. L + N
  BY <1>2, LenProperties
<1> HIDE DEF L, N
<1>4. \A n \in 1 .. L : n \in 1 .. L + N /\ n <= L
  BY <1>1
<1>5. \A n \in 1 .. N : L + n \in 1 .. L + N /\ ~ (L + n <= L)
  BY <1>1
<1>6. \A n \in 1 .. L : (w \o ids)[n] = w[n]
  BY <1>2, <1>4
<1>7. \A n \in 1 .. N : (w \o ids)[L + n] = ids[n]
  <2> TAKE n \in 1 .. N
  <2>1. PICK k : k = L + n
    OBVIOUS
  <2>2. k \in 1 .. L + N /\ ~ (k <= L)
    BY <1>5, <2>1
  <2>3. k - L = n
    BY <1>1, <2>1
  <2>4. (w \o ids)[k] = ids[k - L]
    BY <1>2, <2>2
  <2> QED
    BY <2>1, <2>3, <2>4
<1> QED
  BY <1>1, <1>3, <1>4, <1>5, <1>6, <1>7 DEF L, N

\* The positions of an entry.
At(w, i) == {n \in DOMAIN w : w[n] = i}

LEMMA ShownMore ==
    ASSUME NEW w \in Seq(Ids), NEW ids \in Seq(Ids), NEW i
    PROVE  /\ IsFiniteSet(At(w, i)) /\ Cardinality(At(w, i)) \in Nat
           /\ (\A m \in DOMAIN ids : ids[m] # i) => At(w \o ids, i) = At(w, i)
           /\ \A m \in DOMAIN ids : ids[m] = i /\ (\A n \in DOMAIN ids : ids[n] = i => n = m)
                => Cardinality(At(w \o ids, i)) = Cardinality(At(w, i)) + 1
<1> DEFINE L == Len(w)
           N == Len(ids)
<1>1. L \in Nat /\ N \in Nat /\ DOMAIN w = 1 .. L /\ DOMAIN ids = 1 .. N
  BY LenProperties
<1>2. /\ DOMAIN (w \o ids) = 1 .. L + N
      /\ \A n \in 1 .. L : (w \o ids)[n] = w[n]
      /\ \A n \in 1 .. N : (w \o ids)[L + n] = ids[n]
  BY <1>1, Joining
<1> HIDE DEF L, N
<1>3. \A n : n \in 1 .. L + N <=> n \in 1 .. L \/ \E m \in 1 .. N : n = L + m
  <2>1. \A n \in 1 .. L + N : n \notin 1 .. L => n - L \in 1 .. N /\ n = L + (n - L)
    BY <1>1
  <2>2. \A n \in 1 .. L : n \in 1 .. L + N
    BY <1>1
  <2>3. \A m \in 1 .. N : L + m \in 1 .. L + N
    BY <1>1
  <2> QED
    BY <2>1, <2>2, <2>3
<1>4. \A n : n \in At(w \o ids, i) <=> n \in At(w, i) \/ \E m \in 1 .. N : n = L + m /\ ids[m] = i
  BY <1>1, <1>2, <1>3 DEF At
<1>5. IsFiniteSet(At(w, i)) /\ Cardinality(At(w, i)) \in Nat
  <2>1. At(w, i) \subseteq 1 .. L
    BY <1>1 DEF At
  <2>2. IsFiniteSet(1 .. L)
    BY <1>1, FS_Interval
  <2> QED
    BY <2>1, <2>2, FS_Subset, FS_CardinalityType
<1>6. ASSUME \A m \in DOMAIN ids : ids[m] # i PROVE At(w \o ids, i) = At(w, i)
  BY <1>1, <1>4, <1>6
<1>7. ASSUME NEW m \in DOMAIN ids, ids[m] = i, \A n \in DOMAIN ids : ids[n] = i => n = m
      PROVE  Cardinality(At(w \o ids, i)) = Cardinality(At(w, i)) + 1
  <2>1. At(w \o ids, i) = At(w, i) \cup {L + m}
    BY <1>1, <1>4, <1>7
  <2>2. L + m \notin At(w, i)
    BY <1>1, <1>7 DEF At
  <2> QED
    BY <1>5, <2>1, <2>2, FS_AddElement
<1> QED
  BY <1>5, <1>6, <1>7

\* One page: the rows of it are shown once, those after it are still to come.
LEMMA PageShown ==
    ASSUME RowsTyped, NEW r, Sent(r), NEW s, s = Spec(r), s.cursor # None,
           NEW count, count = None \/ count \in 0 .. MaxOffset,
           NEW p, p = Answer(r, s, count), NEW next, next = Coming(r, p),
           NEW i \in Selected(s)
    PROVE  /\ i \notin Keyset(s) => ~ Ahead(i, next) /\ \A m \in DOMAIN p.ids : p.ids[m] # i
           /\ i \in Keyset(s) /\ Ahead(i, next) => \A m \in DOMAIN p.ids : p.ids[m] # i
           /\ i \in Keyset(s) /\ ~ Ahead(i, next) =>
                \E m \in DOMAIN p.ids : p.ids[m] = i /\ \A n \in DOMAIN p.ids : p.ids[n] = i => n = m
<1> DEFINE M == Models(s)
           more == Len(Window(s)) > s.size
           ks == KeysetSorts(s)
           on == OnwardOf(r, p.links)
<1>1. Proper(r) /\ r \in Seq(Linkable) /\ Spec(r).error = None
  BY DEF Sent
<1>2. SpecTyped(s) /\ walk = "index"
  BY <1>1, SpecOf
<1>3. /\ p # None /\ LinksLead(r, p.links)
      /\ p.ids = (IF s.before THEN Reverse(M) ELSE M)
      /\ on = None <=> ~ more
      /\ on # None => /\ Len(M) \in DOMAIN M
                      /\ Spec(on).cursor = CursorAt(M[Len(M)], s)
                      /\ Spec(on).before = s.before
  BY <1>1, <1>2, Answered
<1>4. next = on
  BY <1>3 DEF Coming
<1> HIDE DEF on
<1>5. on # None => Leads(on, r)
  BY <1>3 DEF LinksLead, OnwardOf, LinkFields, on
<1>6. /\ Keyset(s) \in SUBSET Stored
      /\ M \in Seq(Keyset(s)) /\ DOMAIN M = 1 .. Len(M) /\ Len(M) \in Nat
      /\ \A m, n \in DOMAIN M : m < n => Precedes(M[m], M[n], ks)
      /\ \A j \in Keyset(s) : (\A k \in DOMAIN M : M[k] # j) =>
            /\ more
            /\ \A k \in DOMAIN M : Precedes(M[k], j, ks)
  BY <1>2, CursorPage
<1>7. /\ DOMAIN p.ids = DOMAIN M
      /\ \E turn \in [DOMAIN M -> DOMAIN M] :
            /\ \A m \in DOMAIN M : p.ids[m] = M[turn[m]] /\ turn[turn[m]] = m
  <2>1. CASE ~ s.before
    <3>1. p.ids = M
      BY <1>3, <2>1
    <3> DEFINE turn == [m \in DOMAIN M |-> m]
    <3>2. turn \in [DOMAIN M -> DOMAIN M] /\ \A m \in DOMAIN M : p.ids[m] = M[turn[m]] /\ turn[turn[m]] = m
      BY <3>1
    <3> QED
      BY <3>1, <3>2
  <2>2. CASE s.before
    <3> DEFINE L == Len(M)
    <3>1. /\ p.ids = Reverse(M) /\ DOMAIN Reverse(M) = DOMAIN M
          /\ \A n \in DOMAIN M : Reverse(M)[n] = M[L - n + 1] /\ L - n + 1 \in DOMAIN M
      <4> HIDE DEF M
      <4> QED
        BY <1>3, <1>6, <2>2, Reversed
    <3> HIDE DEF L, M
    <3> DEFINE turn == [m \in DOMAIN M |-> L - m + 1]
    <3>2. L \in Nat /\ DOMAIN M = 1 .. L
      BY <1>6 DEF L
    <3>3. \A m \in DOMAIN M : L - (L - m + 1) + 1 = m
      BY <3>2
    <3>4. turn \in [DOMAIN M -> DOMAIN M] /\ \A m \in DOMAIN M : p.ids[m] = M[turn[m]] /\ turn[turn[m]] = m
      BY <3>1, <3>3
    <3> QED
      BY <3>1, <3>4
  <2> QED
    BY <2>1, <2>2
<1>8. PICK turn \in [DOMAIN M -> DOMAIN M] : \A m \in DOMAIN M : p.ids[m] = M[turn[m]] /\ turn[turn[m]] = m
  BY <1>7
<1>9. \A k \in DOMAIN M : M[k] \in Keyset(s)
  BY <1>6, ElementOfSeq
<1> HIDE DEF M, more, ks
<1>10. \A j : (\A m \in DOMAIN p.ids : p.ids[m] # j) <=> (\A k \in DOMAIN M : M[k] # j)
  BY <1>7, <1>8
<1>11. /\ \A j, k \in DOMAIN M : M[j] = M[k] => j = k
       /\ \A j, k \in DOMAIN M : ~ (Precedes(M[j], M[k], ks) /\ Precedes(M[k], M[j], ks))
       /\ \A k \in DOMAIN M : ~ Precedes(M[k], M[k], ks)
  <2>1. Identifying(ks)
    BY <1>2, OrderIdentifies DEF ks
  <2>2. \A k \in DOMAIN M : M[k] \in Stored
    BY <1>6, <1>9
  <2>3. \A j, k \in DOMAIN M : ~ (Precedes(M[j], M[k], ks) /\ Precedes(M[k], M[j], ks))
    BY <2>1, <2>2, RowOrder
  <2>4. \A k \in DOMAIN M : ~ Precedes(M[k], M[k], ks)
    BY <2>1, <2>2, RowOrder
  <2>5. \A j, k \in DOMAIN M : j = k \/ j < k \/ k < j
    BY <1>6
  <2> QED
    BY <1>6, <2>3, <2>4, <2>5
<1>12. on # None => (i \in Keyset(Spec(on)) <=> i \in Keyset(s) /\ Precedes(M[Len(M)], i, ks))
  <2> SUFFICES ASSUME on # None
               PROVE  i \in Keyset(Spec(on)) <=> i \in Keyset(s) /\ Precedes(M[Len(M)], i, ks)
    OBVIOUS
  <2> DEFINE t == Spec(on)
  <2>1. Proper(on) /\ t.error = None /\ t.sorts = s.sorts /\ t.filters = s.filters
    BY <1>5 DEF Leads, SameAsk
  <2>2. SpecTyped(t)
    BY <2>1, SpecOf
  <2>3. t.before = s.before /\ t.cursor = CursorAt(M[Len(M)], s) /\ M[Len(M)] \in Keyset(s)
    BY <1>3, <1>9
  <2> HIDE DEF t
  <2>4. i \in Keyset(t) <=> i \in Keyset(s) /\ Precedes(M[Len(M)], i, KeysetSorts(s))
    BY <1>2, <2>1, <2>2, <2>3, Remaining
  <2> QED
    BY <2>4 DEF t, ks
<1>13. Ahead(i, next) <=> on # None /\ i \in Keyset(Spec(on))
  BY <1>4 DEF Ahead
<1>14. ASSUME i \notin Keyset(s) PROVE ~ Ahead(i, next) /\ \A m \in DOMAIN p.ids : p.ids[m] # i
  BY <1>9, <1>10, <1>12, <1>13, <1>14
<1>15. ASSUME i \in Keyset(s), Ahead(i, next) PROVE \A m \in DOMAIN p.ids : p.ids[m] # i
  <2>1. Len(M) \in DOMAIN M /\ Precedes(M[Len(M)], i, ks)
    BY <1>3, <1>12, <1>13, <1>15
  <2>2. ASSUME NEW k \in DOMAIN M, M[k] = i PROVE FALSE
    <3>1. k = Len(M) \/ k < Len(M)
      BY <1>6
    <3> QED
      BY <1>6, <1>11, <2>1, <2>2, <3>1
  <2> QED
    BY <1>10, <2>2
<1>16. ASSUME i \in Keyset(s), ~ Ahead(i, next)
       PROVE  \E m \in DOMAIN p.ids : p.ids[m] = i /\ \A n \in DOMAIN p.ids : p.ids[n] = i => n = m
  <2>1. \E k \in DOMAIN M : M[k] = i
    BY <1>3, <1>6, <1>12, <1>13, <1>16
  <2>2. PICK k \in DOMAIN M : M[k] = i
    BY <2>1
  <2>3. turn[k] \in DOMAIN p.ids /\ p.ids[turn[k]] = i
    BY <1>7, <1>8, <2>2
  <2>4. ASSUME NEW n \in DOMAIN p.ids, p.ids[n] = i PROVE n = turn[k]
    <3>1. n \in DOMAIN M /\ turn[n] \in DOMAIN M /\ M[turn[n]] = M[k] /\ turn[turn[n]] = n
      BY <1>7, <1>8, <2>2, <2>4
    <3> QED
      BY <1>11, <2>2, <3>1
  <2> QED
    BY <2>3, <2>4
<1> QED
  BY <1>14, <1>15, <1>16

LEMMA TimesAre ==
    ASSUME NEW i
    PROVE  TimesWalked(i) = Cardinality(At(walked, i)) /\ TimesWalked(i)' = Cardinality(At(walked', i))
  BY DEF TimesWalked, At

LEMMA StableInit == Init => StableWalked
<1> SUFFICES ASSUME Init PROVE StableWalked
  OBVIOUS
<1>1. PICK r, s : r = request /\ s = Spec(r)
  OBVIOUS
<1>2. s.cursor \in {None, Boundary}
  BY <1>1, FirstRequest
<1>3. stable = Selected(s) /\ page = None /\ walked = <<>>
  BY <1>1 DEF Init
<1>4. Keyset(s) = Selected(s)
  BY <1>2 DEF Keyset, Positioned
<1>5. r # None
  <2>1. r \in Seq(Linkable)
    BY <1>1, FirstRequest DEF Sent
  <2> QED
    BY <2>1, NoneAssumption
<1>6. \A i \in stable : Ahead(i, r)
  BY <1>1, <1>3, <1>4, <1>5 DEF Ahead
<1>7. \A i : TimesWalked(i) = 0
  <2> TAKE i
  <2>1. At(walked, i) = {}
    BY <1>3 DEF At
  <2> QED
    BY <2>1, TimesAre, FS_EmptySet
<1>8. Coming(r, page) = r
  BY <1>3 DEF Coming
<1> QED
  BY <1>1, <1>3, <1>6, <1>7, <1>8 DEF StableWalked

LEMMA StableNext == WalkTyped /\ StableWalked /\ [Next]_vars => StableWalked'
<1> SUFFICES ASSUME WalkTyped, StableWalked, [Next]_vars PROVE StableWalked'
  OBVIOUS
<1>1. PICK r, p : r = request /\ p = page
  OBVIOUS
<1>2. PICK s, next : s = Spec(r) /\ next = Coming(r, p)
  OBVIOUS
<1>3. /\ RowsTyped /\ (total = None \/ total \in 0 .. MaxOffset)
      /\ walked \in Seq(Ids) /\ stable \subseteq Ids
      /\ Sent(r) /\ (p # None => PageLeads(r, p))
  BY <1>1 DEF WalkTyped
<1>4. ASSUME NEW i \in stable
      PROVE  /\ i \in Selected(s)
             /\ s.cursor # None => Cardinality(At(walked, i)) = (IF Ahead(i, next) THEN 0 ELSE 1)
  BY <1>1, <1>2, TimesAre DEF StableWalked
<1>5. walk' = walk
  BY DEF Next, vars, CountRows, ReadPage, Follow, Write
<1>6. Spec(r)' = s /\ Coming(r, p)' = next
  BY <1>2, <1>5, SpecStays, ComingStays
<1>7. ASSUME request' = r, page' = p, walked' = walked, stable' \subseteq stable,
             \A i \in stable' : table'[i] = table[i]
      PROVE  StableWalked'
  <2>1. ASSUME NEW i \in stable'
        PROVE  /\ (i \in Selected(s))'
               /\ s.cursor # None => TimesWalked(i)' = (IF Ahead(i, next)' THEN 0 ELSE 1)
    <3>1. table'[i] = table[i] /\ i \in stable
      BY <1>7, <2>1
    <3>2. ((i \in Selected(s))' <=> i \in Selected(s)) /\ (Ahead(i, next)' <=> Ahead(i, next))
      BY <1>5, <3>1, RowStays, AheadStays
    <3>3. TimesWalked(i)' = Cardinality(At(walked, i))
      BY <1>7, TimesAre
    <3> QED
      BY <1>4, <3>1, <3>2, <3>3
  <2> QED
    BY <1>6, <1>7, <2>1 DEF StableWalked
<1>8. CASE CountRows
  BY <1>1, <1>7, <1>8 DEF CountRows
<1>9. CASE ReadPage
  <2>1. PICK a : a = Answer(r, s, total) /\ page' = a /\ walked' = walked \o a.ids
    BY <1>1, <1>2, <1>9 DEF ReadPage
  <2>2. PICK on : on = Coming(r, a)
    OBVIOUS
  <2>3. request' = r /\ stable' = stable /\ table' = table /\ p = None
    BY <1>1, <1>9 DEF ReadPage
  <2>4. Coming(r, a)' = on
    BY <1>5, <2>2, ComingStays
  <2>5. a.ids \in Seq(Ids)
    BY <1>2, <1>3, <2>1, AnswerLeads
  <2>6. r # None /\ next = r
    <3>1. r \in Seq(Linkable)
      BY <1>3 DEF Sent
    <3> QED
      BY <1>2, <2>3, <3>1, NoneAssumption DEF Coming
  <2>7. ASSUME NEW i \in stable
        PROVE  /\ (i \in Selected(s))'
               /\ s.cursor # None => TimesWalked(i)' = (IF Ahead(i, on)' THEN 0 ELSE 1)
    <3>1. ((i \in Selected(s))' <=> i \in Selected(s)) /\ (Ahead(i, on)' <=> Ahead(i, on))
      BY <1>5, <2>3, RowStays, AheadStays
    <3>2. TimesWalked(i)' = Cardinality(At(walked \o a.ids, i))
      BY <2>1, TimesAre
    <3>3. Ahead(i, next) <=> i \in Keyset(s)
      BY <1>2, <2>6 DEF Ahead
    <3>4. ASSUME s.cursor # None
          PROVE  Cardinality(At(walked \o a.ids, i)) = (IF Ahead(i, on) THEN 0 ELSE 1)
      <4>1. i \in Selected(s) /\ Cardinality(At(walked, i)) = (IF i \in Keyset(s) THEN 0 ELSE 1)
        BY <1>4, <3>3, <3>4
      <4>2. /\ i \notin Keyset(s) => ~ Ahead(i, on) /\ \A m \in DOMAIN a.ids : a.ids[m] # i
            /\ i \in Keyset(s) /\ Ahead(i, on) => \A m \in DOMAIN a.ids : a.ids[m] # i
            /\ i \in Keyset(s) /\ ~ Ahead(i, on) =>
                 \E m \in DOMAIN a.ids : a.ids[m] = i /\ \A n \in DOMAIN a.ids : a.ids[n] = i => n = m
        BY <1>2, <1>3, <2>1, <2>2, <3>4, <4>1, PageShown
      <4>3. /\ (\A m \in DOMAIN a.ids : a.ids[m] # i) => At(walked \o a.ids, i) = At(walked, i)
            /\ \A m \in DOMAIN a.ids : a.ids[m] = i /\ (\A n \in DOMAIN a.ids : a.ids[n] = i => n = m)
                => Cardinality(At(walked \o a.ids, i)) = Cardinality(At(walked, i)) + 1
        BY <1>3, <2>5, ShownMore
      <4>4. CASE i \notin Keyset(s)
        BY <4>1, <4>2, <4>3, <4>4
      <4>5. CASE i \in Keyset(s) /\ Ahead(i, on)
        BY <4>1, <4>2, <4>3, <4>5
      <4>6. CASE i \in Keyset(s) /\ ~ Ahead(i, on)
        <5>1. PICK m \in DOMAIN a.ids : a.ids[m] = i /\ \A n \in DOMAIN a.ids : a.ids[n] = i => n = m
          BY <4>2, <4>6
        <5>2. Cardinality(At(walked \o a.ids, i)) = Cardinality(At(walked, i)) + 1
          BY <4>3, <5>1
        <5> QED
          BY <4>1, <4>6, <5>2
      <4> QED
        BY <4>4, <4>5, <4>6
    <3> QED
      BY <1>4, <3>1, <3>2, <3>4
  <2> QED
    BY <1>6, <2>1, <2>3, <2>4, <2>7 DEF StableWalked
<1>10. CASE Follow
  <2>1. PICK q : q = OnwardOf(r, p.links) /\ q # None /\ request' = q /\ p # None
    BY <1>1, <1>10 DEF Follow, Onward, OnwardOf
  <2>2. PICK t : t = Spec(q)
    OBVIOUS
  <2>3. page' = None /\ walked' = walked /\ stable' = stable /\ table' = table
    BY <1>10 DEF Follow
  <2>4. Leads(q, r) /\ next = q
    BY <1>2, <1>3, <2>1, OnwardSent DEF Coming
  <2>5. SameAsk(t, s) /\ (t.cursor = None <=> s.cursor = None)
    BY <1>2, <2>2, <2>4 DEF Leads
  <2>6. Selected(t) = Selected(s)
    BY <2>5 DEF Selected, SameAsk
  <2>7. Spec(q)' = t /\ Coming(q, None)' = next
    BY <1>5, <2>2, <2>4, SpecStays DEF Coming
  <2>8. ASSUME NEW i \in stable
        PROVE  /\ (i \in Selected(t))'
               /\ t.cursor # None => TimesWalked(i)' = (IF Ahead(i, next)' THEN 0 ELSE 1)
    <3>1. ((i \in Selected(t))' <=> i \in Selected(t)) /\ (Ahead(i, next)' <=> Ahead(i, next))
      BY <1>5, <2>3, RowStays, AheadStays
    <3>2. TimesWalked(i)' = Cardinality(At(walked, i))
      BY <2>3, TimesAre
    <3> QED
      BY <1>4, <2>5, <2>6, <3>1, <3>2
  <2> QED
    BY <2>1, <2>3, <2>7, <2>8 DEF StableWalked
<1>11. ASSUME NEW i \in Ids, Write(i) PROVE StableWalked'
  <2>1. /\ request' = r /\ page' = p /\ walked' = walked /\ stable' = stable \ {i}
        /\ \E row : table' = [table EXCEPT ![i] = row]
    BY <1>1, <1>11 DEF Write
  <2>2. \A j \in stable' : table'[j] = table[j]
    BY <1>3, <2>1 DEF RowsTyped
  <2> QED
    BY <1>7, <2>1, <2>2
<1>12. CASE UNCHANGED vars
  BY <1>1, <1>7, <1>12 DEF vars
<1> QED
  BY <1>8, <1>9, <1>10, <1>11, <1>12 DEF Next

LEMMA PageOrdered ==
    ASSUME RowsTyped, NEW r, Sent(r), NEW s, s = Spec(r), s.cursor # None,
           NEW count, count = None \/ count \in 0 .. MaxOffset,
           NEW p, p = Answer(r, s, count),
           NEW m \in DOMAIN p.ids, NEW n \in DOMAIN p.ids, m < n
    PROVE  Precedes(p.ids[m], p.ids[n], s.sorts)
<1> DEFINE M == Models(s)
           L == Len(M)
           ks == KeysetSorts(s)
           sorts == s.sorts
<1>1. Proper(r) /\ r \in Seq(Linkable) /\ Spec(r).error = None
  BY DEF Sent
<1>2. SpecTyped(s) /\ walk = "index"
  BY <1>1, SpecOf
<1>3. p.ids = (IF s.before THEN Reverse(M) ELSE M)
  BY <1>1, <1>2, Answered
<1>4. /\ Keyset(s) \in SUBSET Stored
      /\ M \in Seq(Keyset(s)) /\ DOMAIN M = 1 .. L /\ L \in Nat
      /\ \A j, k \in DOMAIN M : j < k => Precedes(M[j], M[k], ks)
  BY <1>2, CursorPage
<1>5. /\ sorts \in Seq(SortTerms) /\ s.before \in BOOLEAN
      /\ ks \in Seq(SortTerms) /\ DOMAIN ks = DOMAIN sorts
      /\ \A k \in DOMAIN sorts : ks[k].name = sorts[k].name
      /\ ~ s.before => ks = sorts
      /\ s.before => \A a, b \in Keys(sorts) : Lex(a, b, ks) <=> Lex(b, a, sorts)
  BY <1>2, Inverted DEF SpecTyped, Identifying
<1>6. \A k \in DOMAIN M : M[k] \in Stored
  BY <1>4, ElementOfSeq
<1> HIDE DEF M, ks, sorts
<1>7. CASE ~ s.before
  BY <1>3, <1>4, <1>5, <1>7 DEF sorts
<1>8. CASE s.before
  <2>1. /\ p.ids = Reverse(M) /\ DOMAIN p.ids = DOMAIN M
        /\ \A k \in DOMAIN M : Reverse(M)[k] = M[L - k + 1] /\ L - k + 1 \in DOMAIN M
    BY <1>3, <1>4, <1>8, Reversed
  <2>2. PICK i, j : i = M[L - m + 1] /\ j = M[L - n + 1]
    OBVIOUS
  <2>3. /\ p.ids[m] = i /\ p.ids[n] = j /\ i \in Stored /\ j \in Stored
        /\ L - m + 1 \in DOMAIN M /\ L - n + 1 \in DOMAIN M
    BY <1>6, <2>1, <2>2
  <2>4. L - n + 1 < L - m + 1
    <3> HIDE DEF L
    <3> QED
      BY <1>4, <2>1
  <2>5. Precedes(j, i, ks)
    BY <1>4, <2>2, <2>3, <2>4
  <2>6. KeyOf(i, ks) = KeyOf(i, sorts) /\ KeyOf(j, ks) = KeyOf(j, sorts)
    BY <1>5 DEF KeyOf
  <2>7. KeyOf(i, sorts) \in Keys(sorts) /\ KeyOf(j, sorts) \in Keys(sorts)
    BY <1>5, <2>3, KeyTyped
  <2>8. Lex(KeyOf(j, ks), KeyOf(i, ks), ks)
    BY <1>5, <2>5, PrecedesLex
  <2>9. Lex(KeyOf(i, sorts), KeyOf(j, sorts), sorts)
    BY <1>5, <1>8, <2>6, <2>7, <2>8
  <2>10. Precedes(i, j, sorts)
    BY <1>5, <2>9, PrecedesLex
  <2> QED
    BY <2>3, <2>10 DEF sorts
<1> QED
  BY <1>7, <1>8

LEMMA OrderedNext == WalkTyped /\ StableOrdered /\ [Next]_vars => StableOrdered'
<1> SUFFICES ASSUME WalkTyped, StableOrdered, [Next]_vars PROVE StableOrdered'
  OBVIOUS
<1>1. PICK r, p : r = request /\ p = page
  OBVIOUS
<1>2. PICK s : s = Spec(r)
  OBVIOUS
<1>3. /\ RowsTyped /\ (total = None \/ total \in 0 .. MaxOffset)
      /\ Sent(r) /\ (p # None => PageLeads(r, p))
  BY <1>1 DEF WalkTyped
<1>4. p # None /\ s.cursor # None =>
        \A m, n \in DOMAIN p.ids :
            m < n /\ p.ids[m] \in stable /\ p.ids[n] \in stable => Precedes(p.ids[m], p.ids[n], s.sorts)
  BY <1>1, <1>2 DEF StableOrdered
<1>5. walk' = walk
  BY DEF Next, vars, CountRows, ReadPage, Follow, Write
<1>6. Spec(r)' = s
  BY <1>2, <1>5, SpecStays
<1>7. ASSUME request' = r, page' = p, stable' \subseteq stable, \A i \in stable' : table'[i] = table[i]
      PROVE  StableOrdered'
  <2>1. ASSUME p # None, s.cursor # None, NEW m \in DOMAIN p.ids, NEW n \in DOMAIN p.ids,
               m < n, p.ids[m] \in stable', p.ids[n] \in stable'
        PROVE  Precedes(p.ids[m], p.ids[n], s.sorts)'
    <3>1. PICK i, j : i = p.ids[m] /\ j = p.ids[n]
      OBVIOUS
    <3>2. Precedes(i, j, s.sorts)
      BY <1>4, <1>7, <2>1, <3>1
    <3>3. table'[i] = table[i] /\ table'[j] = table[j]
      BY <1>7, <2>1, <3>1
    <3>4. Precedes(i, j, s.sorts)'
      BY <1>5, <3>2, <3>3, PrecedesStays
    <3> QED
      BY <3>1, <3>4
  <2> QED
    BY <1>6, <1>7, <2>1 DEF StableOrdered
<1>8. CASE CountRows
  BY <1>1, <1>7, <1>8 DEF CountRows
<1>9. CASE ReadPage
  <2>1. PICK a : a = Answer(r, s, total) /\ page' = a
    BY <1>1, <1>2, <1>9 DEF ReadPage
  <2>2. request' = r /\ stable' = stable /\ table' = table
    BY <1>1, <1>9 DEF ReadPage
  <2>3. ASSUME s.cursor # None, NEW m \in DOMAIN a.ids, NEW n \in DOMAIN a.ids, m < n
        PROVE  Precedes(a.ids[m], a.ids[n], s.sorts)'
    <3>1. Precedes(a.ids[m], a.ids[n], s.sorts)
      BY <1>2, <1>3, <2>1, <2>3, PageOrdered
    <3>2. PICK i, j : i = a.ids[m] /\ j = a.ids[n]
      OBVIOUS
    <3>3. Precedes(i, j, s.sorts)'
      BY <1>5, <2>2, <3>1, <3>2, PrecedesStays
    <3> QED
      BY <3>2, <3>3
  <2> QED
    BY <1>6, <2>1, <2>2, <2>3 DEF StableOrdered
<1>10. CASE Follow
  <2>1. page' = None
    BY <1>10 DEF Follow
  <2> QED
    BY <2>1 DEF StableOrdered
<1>11. ASSUME NEW i \in Ids, Write(i) PROVE StableOrdered'
  <2>1. /\ request' = r /\ page' = p /\ stable' = stable \ {i}
        /\ \E row : table' = [table EXCEPT ![i] = row]
    BY <1>1, <1>11 DEF Write
  <2>2. \A j \in stable' : table'[j] = table[j]
    BY <1>3, <2>1 DEF RowsTyped
  <2> QED
    BY <1>7, <2>1, <2>2
<1>12. CASE UNCHANGED vars
  BY <1>1, <1>7, <1>12 DEF vars
<1> QED
  BY <1>8, <1>9, <1>10, <1>11, <1>12 DEF Next

\* A walk by cursor, forwards or backwards, shows every row that stays as it is
\* exactly once by its end, and never twice before, in the order that was asked
\* for, whatever is inserted, changed or deleted between two pages.
THEOREM CursorWalksAreExact == Walk => []CursorWalkExact
<1>1. Init => StableOrdered
  BY DEF Init, StableOrdered
<1>2. WalkTyped /\ StableWalked /\ StableOrdered => CursorWalkExact
  <2> SUFFICES ASSUME WalkTyped, StableWalked, StableOrdered, Spec(request).cursor # None, page # None
               PROVE  CursorWalkExact
    BY DEF CursorWalkExact, CursorWalkComplete, WalkOrdered, CursorWalk
  <2>1. \A i \in stable : TimesWalked(i) = (IF Ahead(i, Onward) THEN 0 ELSE 1)
    BY DEF StableWalked, Coming, Onward, OnwardOf
  <2>2. \A i : ~ Ahead(i, None)
    BY DEF Ahead
  <2>3. CursorWalkComplete
    BY <2>1, <2>2 DEF CursorWalkComplete
  <2>4. WalkOrdered
    BY DEF StableOrdered, WalkOrdered
  <2> QED
    BY <2>3, <2>4 DEF CursorWalkExact
<1> QED
  BY <1>1, <1>2, WalksAreTyped, StableInit, StableNext, OrderedNext, PTL DEF Walk

-----------------------------------------------------------------------------
(* Walks by page number                                                    *)

\* Without a position, the rows of a statement are all that are selected.
LEMMA AllRows ==
    ASSUME RowsTyped, NEW s, SpecTyped(s), s.cursor = None, NEW R, R = RawRows(s)
    PROVE  /\ R \in Seq(Ids) /\ Len(R) \in Nat /\ DOMAIN R = 1 .. Len(R) /\ Len(R) <= MaxOffset
           /\ Count(s) = Len(R)
           /\ \A i \in Selected(s) : \E n \in DOMAIN R : R[n] = i
           /\ Keyset(s) \in SUBSET Stored
<1>1. Keyset(s) = Selected(s) /\ Keyset(s) \in SUBSET Stored /\ Keyset(s) \subseteq Ids
  BY DEF Keyset, Selected, Positioned, Stored
<1>2. Identifying(OrderOf(s))
  BY OrderIdentifies
<1>3. /\ R \in Seq(Keyset(s))
      /\ Len(R) = Cardinality(Joined(Keyset(s))) /\ Len(R) <= MaxOffset
      /\ \A i \in Keyset(s) : \E n \in DOMAIN R : R[n] = i
  BY <1>1, <1>2, RawRowsAre
<1>4. R \in Seq(Ids) /\ Len(R) \in Nat /\ DOMAIN R = 1 .. Len(R)
  BY <1>1, <1>3, SeqMonotonic, LenProperties
<1>5. Count(s) = Len(R)
  BY <1>1, <1>3 DEF Count
<1> QED
  BY <1>1, <1>3, <1>4, <1>5

LEMMA SameRows ==
    ASSUME NEW s, NEW t, t.filters = s.filters, t.sorts = s.sorts, t.before = s.before,
           s.cursor = None, t.cursor = None
    PROVE  RawRows(t) = RawRows(s)
<1>1. Selected(t) = Selected(s) /\ OrderOf(t) = OrderOf(s)
  BY DEF Selected, OrderOf, KeysetSorts
<1>2. Keyset(t) = Selected(t) /\ Keyset(s) = Selected(s)
  BY DEF Keyset, Positioned
<1> QED
  BY <1>1, <1>2 DEF RawRows

LEMMA SliceHas ==
    ASSUME NEW T, NEW R \in Seq(T), NEW offset \in Nat, NEW limit \in Nat,
           NEW n \in DOMAIN R, offset < n, n <= offset + limit
    PROVE  \E m \in Nat : m \in DOMAIN Slice(R, offset, limit) /\ Slice(R, offset, limit)[m] = R[n]
<1> DEFINE W == Slice(R, offset, limit)
<1>2. /\ Len(W) \in Nat /\ DOMAIN W = 1 .. Len(W)
      /\ Len(W) = (IF offset >= Len(R) THEN 0
                   ELSE IF offset + limit < Len(R) THEN limit ELSE Len(R) - offset)
      /\ \A m \in DOMAIN W : W[m] = R[offset + m]
  BY Sliced
<1> HIDE DEF W
<1>3. n \in Nat /\ n <= Len(R) /\ Len(R) \in Nat
  BY LenProperties
<1>4. n - offset \in 1 .. Len(W) /\ offset + (n - offset) = n
  BY <1>2, <1>3
<1> QED
  BY <1>2, <1>4 DEF W

\* The places of a page among the rows.
OnPage(n, s) == (s.number - 1) * s.size < n /\ n <= s.number * s.size

LEMMA LimitHas ==
    ASSUME NEW s, s.number \in Nat \ {0}, s.size \in Nat \ {0}, s.cursor = None,
           NEW T, NEW R \in Seq(T), NEW n \in DOMAIN R,
           OnPage(n, s)
    PROVE  \E m \in DOMAIN Limited(R, s, s.size) : Limited(R, s, s.size)[m] = R[n]
<1> DEFINE W == Limited(R, s, s.size)
           offset == (s.number - 1) * s.size
           limit == s.size
<1>1. W = Slice(R, offset, limit)
  BY DEF Limited, Slice
<1>2. offset \in Nat /\ limit \in Nat /\ offset + limit = s.number * s.size
  <2>1. \A a, b \in Nat \ {0} : (a - 1) * b \in Nat /\ (a - 1) * b + b = a * b
    OBVIOUS
  <2> QED
    BY <2>1
<1>4. offset < n /\ n <= offset + limit
  BY <1>2 DEF OnPage
<1> HIDE DEF W, offset, limit
<1>3. \E m \in DOMAIN W : W[m] = R[n]
  BY <1>1, <1>2, <1>4, SliceHas
<1> QED
  BY <1>3 DEF W

\* One page by number: it has the rows from its offset on, and the last one the
\* last of them.
LEMMA PageNumbered ==
    ASSUME RowsTyped, NEW r, Sent(r), NEW s, s = Spec(r), s.cursor = None,
           NEW count, count = None \/ count \in 0 .. MaxOffset,
           NEW p, p = Answer(r, s, count), NEW R, R = RawRows(s)
    PROVE  /\ \A n \in DOMAIN R : OnPage(n, s) =>
                 \E m \in DOMAIN p.ids : p.ids[m] = R[n]
           /\ Coming(r, p) = None /\ (walk = "related" => count = Len(R)) => Len(R) <= s.number * s.size
<1> DEFINE M == Models(s)
           offset == (s.number - 1) * s.size
           on == OnwardOf(r, p.links)
<1>1. Proper(r) /\ r \in Seq(Linkable) /\ Spec(r).error = None
  BY DEF Sent
<1>2. SpecTyped(s)
  BY <1>1, SpecOf
<1>3. /\ p # None /\ ~ s.before
      /\ walk = "index" => p.ids = M
      /\ walk # "index" => p.ids = Limited(R, s, s.size)
      /\ on = None => /\ walk = "index" => ~ Len(Window(s)) > s.size
                      /\ count # None => s.number >= LastPage(count, s.size)
  <2> HIDE DEF M
  <2> QED
    BY <1>1, Answered DEF M
<1>4. Coming(r, p) = on
  BY <1>3 DEF Coming
<1>5. /\ R \in Seq(Ids) /\ Len(R) \in Nat /\ DOMAIN R = 1 .. Len(R)
      /\ Keyset(s) \in SUBSET Stored
  BY <1>2, AllRows
<1>6. s.number \in Nat \ {0} /\ s.size \in Nat \ {0}
  BY <1>2 DEF SpecTyped
<1>7. offset \in Nat /\ s.number * s.size \in Nat /\ offset + s.size = s.number * s.size
  BY <1>6
<1>8. walk \in {"index", "related"}
  BY DEF RowsTyped
<1> HIDE DEF M, on
<1>9. CASE walk = "index"
  <2>1. Offset(s) = offset
    BY DEF Offset
  <2>2. /\ \A n \in DOMAIN R : Offset(s) < n /\ n <= Offset(s) + s.size => \E k \in DOMAIN M : M[k] = R[n]
        /\ Len(Window(s)) > s.size <=> Len(R) > Offset(s) + s.size
    BY <1>2, <1>5, ModelsAre DEF M
  <2>3. \A n \in DOMAIN R : OnPage(n, s) => \E m \in DOMAIN p.ids : p.ids[m] = R[n]
    BY <1>3, <1>7, <1>9, <2>1, <2>2 DEF OnPage
  <2>4. on = None => ~ Len(R) > offset + s.size
    BY <1>3, <1>9, <2>1, <2>2
  <2>5. on = None => Len(R) <= s.number * s.size
    <3> HIDE DEF offset
    <3> QED
      BY <1>5, <1>7, <2>4
  <2> QED
    BY <1>4, <1>7, <1>9, <2>3, <2>5
<1>10. CASE walk # "index"
  <2>1. p.ids = Limited(R, s, s.size)
    BY <1>3, <1>10
  <2>2. \A n \in DOMAIN R : OnPage(n, s) =>
            \E m \in DOMAIN Limited(R, s, s.size) : Limited(R, s, s.size)[m] = R[n]
    BY <1>5, <1>6, LimitHas
  <2>3. \A n \in DOMAIN R : OnPage(n, s) => \E m \in DOMAIN p.ids : p.ids[m] = R[n]
    BY <2>1, <2>2
  <2>4. ASSUME on = None, count = Len(R) PROVE Len(R) <= s.number * s.size
    <3>1. count # None
      BY <1>5, <2>4, RowsAssumption
    <3>2. s.number >= LastPage(count, s.size)
      BY <1>3, <2>4, <3>1
    <3>3. /\ LastPage(count, s.size) \in Nat
          /\ s.number < LastPage(count, s.size) <=> s.number * s.size < count
      BY <1>5, <1>6, <2>4, Numbers
    <3>4. ~ (s.number * s.size < count)
      BY <1>6, <3>2, <3>3
    <3> QED
      BY <1>5, <1>7, <2>4, <3>4
  <2> QED
    BY <1>4, <1>8, <1>10, <2>3, <2>4 DEF offset
<1> QED
  BY <1>9, <1>10

LEMMA QuietInit == Init => QuietlyWalked
<1> SUFFICES ASSUME Init PROVE QuietlyWalked
  OBVIOUS
<1>1. PICK r, s, R : r = request /\ s = Spec(r) /\ R = RawRows(s)
  OBVIOUS
<1>2. Sent(r) /\ s.number = 1
  BY <1>1, FirstRequest
<1>3. s.size \in Nat
  BY <1>1, <1>2, SpecOf DEF Sent, SpecTyped
<1>4. (s.number - 1) * s.size = 0
  BY <1>2, <1>3
<1>5. total = None /\ page = None /\ RowsTyped
  BY TypedInit DEF Init, WalkTyped
<1>6. ASSUME s.cursor = None, NEW n \in DOMAIN R, n <= 0 PROVE FALSE
  <2>1. SpecTyped(s)
    BY <1>1, <1>2, SpecOf DEF Sent
  <2>2. DOMAIN R = 1 .. Len(R) /\ Len(R) \in Nat
    BY <1>1, <1>5, <1>6, <2>1, AllRows
  <2> QED
    BY <1>6, <2>2
<1> QED
  BY <1>1, <1>4, <1>5, <1>6 DEF QuietlyWalked

LEMMA QuietNext == WalkTyped /\ QuietlyWalked /\ [Next]_vars => QuietlyWalked'
<1> SUFFICES ASSUME WalkTyped, QuietlyWalked, [Next]_vars PROVE QuietlyWalked'
  OBVIOUS
<1>1. PICK r, p : r = request /\ p = page
  OBVIOUS
<1>2. PICK s, R, N : s = Spec(r) /\ R = RawRows(s) /\ N = Count(s)
  OBVIOUS
<1>3. /\ RowsTyped /\ (total = None \/ total \in 0 .. MaxOffset)
      /\ walked \in Seq(Ids) /\ writes \in Nat
      /\ Sent(r) /\ (p # None => PageLeads(r, p))
  BY <1>1 DEF WalkTyped
<1>4. writes = 0 /\ s.cursor = None =>
        /\ total # None => total = N
        /\ p # None /\ walk = "related" => total # None
        /\ \A n \in DOMAIN R : n <= (IF p = None THEN s.number - 1 ELSE s.number) * s.size =>
              \E m \in DOMAIN walked : walked[m] = R[n]
        /\ p # None /\ Coming(r, p) = None => Len(R) <= s.number * s.size
  BY <1>1, <1>2 DEF QuietlyWalked
<1>5. walk' = walk
  BY DEF Next, vars, CountRows, ReadPage, Follow, Write
<1>6. Spec(r)' = s /\ Coming(r, p)' = Coming(r, p)
  BY <1>2, <1>5, SpecStays, ComingStays
<1>7. ASSUME table' = table, copies' = copies PROVE RawRows(s)' = R /\ Count(s)' = N
  BY <1>2, <1>5, <1>7, RowsStay
<1>8. CASE CountRows
  <2>1. /\ request' = r /\ page' = p /\ p = None /\ walked' = walked /\ writes' = writes
        /\ table' = table /\ copies' = copies /\ total' = N
    BY <1>1, <1>2, <1>8 DEF CountRows
  <2> QED
    BY <1>4, <1>5, <1>6, <1>7, <2>1 DEF QuietlyWalked
<1>9. CASE ReadPage
  <2>1. PICK a : a = Answer(r, s, total) /\ page' = a /\ walked' = walked \o a.ids
    BY <1>1, <1>2, <1>9 DEF ReadPage
  <2>2. /\ request' = r /\ p = None /\ total' = total /\ writes' = writes
        /\ table' = table /\ copies' = copies /\ (walk = "related" => total # None)
    BY <1>1, <1>9 DEF ReadPage, Counted
  <2>3. a # None /\ a.ids \in Seq(Ids)
    BY <1>2, <1>3, <2>1, AnswerLeads
  <2>4. Coming(r, a)' = Coming(r, a)
    BY <1>5, ComingStays
  <2>5. ASSUME writes = 0, s.cursor = None
        PROVE  /\ \A n \in DOMAIN R : n <= s.number * s.size => \E m \in DOMAIN walked' : walked'[m] = R[n]
               /\ Coming(r, a) = None => Len(R) <= s.number * s.size
    <3>1. SpecTyped(s)
      BY <1>2, <1>3, SpecOf DEF Sent
    <3>2. s.number \in Nat \ {0} /\ s.size \in Nat
      BY <3>1 DEF SpecTyped
    <3>3. DOMAIN R = 1 .. Len(R) /\ N = Len(R) /\ Len(R) \in Nat
      BY <1>2, <1>3, <2>5, <3>1, AllRows
    <3>4. /\ \A n \in DOMAIN R : OnPage(n, s) =>
                 \E m \in DOMAIN a.ids : a.ids[m] = R[n]
          /\ Coming(r, a) = None /\ (walk = "related" => total = Len(R)) => Len(R) <= s.number * s.size
      <4>1. /\ RowsTyped /\ Sent(r) /\ s = Spec(r) /\ s.cursor = None /\ R = RawRows(s)
            /\ a = Answer(r, s, total) /\ (total = None \/ total \in 0 .. MaxOffset)
        BY <1>2, <1>3, <2>1, <2>5
      <4> QED
        BY <4>1, PageNumbered
    <3>5. walk = "related" => total = Len(R)
      BY <1>4, <2>2, <2>5, <3>3
    <3>6. ASSUME NEW n \in DOMAIN R, n <= s.number * s.size
          PROVE  \E m \in DOMAIN walked' : walked'[m] = R[n]
      <4>1. /\ \A m \in DOMAIN walked : m \in DOMAIN walked' /\ walked'[m] = walked[m]
            /\ \A m \in DOMAIN a.ids : Len(walked) + m \in DOMAIN walked' /\ walked'[Len(walked) + m] = a.ids[m]
        BY <1>3, <2>1, <2>3, Joining
      <4>2. CASE n <= (s.number - 1) * s.size
        <5>1. \E m \in DOMAIN walked : walked[m] = R[n]
          BY <1>4, <2>2, <2>5, <4>2
        <5> QED
          BY <4>1, <5>1
      <4>3. CASE ~ (n <= (s.number - 1) * s.size)
        <5>1. (s.number - 1) * s.size \in Nat /\ n \in Nat
          BY <3>2, <3>3
        <5>2. (s.number - 1) * s.size < n
          BY <4>3, <5>1
        <5>3. \E m \in DOMAIN a.ids : a.ids[m] = R[n]
          BY <3>4, <3>6, <5>2 DEF OnPage
        <5> QED
          BY <4>1, <5>3
      <4> QED
        BY <4>2, <4>3
    <3> QED
      BY <3>4, <3>5, <3>6
  <2>6. RawRows(s)' = R /\ Count(s)' = N
    BY <1>7, <2>2
  <2>7. writes = 0 /\ s.cursor = None => (total # None => total = N)
    BY <1>4
  <2> QED
    BY <1>5, <1>6, <2>1, <2>2, <2>3, <2>4, <2>5, <2>6, <2>7 DEF QuietlyWalked
<1>10. CASE Follow
  <2>1. PICK q : q = OnwardOf(r, p.links) /\ q # None /\ request' = q /\ p # None
    BY <1>1, <1>10 DEF Follow, Onward, OnwardOf
  <2>2. PICK t : t = Spec(q)
    OBVIOUS
  <2>3. /\ page' = None /\ total' = None /\ walked' = walked /\ writes' = writes
        /\ table' = table /\ copies' = copies
    BY <1>10 DEF Follow
  <2>4. Leads(q, r) /\ Sent(q)
    BY <1>3, <2>1, OnwardSent
  <2>5. SameAsk(t, s) /\ (t.cursor = None <=> s.cursor = None)
    BY <1>2, <2>2, <2>4 DEF Leads
  <2>6. ASSUME writes = 0, t.cursor = None
        PROVE  \A n \in DOMAIN RawRows(t)' : n <= (t.number - 1) * t.size =>
                    \E m \in DOMAIN walked : walked[m] = RawRows(t)'[n]
    <3>1. s.cursor = None
      BY <2>5, <2>6
    <3>2. SpecTyped(s)
      BY <1>2, <1>3, SpecOf DEF Sent
    <3>3. t.number = s.number + 1 /\ ~ t.before
      BY <1>2, <1>3, <2>1, <2>2, <3>1 DEF PageLeads
    <3>4. SpecTyped(t)
      BY <2>2, <2>4, SpecOf DEF Sent
    <3>5. t.before = s.before
      BY <3>1, <3>2, <3>3, <3>4 DEF SpecTyped
    <3>6. RawRows(t) = R
      BY <1>2, <2>5, <2>6, <3>1, <3>5, SameRows DEF SameAsk
    <3>7. RawRows(t)' = R
      BY <1>5, <2>3, <3>6, RowsStay
    <3>8. t.number - 1 = s.number /\ t.size = s.size
      BY <2>5, <3>2, <3>3 DEF SameAsk, SpecTyped
    <3> QED
      BY <1>4, <2>1, <2>6, <3>1, <3>7, <3>8
  <2>7. Spec(q)' = t
    BY <1>5, <2>2, SpecStays
  <2> QED
    BY <2>1, <2>3, <2>6, <2>7 DEF QuietlyWalked
<1>11. ASSUME NEW i \in Ids, Write(i) PROVE QuietlyWalked'
  <2>1. writes' # 0
    BY <1>3, <1>11 DEF Write
  <2> QED
    BY <2>1 DEF QuietlyWalked
<1>12. CASE UNCHANGED vars
  <2>1. /\ request' = r /\ page' = p /\ total' = total /\ walked' = walked /\ writes' = writes
        /\ table' = table /\ copies' = copies
    BY <1>1, <1>12 DEF vars
  <2> QED
    BY <1>4, <1>5, <1>6, <1>7, <2>1 DEF QuietlyWalked
<1> QED
  BY <1>8, <1>9, <1>10, <1>11, <1>12 DEF Next

\* While no row is written, a walk by page number has shown every selected row
\* by its end, through an index whose rows a join repeats as well as through a
\* related collection.
THEOREM QuietWalksAreComplete == Walk => []QuietWalkComplete
<1>1. WalkTyped /\ StableWalked /\ QuietlyWalked => QuietWalkComplete
  <2> SUFFICES ASSUME WalkTyped, StableWalked, QuietlyWalked, writes = 0, page # None, Onward = None,
                      NEW i \in stable
               PROVE  TimesWalked(i) >= 1
    BY DEF QuietWalkComplete
  <2>1. PICK r, s, R : r = request /\ s = Spec(r) /\ R = RawRows(s)
    OBVIOUS
  <2>2. RowsTyped /\ Sent(r) /\ walked \in Seq(Ids)
    BY <2>1 DEF WalkTyped
  <2>3. Coming(r, page) = None
    BY <2>1 DEF Coming, Onward, OnwardOf
  <2>4. /\ i \in Selected(s)
        /\ s.cursor # None => TimesWalked(i) = (IF Ahead(i, None) THEN 0 ELSE 1)
    BY <2>1, <2>3 DEF StableWalked
  <2>5. CASE s.cursor # None
    BY <2>4, <2>5 DEF Ahead
  <2>6. CASE s.cursor = None
    <3>1. SpecTyped(s)
      BY <2>1, <2>2, SpecOf DEF Sent
    <3>2. /\ DOMAIN R = 1 .. Len(R) /\ Len(R) \in Nat
          /\ \E n \in DOMAIN R : R[n] = i
      BY <2>1, <2>2, <2>4, <2>6, <3>1, AllRows
    <3>3. /\ \A n \in DOMAIN R : n <= s.number * s.size => \E m \in DOMAIN walked : walked[m] = R[n]
          /\ Len(R) <= s.number * s.size
      BY <2>1, <2>3, <2>6 DEF QuietlyWalked
    <3>4. s.number * s.size \in Nat
      BY <3>1 DEF SpecTyped
    <3>5. PICK n \in DOMAIN R : R[n] = i /\ n <= s.number * s.size
      BY <3>2, <3>3, <3>4
    <3>6. PICK m \in DOMAIN walked : walked[m] = i
      BY <3>3, <3>5
    <3>7. m \in At(walked, i)
      BY <3>6 DEF At
    <3>8. IsFiniteSet(At(walked, i)) /\ Cardinality(At(walked, i)) \in Nat
      BY <2>2, EmptySeq, ShownMore
    <3>9. Cardinality(At(walked, i)) # 0
      BY <3>7, <3>8, FS_EmptySet
    <3> QED
      BY <3>8, <3>9, TimesAre
  <2> QED
    BY <2>5, <2>6
<1> QED
  BY <1>1, WalksAreTyped, StableInit, StableNext, QuietInit, QuietNext, PTL DEF Walk


-----------------------------------------------------------------------------
(* There and back                                                          *)

\* The direction of page[before].
LEMMA Backwards ==
    ASSUME RowsTyped, NEW spec, SpecTyped(spec), spec.before, NEW i \in Stored, NEW j \in Stored
    PROVE  Precedes(i, j, KeysetSorts(spec)) <=> Precedes(j, i, spec.sorts)
<1> DEFINE ks == KeysetSorts(spec)
           sorts == spec.sorts
<1>1. /\ sorts \in Seq(SortTerms)
      /\ ks \in Seq(SortTerms) /\ DOMAIN ks = DOMAIN sorts
      /\ \A k \in DOMAIN sorts : ks[k].name = sorts[k].name
      /\ \A a, b \in Keys(sorts) : Lex(a, b, ks) <=> Lex(b, a, sorts)
  BY Inverted DEF SpecTyped, Identifying
<1>2. KeyOf(i, ks) = KeyOf(i, sorts) /\ KeyOf(j, ks) = KeyOf(j, sorts)
  BY <1>1 DEF KeyOf
<1>3. KeyOf(i, sorts) \in Keys(sorts) /\ KeyOf(j, sorts) \in Keys(sorts)
  BY <1>1, KeyTyped
<1>4. Precedes(i, j, ks) <=> Lex(KeyOf(i, ks), KeyOf(j, ks), ks)
  BY <1>1, PrecedesLex
<1>5. Precedes(j, i, sorts) <=> Lex(KeyOf(j, sorts), KeyOf(i, sorts), sorts)
  BY <1>1, PrecedesLex
<1> QED
  BY <1>1, <1>2, <1>3, <1>4, <1>5

\* The rows that precede a row are selected by a cursor before it, and no others.
LEMMA BeforeIs ==
    ASSUME RowsTyped, NEW s, SpecTyped(s), s.cursor # None,
           NEW t, SpecTyped(t), t.before, t.sorts = s.sorts, t.filters = s.filters,
           NEW f \in Keyset(s), t.cursor = CursorAt(f, s), NEW i \in Selected(s)
    PROVE  i \in Keyset(t) <=> Precedes(i, f, s.sorts)
<1> DEFINE sorts == s.sorts
           ks == KeysetSorts(t)
<1>1. Selected(t) = Selected(s)
  BY DEF Selected
<1>2. f \in Stored /\ i \in Stored
  BY KeysetIs
<1>3. t.cursor = [s |-> sorts, v |-> KeyOf(f, sorts)]
  BY MintedAt
<1>4. Positioned(t)
  <2>1. Minted(t.cursor, s) /\ t.cursor # None
    BY MintedAt
  <2> QED
    BY <2>1 DEF Minted, Positioned
<1>5. i \in Keyset(t) <=> Lex(KeyOf(f, sorts), KeyOf(i, sorts), ks)
  <2>1. t.cursor.v = KeyOf(f, sorts)
    BY <1>3
  <2>2. i \in Keyset(t) <=> /\ i \in Selected(t)
                            /\ Positioned(t) => Lex(t.cursor.v, KeyOf(i, t.sorts), KeysetSorts(t))
    BY KeysetIs
  <2> QED
    BY <1>1, <1>4, <2>1, <2>2
<1>6. /\ sorts \in Seq(SortTerms)
      /\ \A a, b \in Keys(sorts) : Lex(a, b, ks) <=> Lex(b, a, sorts)
  BY Inverted DEF SpecTyped, Identifying
<1>7. KeyOf(f, sorts) \in Keys(sorts) /\ KeyOf(i, sorts) \in Keys(sorts)
  BY <1>2, <1>6, KeyTyped
<1>8. Precedes(i, f, sorts) <=> Lex(KeyOf(i, sorts), KeyOf(f, sorts), sorts)
  BY <1>6, PrecedesLex
<1> QED
  BY <1>5, <1>6, <1>7, <1>8

\* What comes after a row of the key set is in it.
LEMMA KeysetUpward ==
    ASSUME RowsTyped, NEW s, SpecTyped(s), ~ s.before, NEW l \in Keyset(s), NEW i \in Selected(s),
           Precedes(l, i, s.sorts)
    PROVE  i \in Keyset(s)
<1> DEFINE sorts == s.sorts
<1>1. sorts \in Seq(SortTerms) /\ KeysetSorts(s) = sorts
  BY Inverted DEF SpecTyped, Identifying
<1>2. /\ l \in Stored /\ i \in Stored /\ (Positioned(s) => Lex(s.cursor.v, KeyOf(l, sorts), sorts))
  BY <1>1, KeysetIs
<1>3. Lex(KeyOf(l, sorts), KeyOf(i, sorts), sorts)
  BY <1>1, PrecedesLex
<1> SUFFICES ASSUME Positioned(s) PROVE Lex(s.cursor.v, KeyOf(i, sorts), sorts)
  BY <1>1, KeysetIs
<1>4. s.cursor.v \in Keys(sorts)
  BY PositionTyped
<1>5. KeyOf(l, sorts) \in Keys(sorts) /\ KeyOf(i, sorts) \in Keys(sorts)
  BY <1>1, <1>2, KeyTyped
<1> HIDE DEF sorts
<1> QED
  BY <1>1, <1>2, <1>3, <1>4, <1>5, LexTransitive

-----------------------------------------------------------------------------
(* Sorted sequences                                                        *)

Ascending(a, sorts) == \A m, n \in DOMAIN a : m < n => Precedes(a[m], a[n], sorts)

\* As many rows precede an entry as there are places before it.
LEMMA PlaceOf ==
    ASSUME RowsTyped, NEW sorts, Identifying(sorts), NEW a \in Seq(Stored), Ascending(a, sorts), NEW n \in DOMAIN a
    PROVE  LET earlier == {x \in Range(a) : Precedes(x, a[n], sorts)} IN
           IsFiniteSet(earlier) /\ Cardinality(earlier) = n - 1
<1> DEFINE earlier == {x \in Range(a) : Precedes(x, a[n], sorts)}
           f == [m \in 1 .. n - 1 |-> a[m]]
<1>1. DOMAIN a = 1 .. Len(a) /\ Len(a) \in Nat /\ \A m \in DOMAIN a : a[m] \in Stored
  BY LenProperties, ElementOfSeq
<1>2. n \in Nat /\ n - 1 \in Nat /\ 1 .. n - 1 \subseteq DOMAIN a /\ \A m \in 1 .. n - 1 : m < n /\ m \in DOMAIN a
  BY <1>1
<1>3. \A x, y \in Stored : ~ Precedes(x, x, sorts) /\ ~ (Precedes(x, y, sorts) /\ Precedes(y, x, sorts))
  BY RowOrder
<1>4. \A x : x \in Range(a) <=> \E m \in DOMAIN a : a[m] = x
  BY DEF Range
<1>5. \A x : x \in earlier <=> x \in Range(a) /\ Precedes(x, a[n], sorts)
  OBVIOUS
<1> HIDE DEF earlier
<1>6. \A m \in 1 .. n - 1 : f[m] = a[m] /\ f[m] \in earlier
  BY <1>2, <1>4, <1>5 DEF Ascending
<1>7. ASSUME NEW x \in earlier PROVE \E m \in 1 .. n - 1 : f[m] = x
  <2>1. PICK m \in DOMAIN a : a[m] = x
    BY <1>4, <1>5, <1>7
  <2>2. m < n
    <3>1. m = n \/ n < m \/ m < n
      BY <1>1
    <3>2. Precedes(a[m], a[n], sorts)
      BY <1>5, <1>7, <2>1
    <3> QED
      BY <1>1, <1>3, <3>1, <3>2 DEF Ascending
  <2>3. m \in 1 .. n - 1
    BY <1>1, <2>2
  <2> QED
    BY <1>6, <2>1, <2>3
<1>8. \A k, m \in 1 .. n - 1 : f[k] = f[m] => k = m
  <2> SUFFICES ASSUME NEW k \in 1 .. n - 1, NEW m \in 1 .. n - 1, f[k] = f[m], k # m PROVE FALSE
    OBVIOUS
  <2>1. a[k] = a[m] /\ k \in DOMAIN a /\ m \in DOMAIN a
    BY <1>2, <1>6
  <2>2. k < m \/ m < k
    BY <1>1, <2>1
  <2> QED
    BY <1>1, <1>3, <2>1, <2>2 DEF Ascending
<1>9. f \in Bijection(1 .. n - 1, earlier)
  <2>1. f \in [1 .. n - 1 -> earlier]
    BY <1>6
  <2> HIDE DEF f
  <2> QED
    BY <1>7, <1>8, <2>1 DEF Bijection, Injection, Surjection, IsInjective
<1>10. IsFiniteSet(1 .. n - 1) /\ Cardinality(1 .. n - 1) = n - 1
  <2>1. 1 \in Int /\ n - 1 \in Int
    BY <1>2
  <2>2. IsFiniteSet(1 .. n - 1) /\ Cardinality(1 .. n - 1) = (IF 1 > n - 1 THEN 0 ELSE (n - 1) - 1 + 1)
    BY <2>1, FS_Interval
  <2> QED
    BY <1>2, <2>2
<1>11. ExistsBijection(1 .. n - 1, earlier)
  BY <1>9 DEF ExistsBijection
<1>12. IsFiniteSet(earlier) /\ Cardinality(earlier) = n - 1
  BY <1>10, <1>11, FS_Bijection
<1> QED
  BY <1>12 DEF earlier

LEMMA RangeCounted ==
    ASSUME NEW T, NEW a \in Seq(T), \A m, n \in DOMAIN a : m < n => a[m] # a[n]
    PROVE  IsFiniteSet(Range(a)) /\ Cardinality(Range(a)) = Len(a)
<1>1. DOMAIN a = 1 .. Len(a) /\ Len(a) \in Nat
  BY LenProperties
<1>2. a = [n \in DOMAIN a |-> a[n]]
  OBVIOUS
<1>3. \A x : x \in Range(a) <=> \E m \in DOMAIN a : a[m] = x
  BY DEF Range
<1>4. a \in [1 .. Len(a) -> Range(a)]
  BY <1>1, <1>2, <1>3
<1>5. \A m, n \in 1 .. Len(a) : a[m] = a[n] => m = n
  <2> SUFFICES ASSUME NEW m \in 1 .. Len(a), NEW n \in 1 .. Len(a), a[m] = a[n], m # n PROVE FALSE
    OBVIOUS
  <2>1. m < n \/ n < m
    BY <1>1
  <2> QED
    BY <1>1, <2>1
<1>6. a \in Bijection(1 .. Len(a), Range(a))
  BY <1>1, <1>3, <1>4, <1>5 DEF Bijection, Injection, Surjection, IsInjective
<1>7. IsFiniteSet(1 .. Len(a)) /\ Cardinality(1 .. Len(a)) = Len(a)
  BY <1>1, FS_Interval
<1>8. ExistsBijection(1 .. Len(a), Range(a))
  BY <1>6 DEF ExistsBijection
<1> QED
  BY <1>7, <1>8, FS_Bijection

\* A set of rows is in order in one way.
LEMMA SortedOnce ==
    ASSUME RowsTyped, NEW sorts, Identifying(sorts), NEW a \in Seq(Stored), NEW b \in Seq(Stored),
           Ascending(a, sorts), Ascending(b, sorts), Range(a) = Range(b)
    PROVE  a = b
<1>1. /\ DOMAIN a = 1 .. Len(a) /\ Len(a) \in Nat /\ (\A m \in DOMAIN a : a[m] \in Stored)
      /\ DOMAIN b = 1 .. Len(b) /\ Len(b) \in Nat /\ (\A m \in DOMAIN b : b[m] \in Stored)
  BY LenProperties, ElementOfSeq
<1>2. \A x, y, z \in Stored : /\ ~ Precedes(x, x, sorts)
                              /\ ~ (Precedes(x, y, sorts) /\ Precedes(y, x, sorts))
                              /\ Precedes(x, y, sorts) /\ Precedes(y, z, sorts) => Precedes(x, z, sorts)
                              /\ x = y \/ Precedes(x, y, sorts) \/ Precedes(y, x, sorts)
  BY RowOrder
<1>3. Len(a) = Len(b)
  <2>1. (\A m, n \in DOMAIN a : m < n => a[m] # a[n]) /\ (\A m, n \in DOMAIN b : m < n => b[m] # b[n])
    BY <1>1, <1>2 DEF Ascending
  <2>2. Cardinality(Range(a)) = Len(a)
    BY <2>1, RangeCounted
  <2>3. Cardinality(Range(b)) = Len(b)
    BY <2>1, RangeCounted
  <2> QED
    BY <2>2, <2>3
<1> DEFINE earlier(x) == {y \in Range(a) : Precedes(y, x, sorts)}
<1>4. \A n \in DOMAIN a : /\ IsFiniteSet(earlier(a[n])) /\ Cardinality(earlier(a[n])) = n - 1
                          /\ IsFiniteSet(earlier(b[n])) /\ Cardinality(earlier(b[n])) = n - 1
  BY <1>1, <1>3, PlaceOf
<1>5. \A x, y : y \in earlier(x) <=> y \in Range(a) /\ Precedes(y, x, sorts)
  OBVIOUS
<1> HIDE DEF earlier
<1>6. \A x, y \in Range(a) : Precedes(x, y, sorts) =>
        earlier(x) \in SUBSET earlier(y) /\ earlier(x) # earlier(y)
  <2>1. \A x \in Range(a) : x \in Stored
    BY <1>1 DEF Range
  <2> QED
    BY <1>2, <1>5, <2>1
<1>7. ASSUME NEW n \in DOMAIN a PROVE a[n] = b[n]
  <2>1. a[n] \in Range(a) /\ b[n] \in Range(a) /\ a[n] \in Stored /\ b[n] \in Stored
    <3>1. n \in DOMAIN b
      BY <1>1, <1>3
    <3> QED
      BY <1>1, <3>1 DEF Range
  <2>2. ASSUME NEW x \in {a[n], b[n]}, NEW y \in {a[n], b[n]}, Precedes(x, y, sorts) PROVE FALSE
    <3>1. earlier(x) \in SUBSET earlier(y) /\ earlier(x) # earlier(y)
      BY <1>6, <2>1, <2>2
    <3>2. IsFiniteSet(earlier(y)) /\ Cardinality(earlier(x)) = Cardinality(earlier(y))
      BY <1>4, <1>7
    <3> QED
      BY <3>1, <3>2, FS_Subset
  <2> QED
    BY <1>2, <2>1, <2>2
<1>8. a = [n \in 1 .. Len(a) |-> a[n]] /\ b = [n \in 1 .. Len(b) |-> b[n]]
  BY <1>1
<1> QED
  BY <1>1, <1>3, <1>7, <1>8

\* Without repeated rows, a page is full when there are rows enough.
LEMMA FullPage ==
    ASSUME RowsTyped, walk = "index", \A i \in Ids : copies[i] = 1,
           NEW spec, SpecTyped(spec), spec.cursor # None, Len(RawRows(spec)) >= spec.size
    PROVE  Len(Models(spec)) = spec.size
<1> DEFINE R == RawRows(spec)
           M == Models(spec)
           K == Keyset(spec)
           order == OrderOf(spec)
           size == spec.size
<1>1. K \in SUBSET Stored /\ Identifying(order)
  <2>1. Identifying(order)
    BY OrderIdentifies
  <2> QED
    BY <2>1, CursorPage
<1>2. \A i \in Ids : Copies(i) = 1
  BY DEF Copies
<1>3. /\ R \in Seq(K)
      /\ \A m, n \in DOMAIN R : m < n => Precedes(R[m], R[n], order)
  BY <1>1, <1>2, RawRowsAre
<1>4. DOMAIN R = 1 .. Len(R) /\ Len(R) \in Nat /\ \A n \in DOMAIN R : R[n] \in Stored
  <2>1. \A n \in DOMAIN R : R[n] \in K
    <3> HIDE DEF R, K
    <3> QED
      BY <1>3, ElementOfSeq, LenProperties
  <2> QED
    BY <1>1, <1>3, <2>1, LenProperties
<1>5. size \in Nat \ {0} /\ Offset(spec) = 0
  BY DEF SpecTyped, Offset
<1>6. /\ Len(M) \in Nat /\ DOMAIN M = 1 .. Len(M) /\ Len(M) <= size
      /\ \A n \in DOMAIN R : Offset(spec) < n /\ n <= Offset(spec) + size => \E k \in DOMAIN M : M[k] = R[n]
  BY <1>1, ModelsAre
<1>7. \A n \in 1 .. size : n \in DOMAIN R /\ n \in Nat /\ 0 < n /\ n <= size
  BY <1>4, <1>5
<1> HIDE DEF R, M, K, order, size
<1>8. \A n \in 1 .. size : \E k \in DOMAIN M : M[k] = R[n]
  <2> TAKE n \in 1 .. size
  <2>1. 0 + size = size
    BY <1>5
  <2> QED
    BY <1>5, <1>6, <1>7, <2>1
<1> DEFINE f == [n \in 1 .. size |-> CHOOSE k \in DOMAIN M : M[k] = R[n]]
<1>9. \A n \in 1 .. size : f[n] \in 1 .. Len(M) /\ M[f[n]] = R[n]
  BY <1>6, <1>8
<1>10. f \in [1 .. size -> 1 .. Len(M)]
  BY <1>9
<1>11. ASSUME NEW m \in 1 .. size, NEW n \in 1 .. size, f[m] = f[n], m # n PROVE FALSE
  <2>1. R[m] = R[n] /\ m \in DOMAIN R /\ n \in DOMAIN R /\ (m < n \/ n < m)
    BY <1>7, <1>9, <1>11
  <2>2. \A x \in Stored : ~ Precedes(x, x, order)
    BY <1>1, RowOrder
  <2> QED
    BY <1>3, <1>4, <2>1, <2>2
<1>12. f \in Injection(1 .. size, 1 .. Len(M))
  BY <1>10, <1>11 DEF Injection, IsInjective
<1> HIDE DEF f
<1>13. Cardinality(1 .. size) = size /\ IsFiniteSet(1 .. Len(M)) /\ Cardinality(1 .. Len(M)) = Len(M)
  <2>1. \A n \in Nat : IsFiniteSet(1 .. n) /\ Cardinality(1 .. n) = n
    BY FS_Interval
  <2> QED
    BY <1>5, <1>6, <2>1
<1>14. Cardinality(1 .. size) <= Cardinality(1 .. Len(M))
  BY <1>12, <1>13, FS_Injection
<1> QED
  BY <1>5, <1>6, <1>13, <1>14 DEF M, size

\* A page after a page: the rows before it, backwards, begin with that page.
LEMMA BackAgain ==
    ASSUME RowsTyped, walk = "index", \A i \in Ids : copies[i] = 1,
           NEW s, SpecTyped(s), s.cursor # None, ~ s.before, Len(Window(s)) > s.size,
           NEW next, SpecTyped(next), next.cursor = CursorAt(Models(s)[Len(Models(s))], s), ~ next.before,
           next.sorts = s.sorts, next.filters = s.filters,
           1 \in DOMAIN Models(next),
           NEW t, SpecTyped(t), t.cursor = CursorAt(Models(next)[1], next), t.before,
           t.sorts = s.sorts, t.filters = s.filters, t.size = s.size
    PROVE  Reverse(Models(t)) = Models(s)
<1> DEFINE M == Models(s)
           A == Models(next)
           B == Models(t)
           sorts == s.sorts
           size == s.size
           l == M[Len(M)]
           f == A[1]
<1>1. Identifying(sorts) /\ KeysetSorts(s) = sorts /\ KeysetSorts(next) = sorts /\ size \in Nat \ {0}
  <2>1. sorts \in Seq(SortTerms)
    BY DEF SpecTyped, Identifying
  <2> QED
    BY <2>1, Inverted DEF SpecTyped
<1>2. \A x, y, z \in Stored : /\ ~ Precedes(x, x, sorts)
                              /\ ~ (Precedes(x, y, sorts) /\ Precedes(y, x, sorts))
                              /\ Precedes(x, y, sorts) /\ Precedes(y, z, sorts) => Precedes(x, z, sorts)
  BY <1>1, RowOrder
<1>3. /\ Keyset(s) \in SUBSET Stored
      /\ M \in Seq(Keyset(s)) /\ DOMAIN M = 1 .. Len(M) /\ Len(M) \in Nat
      /\ \A m, n \in DOMAIN M : m < n => Precedes(M[m], M[n], sorts)
      /\ \A i \in Keyset(s) : (\A k \in DOMAIN M : M[k] # i) => \A k \in DOMAIN M : Precedes(M[k], i, sorts)
      /\ 1 \in DOMAIN M
  BY <1>1, CursorPage
<1>4. Len(M) \in DOMAIN M /\ l \in Keyset(s) /\ \A k \in DOMAIN M : M[k] \in Keyset(s) /\ M[k] \in Stored
  BY <1>3, ElementOfSeq
<1>5. next.cursor # None
  <2> HIDE DEF M
  <2> QED
    BY <1>4, MintedAt DEF M
<1>6. /\ Keyset(next) \in SUBSET Stored
      /\ A \in Seq(Keyset(next)) /\ DOMAIN A = 1 .. Len(A) /\ Len(A) \in Nat
      /\ \A m, n \in DOMAIN A : m < n => Precedes(A[m], A[n], sorts)
      /\ \A i \in Keyset(next) : (\A k \in DOMAIN A : A[k] # i) => \A k \in DOMAIN A : Precedes(A[k], i, sorts)
  BY <1>1, <1>5, CursorPage
<1>7. f \in Keyset(next) /\ f \in Stored /\ 1 \in DOMAIN A
  BY <1>6, ElementOfSeq
<1>8. t.cursor # None
  <2> HIDE DEF A
  <2> QED
    BY <1>5, <1>7, MintedAt DEF A
<1> DEFINE kt == KeysetSorts(t)
<1>9. /\ Keyset(t) \in SUBSET Stored
      /\ B \in Seq(Keyset(t)) /\ DOMAIN B = 1 .. Len(B) /\ Len(B) \in Nat
      /\ \A m, n \in DOMAIN B : m < n => Precedes(B[m], B[n], kt)
      /\ \A i \in Keyset(t) : (\A k \in DOMAIN B : B[k] # i) => \A k \in DOMAIN B : Precedes(B[k], i, kt)
  BY <1>8, CursorPage
<1>10. \A k \in DOMAIN B : B[k] \in Keyset(t) /\ B[k] \in Stored
  BY <1>9, ElementOfSeq
<1>11. Selected(next) = Selected(s) /\ Selected(t) = Selected(s)
  BY DEF Selected
<1>12. /\ Keyset(s) \subseteq Selected(s) /\ Keyset(next) \subseteq Selected(s) /\ Keyset(t) \subseteq Selected(s)
  BY <1>11 DEF Keyset
<1> HIDE DEF M, A, B, sorts, size, kt
<1>13. \A i \in Selected(s) : i \in Keyset(next) <=> i \in Keyset(s) /\ Precedes(l, i, sorts)
  <2> SUFFICES ASSUME NEW i \in Selected(s)
               PROVE  i \in Keyset(next) <=> i \in Keyset(s) /\ Precedes(l, i, KeysetSorts(s))
    BY <1>1
  <2>1. next.cursor = CursorAt(l, s) /\ next.before = s.before
    BY DEF M, SpecTyped
  <2> HIDE DEF l
  <2> QED
    BY <1>4, <2>1, Remaining
<1>14. \A i \in Selected(s) : i \in Keyset(t) <=> Precedes(i, f, sorts)
  <2> TAKE i \in Selected(s)
  <2>1. t.cursor = CursorAt(f, next) /\ t.sorts = next.sorts /\ t.filters = next.filters /\ next.sorts = sorts
    BY DEF A, sorts
  <2> HIDE DEF f
  <2> QED
    BY <1>5, <1>7, <1>11, <2>1, BeforeIs
<1> HIDE DEF f
<1>15. \A i \in Selected(s), j \in Keyset(s) : Precedes(j, i, sorts) => i \in Keyset(s)
  BY KeysetUpward DEF sorts
<1>16. \A x, y \in Stored : Precedes(x, y, kt) <=> Precedes(y, x, sorts)
  BY Backwards DEF kt, sorts
<1>17. \A k \in DOMAIN M : M[k] \in Keyset(t)
  <2> TAKE k \in DOMAIN M
  <2>1. Precedes(l, f, sorts)
    BY <1>7, <1>12, <1>13
  <2>2. k = Len(M) \/ k < Len(M)
    BY <1>3
  <2>3. Precedes(M[k], f, sorts)
    BY <1>2, <1>3, <1>4, <1>7, <2>1, <2>2
  <2> QED
    BY <1>4, <1>12, <1>14, <2>3
<1>18. \A j \in DOMAIN M, m \in DOMAIN B : Precedes(M[j], B[m], sorts) => B[m] \in Range(M)
  <2> SUFFICES ASSUME NEW j \in DOMAIN M, NEW m \in DOMAIN B, Precedes(M[j], B[m], sorts), B[m] \notin Range(M)
               PROVE  FALSE
    OBVIOUS
  <2>1. PICK x : x = B[m]
    OBVIOUS
  <2>2. x \in Selected(s) /\ x \in Stored /\ Precedes(x, f, sorts)
    BY <1>10, <1>12, <1>14, <2>1
  <2>3. x \in Keyset(s)
    BY <1>4, <1>15, <2>1, <2>2
  <2>4. \A k \in DOMAIN M : M[k] # x
    BY <2>1 DEF Range
  <2>5. x \in Keyset(next)
    BY <1>3, <1>4, <1>13, <2>2, <2>3, <2>4
  <2>6. f = A[1]
    BY DEF f
  <2>7. x = f \/ Precedes(f, x, sorts)
    <3>1. CASE \E k \in DOMAIN A : A[k] = x
      <4>1. PICK k \in DOMAIN A : A[k] = x
        BY <3>1
      <4>2. k = 1 \/ 1 < k
        BY <1>6
      <4> QED
        BY <1>6, <1>7, <2>6, <4>1, <4>2
    <3>2. CASE \A k \in DOMAIN A : A[k] # x
      BY <1>6, <1>7, <2>5, <2>6, <3>2
    <3> QED
      BY <3>1, <3>2
  <2> QED
    BY <1>2, <1>7, <2>2, <2>7
<1>19. Len(M) = size
  <2>1. Len(Window(s)) > s.size <=> Len(RawRows(s)) > Offset(s) + s.size
    BY <1>3, ModelsAre
  <2>2. Offset(s) + s.size = s.size
    BY <1>1 DEF Offset, size
  <2>3. Len(RawRows(s)) > s.size
    BY <2>1, <2>2
  <2>4. Len(RawRows(s)) \in Nat
    <3>1. RawRows(s) \in Seq(Keyset(s))
      BY <1>3, OrderIdentifies, RawRowsAre
    <3> QED
      BY <3>1, LenProperties
  <2>5. Len(RawRows(s)) >= s.size
    BY <1>1, <2>3, <2>4 DEF size
  <2> QED
    BY <2>5, FullPage DEF M, size
<1>20. \A m, n \in DOMAIN M : m < n => M[m] # M[n]
  BY <1>2, <1>3, <1>4
<1>21. Len(B) = size
  <2> DEFINE R == RawRows(t)
  <2>1. R \in Seq(Keyset(t)) /\ \A i \in Keyset(t) : \E n \in DOMAIN R : R[n] = i
    BY <1>9, OrderIdentifies, RawRowsAre
  <2>2. DOMAIN R = 1 .. Len(R) /\ Len(R) \in Nat
    BY <2>1, LenProperties
  <2> HIDE DEF R
  <2> DEFINE g == [m \in 1 .. size |-> CHOOSE n \in DOMAIN R : R[n] = M[m]]
  <2>3. DOMAIN M = 1 .. size
    BY <1>3, <1>19
  <2>4. \A m \in 1 .. size : g[m] \in 1 .. Len(R) /\ R[g[m]] = M[m]
    BY <1>17, <2>1, <2>2, <2>3
  <2>5. g \in [1 .. size -> 1 .. Len(R)]
    BY <2>4
  <2>6. ASSUME NEW m \in 1 .. size, NEW n \in 1 .. size, g[m] = g[n] PROVE m = n
    <3>1. M[m] = M[n]
      BY <2>4, <2>6
    <3> QED
      BY <1>1, <1>20, <2>3, <3>1
  <2>7. g \in Injection(1 .. size, 1 .. Len(R))
    BY <2>5, <2>6 DEF Injection, IsInjective
  <2> HIDE DEF g
  <2>8. \A n \in Nat : IsFiniteSet(1 .. n) /\ Cardinality(1 .. n) = n
    BY FS_Interval
  <2>9. size <= Len(R)
    <3>1. IsFiniteSet(1 .. Len(R)) /\ Cardinality(1 .. Len(R)) = Len(R) /\ Cardinality(1 .. size) = size
      BY <1>1, <2>2, <2>8
    <3>2. Cardinality(1 .. size) <= Cardinality(1 .. Len(R))
      BY <2>7, <3>1, FS_Injection
    <3> QED
      BY <3>1, <3>2
  <2>10. Len(R) >= t.size
    BY <1>1, <2>2, <2>9 DEF size
  <2> QED
    BY <1>8, <2>10, FullPage DEF B, R, size
<1>22. \A m, n \in DOMAIN B : m < n => B[m] # B[n]
  BY <1>2, <1>9, <1>10, <1>16
<1>23. /\ IsFiniteSet(Range(M)) /\ Cardinality(Range(M)) = size
       /\ IsFiniteSet(Range(B)) /\ Cardinality(Range(B)) = size
  <2>1. IsFiniteSet(Range(M)) /\ Cardinality(Range(M)) = Len(M)
    BY <1>3, <1>20, RangeCounted
  <2>2. IsFiniteSet(Range(B)) /\ Cardinality(Range(B)) = Len(B)
    BY <1>9, <1>22, RangeCounted
  <2> QED
    BY <1>19, <1>21, <2>1, <2>2
<1>24. Range(M) = Range(B)
  <2>1. ASSUME NEW j \in DOMAIN M, M[j] \notin Range(B) PROVE FALSE
    <3>1. \A m \in DOMAIN B : B[m] # M[j]
      BY <2>1 DEF Range
    <3>2. \A m \in DOMAIN B : Precedes(M[j], B[m], sorts)
      BY <1>4, <1>9, <1>10, <1>16, <1>17, <3>1
    <3>3. Range(B) \in SUBSET Range(M)
      BY <1>18, <3>2 DEF Range
    <3>4. Range(B) = Range(M)
      BY <1>23, <3>3, FS_Subset
    <3> QED
      BY <2>1, <3>4 DEF Range
  <2>2. Range(M) \in SUBSET Range(B)
    BY <2>1 DEF Range
  <2> QED
    BY <1>23, <2>2, FS_Subset
<1> DEFINE C == Reverse(B)
<1>25. /\ C \in Seq(Keyset(t)) /\ Len(C) = Len(B) /\ DOMAIN C = DOMAIN B
       /\ \A n \in DOMAIN B : C[n] = B[Len(B) - n + 1] /\ Len(B) - n + 1 \in DOMAIN B
  BY <1>9, Reversed
<1> HIDE DEF C
<1>26. Ascending(C, sorts)
  <2> SUFFICES ASSUME NEW m \in DOMAIN C, NEW n \in DOMAIN C, m < n PROVE Precedes(C[m], C[n], sorts)
    BY DEF Ascending
  <2>1. PICK j, k : j = Len(B) - m + 1 /\ k = Len(B) - n + 1
    OBVIOUS
  <2>2. j \in DOMAIN B /\ k \in DOMAIN B /\ C[m] = B[j] /\ C[n] = B[k]
    BY <1>25, <2>1
  <2>3. k < j
    BY <1>9, <1>25, <2>1
  <2> QED
    BY <1>9, <1>10, <1>16, <2>2, <2>3
<1>27. Range(C) = Range(B)
  <2>1. \A n \in DOMAIN B : C[n] \in Range(B)
    BY <1>25 DEF Range
  <2>2. \A n \in DOMAIN B : B[n] \in Range(C)
    <3> TAKE n \in DOMAIN B
    <3>1. PICK k : k = Len(B) - n + 1
      OBVIOUS
    <3>2. k \in DOMAIN B /\ Len(B) - k + 1 = n
      BY <1>9, <1>25, <3>1
    <3>3. C[k] = B[n]
      BY <1>25, <3>2
    <3> QED
      BY <1>25, <3>2, <3>3 DEF Range
  <2> QED
    BY <1>25, <2>1, <2>2 DEF Range
<1>28. Ascending(M, sorts) /\ M \in Seq(Stored) /\ C \in Seq(Stored)
  BY <1>3, <1>9, <1>25, SeqMonotonic DEF Ascending
<1>29. C = M
  BY <1>1, <1>24, <1>26, <1>27, <1>28, SortedOnce
<1> QED
  BY <1>29 DEF C, B, M

\* The rows of a page, as its request asks for them.
OwnPage(p, s) ==
    p.ids = IF walk = "index" THEN (IF s.before THEN Reverse(Models(s)) ELSE Models(s))
            ELSE Limited(RawRows(s), s, s.size)

\* The rows of an answer are those of its request, without what Answered says
\* of its links.
LEMMA OwnRows ==
    ASSUME RowsTyped, NEW r, Proper(r), r \in Seq(Linkable), NEW s, s = Spec(r), s.error = None,
           NEW count, count = None \/ count \in 0 .. MaxOffset, NEW p, p = Answer(r, s, count)
    PROVE  OwnPage(p, s)
<1>1. PICK a : a = Answer(r, Spec(r), count)
  OBVIOUS
<1>2. /\ walk = "index" => a.ids = (IF Spec(r).before THEN Reverse(Models(Spec(r))) ELSE Models(Spec(r)))
      /\ walk # "index" => a.ids = Limited(RawRows(Spec(r)), Spec(r), Spec(r).size)
  BY <1>1, Answered
<1>3. a = p
  BY <1>1
<1>4. /\ walk = "index" => p.ids = (IF s.before THEN Reverse(Models(s)) ELSE Models(s))
      /\ walk # "index" => p.ids = Limited(RawRows(s), s, s.size)
  BY <1>2, <1>3
<1>5. CASE walk = "index"
  BY <1>4, <1>5 DEF OwnPage
<1>6. CASE walk # "index"
  BY <1>4, <1>6 DEF OwnPage
<1> QED
  BY <1>5, <1>6

\* What a link that leads on keeps, by name.
LEMMA LedOn ==
    ASSUME NEW r, NEW l, Leads(l, r)
    PROVE  /\ Proper(l) /\ l \in Seq(Linkable)
           /\ Spec(l).error = None /\ (Spec(l).cursor = None) = (Spec(r).cursor = None)
           /\ SameAsk(Spec(l), Spec(r))
<1>1. SameAsk(Spec(l), Spec(r))
  BY DEF Leads
<1>2. Spec(l).error = None
  BY <1>1 DEF SameAsk
<1> QED
  BY <1>1, <1>2 DEF Leads

\* Of three requests that ask for the same, the last asks for what the first does.
LEMMA AskedOn ==
    ASSUME NEW s, NEW s2, NEW t, SameAsk(s2, s), SameAsk(t, s2)
    PROVE  SameAsk(t, s)
  BY DEF SameAsk

\* By page number, the page before the next is read like the page itself.
LEMMA BackByNumber ==
    ASSUME RowsTyped, NEW r, Sent(r), NEW count, count = None \/ count \in 0 .. MaxOffset,
           NEW s, s = Spec(r), s.cursor = None, NEW p, p = Answer(r, s, count),
           NEW q, q = p.links.next, q # None, NEW ahead, ahead = Answer(q, Spec(q), count),
           NEW b, b = ahead.links.prev
    PROVE  b # None /\ Answer(b, Spec(b), count).ids = p.ids
<1>1. Proper(r) /\ r \in Seq(Linkable) /\ s.error = None
  BY DEF Sent
<1>2. SpecTyped(s) /\ ~ s.before /\ s.number \in Nat \ {0} /\ s.size \in Nat \ {0} /\ OffsetAccepted(s)
  <2>1. SpecTyped(s)
    BY <1>1, SpecOf
  <2> QED
    BY <2>1 DEF SpecTyped
<1>3. /\ OwnPage(p, s) /\ LinksLead(r, p.links)
      /\ Spec(q).number = s.number + 1
  <2>1. OnwardOf(r, p.links) = q
    BY <1>2 DEF OnwardOf
  <2> QED
    BY <1>1, <2>1, Answered DEF OwnPage
<1>4. Leads(q, r)
  BY <1>3 DEF LinksLead, LinkFields
<1>a. PICK s2 : s2 = Spec(q)
  OBVIOUS
<1>5. /\ Proper(q) /\ q \in Seq(Linkable) /\ s2.error = None /\ s2.cursor = None
      /\ SameAsk(s2, s)
  BY <1>a, <1>4, LedOn
<1>6. s2.number - 1 = s.number /\ s2.number > 1
  BY <1>a, <1>2, <1>3
<1>7. ahead.links.prev = ToNumber(q, s2.number - 1)
  <2>1. \A more : OffsetLinks(q, s2, count, more).prev = IF s2.number > 1 THEN ToNumber(q, s2.number - 1) ELSE None
    BY <1>a DEF OffsetLinks, ToNumber
  <2>2. \E more : ahead.links = OffsetLinks(q, s2, count, more)
    BY <1>a, <1>5 DEF Answer
  <2> QED
    BY <1>6, <2>1, <2>2
<1>8. b = ToNumber(q, s.number)
  BY <1>6, <1>7
<1>9. /\ b # None /\ Leads(b, q)
      /\ Spec(b).number = s.number /\ ~ Spec(b).before
  <2>1. (s.number - 1) * s2.size <= MaxOffset
    BY <1>2, <1>5 DEF SameAsk, OffsetAccepted
  <2> QED
    BY <1>a, <1>2, <1>5, <1>8, <2>1, NumberFollowed
<1>b. PICK t : t = Spec(b)
  OBVIOUS
<1>10. /\ Proper(b) /\ b \in Seq(Linkable) /\ t.error = None /\ t.cursor = None
       /\ SameAsk(t, s)
  <2>1. /\ Proper(b) /\ b \in Seq(Linkable) /\ t.error = None
        /\ (t.cursor = None) = (s2.cursor = None) /\ SameAsk(t, s2)
    <3>1. Leads(b, q)
      BY <1>9
    <3> QED
      <4>1. /\ Proper(b) /\ b \in Seq(Linkable)
            /\ (Spec(b).cursor = None) = (Spec(q).cursor = None) /\ SameAsk(Spec(b), Spec(q))
        BY <3>1 DEF Leads
      <4>2. Spec(b).error = None
        BY <4>1 DEF SameAsk
      <4> QED
        BY <1>a, <1>b, <4>1, <4>2
  <2>2. SameAsk(t, s)
    BY <1>5, <2>1, AskedOn
  <2> QED
    BY <1>5, <2>1, <2>2
<1>c. PICK back : back = Answer(b, t, count)
  OBVIOUS
<1>11. OwnPage(back, t)
  BY <1>b, <1>c, <1>10, OwnRows
<1>12. t.before = s.before /\ t.size = s.size /\ t.number = s.number
  <2>1. t.before \in BOOLEAN
    BY <1>b, <1>10, SpecOf DEF SpecTyped
  <2>2. s.before \in BOOLEAN
    BY <1>2 DEF SpecTyped
  <2> QED
    BY <1>b, <1>2, <1>9, <1>10, <2>1, <2>2 DEF SameAsk
<1>13. RawRows(t) = RawRows(s)
  BY <1>10, <1>12, SameRows DEF SameAsk
<1>14. \A rows, limit : Limited(rows, t, limit) = Limited(rows, s, limit)
  BY <1>10, <1>12 DEF Limited
<1>15. Models(t) = Models(s)
  <2>1. Window(t) = Window(s)
    BY <1>12, <1>13, <1>14 DEF Window
  <2> QED
    BY <1>12, <2>1 DEF Models
<1>16. back.ids = p.ids
  <2>1. CASE walk = "index"
    BY <1>2, <1>3, <1>11, <1>12, <1>15, <2>1 DEF OwnPage
  <2>2. CASE walk # "index"
    <3>1. back.ids = Limited(RawRows(t), t, t.size) /\ p.ids = Limited(RawRows(s), s, s.size)
      BY <1>3, <1>11, <2>2 DEF OwnPage
    <3> QED
      BY <1>12, <1>13, <1>14, <3>1
  <2> QED
    BY <2>1, <2>2
<1> QED
  BY <1>b, <1>c, <1>9, <1>16

\* The links of a page by cursor are made at its first row and its last.
LEMMA CursorLinksOf ==
    ASSUME walk = "index", NEW r, NEW s, s.cursor # None, NEW count,
           NEW rows, rows = IndexPage(s).ids, rows # <<>>
    PROVE  \E more, c : Answer(r, s, count).links = CursorLinks(r, s, more, c, CursorAt(rows[1], s))
<1>1. PICK read : read = IndexPage(s)
  OBVIOUS
<1>2. PICK c, d : c = CursorAt(read.ids[Len(read.ids)], s) /\ d = CursorAt(read.ids[1], s)
  OBVIOUS
<1>3. read.ids # <<>> /\ d = CursorAt(rows[1], s)
  BY <1>1, <1>2
<1>4. Answer(r, s, count).links = CursorLinks(r, s, read.hasMore, c, d)
  BY <1>1, <1>2, <1>3 DEF Answer
<1> QED
  BY <1>3, <1>4

\* By cursor, it is read backwards from its first row.
LEMMA BackByCursor ==
    ASSUME RowsTyped, \A i \in Ids : copies[i] = 1,
           NEW r, Sent(r), NEW count, count = None \/ count \in 0 .. MaxOffset,
           NEW s, s = Spec(r), s.cursor # None, ~ s.before, NEW p, p = Answer(r, s, count),
           NEW q, q = p.links.next, q # None, NEW ahead, ahead = Answer(q, Spec(q), count), ahead.ids # <<>>,
           NEW b, b = ahead.links.prev
    PROVE  b # None /\ Answer(b, Spec(b), count).ids = p.ids
<1>1. Proper(r) /\ r \in Seq(Linkable) /\ s.error = None
  BY DEF Sent
<1>2. SpecTyped(s) /\ walk = "index"
  BY <1>1, SpecOf
<1>a. PICK s2 : s2 = Spec(q)
  OBVIOUS
<1> DEFINE M == Models(s)
           A == Models(s2)
           d == CursorAt(A[1], s2)
<1>3. /\ p.ids = M /\ LinksLead(r, p.links)
      /\ Len(Window(s)) > s.size
      /\ Len(M) \in DOMAIN M
      /\ s2.cursor = CursorAt(M[Len(M)], s) /\ Minted(s2.cursor, s) /\ s2.before = s.before
  <2>1. OnwardOf(r, p.links) = q
    BY DEF OnwardOf
  <2> QED
    BY <1>a, <1>1, <1>2, <2>1, Answered
<1>4. Leads(q, r)
  BY <1>3 DEF LinksLead, LinkFields
<1>5. /\ Proper(q) /\ q \in Seq(Linkable) /\ s2.error = None /\ s2.cursor # None /\ ~ s2.before
      /\ SameAsk(s2, s)
  <2>1. /\ Proper(q) /\ q \in Seq(Linkable) /\ s2.error = None
        /\ (s2.cursor = None) = (s.cursor = None) /\ SameAsk(s2, s)
    BY <1>a, <1>4, LedOn
  <2> QED
    BY <1>3, <2>1
<1>6. SpecTyped(s2)
  BY <1>a, <1>5, SpecOf
<1>7. ahead.ids = A
  <2>1. ahead = Answer(q, s2, count)
    BY <1>a
  <2>2. OwnPage(ahead, s2)
    BY <1>a, <1>5, <2>1, OwnRows
  <2> QED
    BY <1>2, <1>5, <2>2 DEF OwnPage
<1> HIDE DEF M, A
<1>8. A \in Seq(Keyset(s2)) /\ DOMAIN A = 1 .. Len(A)
  BY <1>2, <1>5, <1>6, CursorPage DEF A
<1>9. 1 \in DOMAIN A /\ A[1] \in Keyset(s2)
  BY <1>7, <1>8, EmptySeq, ElementOfSeq
<1>10. s2.cursor # Boundary
  <2>1. M \in Seq(Keyset(s)) /\ DOMAIN M = 1 .. Len(M)
    BY <1>2, CursorPage DEF M
  <2>2. M[Len(M)] \in Keyset(s)
    BY <1>3, <2>1, ElementOfSeq
  <2> QED
    BY <1>2, <1>3, <1>5, <2>2, MintedAt DEF Minted
<1>11. Minted(d, s2) /\ d # None
  BY <1>5, <1>6, <1>9, MintedAt
<1>12. b = ToCursor(q, "before", d)
  <2>1. IndexPage(s2).ids = A
    BY <1>5, IndexPageIs DEF A
  <2>2. A # <<>>
    BY <1>7
  <2>3. \E more, c : ahead.links = CursorLinks(q, s2, more, c, d)
    <3>1. ahead = Answer(q, s2, count)
      BY <1>a
    <3>2. \E more, c : Answer(q, s2, count).links = CursorLinks(q, s2, more, c, d)
      BY <1>2, <1>5, <2>1, <2>2, CursorLinksOf
    <3> QED
      BY <3>1, <3>2
  <2>4. \A more, c : CursorLinks(q, s2, more, c, d).prev = ToCursor(q, "before", d)
    BY <1>a, <1>5, <1>10, <1>11 DEF CursorLinks, ToCursor
  <2> QED
    BY <2>3, <2>4
<1> HIDE DEF d
<1>13. b # None /\ Leads(b, q) /\ Spec(b).cursor = d /\ Spec(b).before
  <2>1. d \in Cursors /\ CursorAccepted(d, s2.sorts)
    BY <1>11 DEF Minted
  <2>2. \A name \in {"after", "before"} :
            /\ ToCursor(q, name, d) # None /\ Leads(ToCursor(q, name, d), q)
            /\ Spec(ToCursor(q, name, d)).cursor = d
            /\ Spec(ToCursor(q, name, d)).before = (name = "before")
    BY <1>a, <1>2, <1>5, <2>1, CursorFollowed
  <2>3. "before" \in {"after", "before"}
    OBVIOUS
  <2> QED
    BY <1>12, <2>2, <2>3
<1>b. PICK t : t = Spec(b)
  OBVIOUS
<1>14. /\ Proper(b) /\ b \in Seq(Linkable) /\ t.error = None
       /\ SameAsk(t, s2) /\ SameAsk(t, s)
  <2>1. Leads(b, q)
    BY <1>13
  <2>2. Proper(b) /\ b \in Seq(Linkable) /\ t.error = None /\ SameAsk(t, s2)
    <3>1. Proper(b) /\ b \in Seq(Linkable) /\ Spec(b).error = None /\ SameAsk(Spec(b), Spec(q))
      BY <2>1, LedOn
    <3> QED
      BY <1>a, <1>b, <3>1
  <2>3. SameAsk(t, s)
    BY <1>5, <2>2, AskedOn
  <2> QED
    BY <2>2, <2>3
<1>15. SpecTyped(t)
  BY <1>b, <1>14, SpecOf
<1>16. Answer(b, t, count).ids = Reverse(Models(t))
  <2>1. PICK back : back = Answer(b, t, count)
    OBVIOUS
  <2>2. OwnPage(back, t)
    BY <1>b, <1>14, <2>1, OwnRows
  <2>3. t.before
    BY <1>b, <1>13
  <2> QED
    BY <1>2, <2>1, <2>2, <2>3 DEF OwnPage
<1>17. Reverse(Models(t)) = M
  <2>1. t.sorts = s.sorts /\ t.filters = s.filters /\ t.size = s.size /\ s2.sorts = s.sorts /\ s2.filters = s.filters
    BY <1>5, <1>14 DEF SameAsk
  <2>2. t.cursor = CursorAt(Models(s2)[1], s2) /\ t.before
    BY <1>b, <1>13 DEF d, A
  <2>3. s2.cursor = CursorAt(Models(s)[Len(Models(s))], s)
    BY <1>3 DEF M
  <2>4. 1 \in DOMAIN Models(s2)
    BY <1>9 DEF A
  <2> QED
    BY <1>2, <1>3, <1>5, <1>6, <1>15, <2>1, <2>2, <2>3, <2>4, BackAgain DEF M
<1> QED
  BY <1>b, <1>3, <1>13, <1>16, <1>17

\* While nothing is written, the page that the next page calls the one before is
\* the page that was left, by number and by cursor, whatever the request asks for.
THEOREM ThereAndBackAgain == Walk => []ThereAndBack
<1>1. WalkTyped => ThereAndBack
  <2> SUFFICES ASSUME WalkTyped, page # None, page.links.next # None, \A i \in Ids : copies[i] = 1,
                      ~ Spec(request).before,
                      NEW ahead \in PageFor(page.links.next),
                      page = Answer(request, Spec(request), total), ahead.ids # <<>>
               PROVE  /\ ahead.links.prev # None
                      /\ \A back \in PageFor(ahead.links.prev) : back.ids = page.ids
    BY DEF ThereAndBack, PageFor
  <2>1. PICK r, p, s, q, b : /\ r = request /\ p = page /\ s = Spec(r) /\ q = p.links.next
                             /\ b = ahead.links.prev
    OBVIOUS
  <2>2. RowsTyped /\ Sent(r) /\ (total = None \/ total \in 0 .. MaxOffset)
    BY <2>1 DEF WalkTyped
  <2>3. p = Answer(r, s, total) /\ ahead = Answer(q, Spec(q), total) /\ q # None /\ ~ s.before
    BY <2>1 DEF PageFor
  <2>4. b # None /\ Answer(b, Spec(b), total).ids = p.ids
    <3>1. CASE s.cursor = None
      BY <2>1, <2>2, <2>3, <3>1, BackByNumber
    <3>2. CASE s.cursor # None
      BY <2>1, <2>2, <2>3, <3>2, BackByCursor
    <3> QED
      BY <3>1, <3>2
  <2> QED
    BY <2>1, <2>4 DEF PageFor
<1> QED
  BY <1>1, WalksAreTyped, PTL
================================================================================
