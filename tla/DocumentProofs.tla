---------------------------- MODULE DocumentProofs ----------------------------
(***************************************************************************)
(* What a request is answered with.  A compound document is read in full   *)
(* and linked in full, whatever the serializers declare, however deep the  *)
(* include paths go, and whatever is stored.  The status tells the truth,  *)
(* whatever controller the route belongs to.                               *)
(***************************************************************************)
EXTENDS DocumentInvariant, Routes, OrderProofs

-----------------------------------------------------------------------------
(* The include tree, and the types of its nodes.                           *)

Names == UNION {NamesOf(type) : type \in DOMAIN Relationships}

\* A path that is not the root is its front and its last segment.
LEMMA FrontLast ==
    ASSUME NEW S, NEW path \in Seq(S), path # << >>
    PROVE  /\ Front(path) \in Seq(S) /\ Last(path) \in S
           /\ Len(Front(path)) = Len(path) - 1
           /\ Append(Front(path), Last(path)) = path
<1>1. Len(path) \in Nat \ {0} /\ path = [n \in 1 .. Len(path) |-> path[n]]
  BY EmptySeq, LenProperties
<1>2. /\ Front(path) \in Seq(S) /\ Len(Front(path)) = Len(path) - 1
      /\ \A n \in 1 .. Len(path) - 1 : Front(path)[n] = path[n]
  BY <1>1, SubSeqProperties DEF Front
<1>3. Last(path) \in S
  BY <1>1, ElementOfSeq DEF Last
<1> DEFINE f == Front(path)
           whole == Append(f, Last(path))
<1> HIDE DEF f
<1>4. /\ whole \in Seq(S) /\ Len(whole) = Len(f) + 1 /\ whole[Len(f) + 1] = Last(path)
      /\ \A n \in 1 .. Len(f) : whole[n] = f[n]
  BY <1>2, <1>3, AppendProperties DEF f
<1>5. Len(whole) = Len(path) /\ \A n \in 1 .. Len(path) : whole[n] = path[n]
  <2>1. Len(f) = Len(path) - 1 /\ Len(path) = Len(f) + 1 /\ Last(path) = path[Len(path)]
    BY <1>1, <1>2 DEF f, Last
  <2> HIDE DEF whole
  <2>2. \A n \in 1 .. Len(path) : n \in 1 .. Len(f) \/ n = Len(path)
    BY <1>1, <2>1
  <2> QED
    BY <1>1, <1>2, <1>4, <2>1, <2>2 DEF f
<1> QED
  BY <1>2, <1>3, <1>4, <1>5, SeqEqual DEF f

LEMMA FrontLastOfAppend ==
    ASSUME NEW S, NEW path \in Seq(S), NEW r \in S
    PROVE  /\ Append(path, r) \in Seq(S) /\ Append(path, r) # << >>
           /\ Front(Append(path, r)) = path /\ Last(Append(path, r)) = r
  BY DEF Front, Last

\* The types of the resources along the first n segments of a path.
Typing(path, n, t) ==
    t = [k \in 0 .. n |-> IF k = 0 THEN primary ELSE Relationships[t[k - 1]][path[k]].target]

\* One step of it.
LEMMA TypingStep ==
    ASSUME NEW path, NEW n \in Nat, NEW t, Typing(path, n, t), NEW k \in 0 .. n, k # 0
    PROVE  t[k] = Relationships[t[k - 1]][path[k]].target
  BY DEF Typing

\* There are such types for every path,
LEMMA TypingExists ==
    ASSUME NEW path
    PROVE  \A n \in Nat : \E t : Typing(path, n, t)
<1> DEFINE T == {n \in Nat : \E t : Typing(path, n, t)}
<1>1. 0 \in T
  <2> DEFINE t == [k \in 0 .. 0 |-> primary]
  <2>1. Typing(path, 0, t)
    BY DEF Typing
  <2> QED
    BY <2>1
<1>2. ASSUME NEW n \in T PROVE n + 1 \in T
  <2>1. PICK t : Typing(path, n, t)
    OBVIOUS
  <2> DEFINE u == [k \in 0 .. n + 1 |-> IF k = n + 1 THEN Relationships[t[n]][path[n + 1]].target ELSE t[k]]
             v == [k \in 0 .. n + 1 |-> IF k = 0 THEN primary ELSE Relationships[u[k - 1]][path[k]].target]
  <2>2. \A k \in 0 .. n : t[k] = IF k = 0 THEN primary ELSE Relationships[t[k - 1]][path[k]].target
    BY <2>1 DEF Typing
  <2>3. ASSUME NEW k \in 0 .. n + 1 PROVE u[k] = v[k]
    <3>1. CASE k = n + 1
      <4>1. u[k] = Relationships[t[n]][path[n + 1]].target /\ k # 0 /\ k - 1 = n /\ u[k - 1] = t[n]
        BY <3>1
      <4> QED
        BY <3>1, <4>1
    <3>2. CASE k # n + 1
      <4>1. k \in 0 .. n /\ u[k] = t[k]
        BY <3>2
      <4>2. k # 0 => k - 1 \in 0 .. n /\ u[k - 1] = t[k - 1]
        BY <4>1
      <4> QED
        BY <2>2, <4>1, <4>2
    <3> QED
      BY <3>1, <3>2
  <2>4. u = v
    BY <2>3
  <2>5. Typing(path, n + 1, u)
    BY <2>4 DEF Typing
  <2> QED
    BY <2>5
<1> HIDE DEF T
<1>3. T = Nat
  BY <1>1, <1>2, AllNumbers DEF T
<1> QED
  BY <1>3 DEF T

\* and paths that begin alike have the same ones as far as they do.
LEMMA TypingUnique ==
    ASSUME NEW path, NEW other, NEW n \in Nat, NEW m \in Nat, n <= m, NEW t, NEW u,
           Typing(path, n, t), Typing(other, m, u), \A k \in 1 .. n : path[k] = other[k]
    PROVE  t[n] = u[n]
<1> DEFINE T == {k \in Nat : k <= n => t[k] = u[k]}
<1>1. 0 \in T
  BY DEF Typing
<1>2. ASSUME NEW k \in T PROVE k + 1 \in T
  <2> SUFFICES ASSUME k + 1 <= n PROVE t[k + 1] = u[k + 1]
    OBVIOUS
  <2>1. PICK j : j = k + 1
    OBVIOUS
  <2>2. j \in 0 .. n /\ j \in 0 .. m /\ j \in 1 .. n /\ j # 0 /\ j - 1 = k /\ t[k] = u[k]
    BY <2>1
  <2>3. t[j] = Relationships[t[k]][path[j]].target
    BY <2>2, TypingStep
  <2>4. u[j] = Relationships[u[k]][other[j]].target
    BY <2>2, TypingStep
  <2>5. path[j] = other[j]
    BY <2>2
  <2> QED
    BY <2>1, <2>2, <2>3, <2>4, <2>5
<1> HIDE DEF T
<1>3. T = Nat
  BY <1>1, <1>2, AllNumbers DEF T
<1> QED
  BY <1>3 DEF T

LEMMA TypeAtIs ==
    ASSUME NEW path, Len(path) \in Nat
    PROVE  \E t : Typing(path, Len(path), t) /\ TypeAt(path) = t[Len(path)]
  BY TypingExists DEF TypeAt, Typing

\* The root is of the primary type, and a relationship leads to its target.
LEMMA TypeAtRoot == TypeAt(<< >>) = primary
<1> DEFINE root == << >>
<1>1. Len(root) = 0 /\ Len(root) \in Nat
  OBVIOUS
<1> HIDE DEF root
<1>2. PICK t : Typing(root, 0, t) /\ TypeAt(root) = t[0]
  <2>1. \E t : Typing(root, Len(root), t) /\ TypeAt(root) = t[Len(root)]
    BY <1>1, TypeAtIs
  <2> QED
    BY <1>1, <2>1
<1>3. t[0] = primary
  BY <1>2 DEF Typing
<1> QED
  BY <1>2, <1>3 DEF root

LEMMA TypeAtAppend ==
    ASSUME NEW S, NEW path \in Seq(S), NEW r \in S
    PROVE  TypeAt(Append(path, r)) = Relationships[TypeAt(path)][r].target
<1> DEFINE n == Len(path)
           next == Append(path, r)
<1>1. n \in Nat /\ Len(next) = n + 1 /\ next[n + 1] = r /\ \A k \in 1 .. n : path[k] = next[k]
  BY AppendProperties
<1>2. PICK t : Typing(path, n, t) /\ TypeAt(path) = t[n]
  BY <1>1, TypeAtIs
<1> HIDE DEF n, next
<1>3. PICK u : Typing(next, n + 1, u) /\ TypeAt(next) = u[n + 1]
  <2>1. Len(next) \in Nat
    BY <1>1
  <2>2. \E u : Typing(next, Len(next), u) /\ TypeAt(next) = u[Len(next)]
    BY <2>1, TypeAtIs
  <2> QED
    BY <1>1, <2>2
<1>4. t[n] = u[n]
  BY <1>1, <1>2, <1>3, TypingUnique
<1>5. u[n + 1] = Relationships[u[n]][next[n + 1]].target
  <2>1. PICK m : m = n + 1
    OBVIOUS
  <2>2. m \in Nat /\ m \in 0 .. m /\ m # 0 /\ m - 1 = n
    BY <1>1, <2>1
  <2>3. u[m] = Relationships[u[m - 1]][next[m]].target
    BY <1>3, <2>1, <2>2, TypingStep
  <2> QED
    BY <2>1, <2>2, <2>3
<1> QED
  BY <1>1, <1>2, <1>3, <1>4, <1>5 DEF next
-----------------------------------------------------------------------------
(* What a request asks for does not change.                                *)

LEMMA TypesKept == UNCHANGED primary => \A path : TypeAt(path)' = TypeAt(path)
  BY DEF TypeAt

LEMMA OptionsKept == UNCHANGED asked => Options(includes)' = Options(includes)
<1> SUFFICES ASSUME UNCHANGED asked PROVE Options(includes)' = Options(includes)
  OBVIOUS
<1>1. primary' = primary /\ includes' = includes /\ linkageOnly' = linkageOnly
  BY DEF asked
<1>2. \A path : TypeAt(path)' = TypeAt(path)
  BY <1>1, TypesKept
<1>3. LoaderPaths(includes)' = LoaderPaths(includes)
  BY <1>1, <1>2 DEF LoaderPaths
<1>4. \A path : Skipped(path)' = Skipped(path)
  BY <1>1, <1>2 DEF Skipped, Narrowed, DefinitionAt
<1> QED
  BY <1>1, <1>3, <1>4 DEF Options

LEMMA TreeKept ==
    UNCHANGED asked => TreeInv' = TreeInv /\ Nodes' = Nodes /\ Roots' = Roots
                       /\ \A path : Narrowed(path)' = Narrowed(path)
<1> SUFFICES ASSUME UNCHANGED asked
             PROVE  TreeInv' = TreeInv /\ Nodes' = Nodes /\ Roots' = Roots
                    /\ \A path : Narrowed(path)' = Narrowed(path)
  OBVIOUS
<1>1. primary' = primary /\ includes' = includes /\ primaries' = primaries /\ linkageOnly' = linkageOnly
  BY DEF asked
<1>2. \A path : TypeAt(path)' = TypeAt(path)
  BY <1>1, TypesKept
<1>3. TreeInv' = TreeInv
  BY <1>1, <1>2 DEF TreeInv, Nodes
<1> QED
  BY <1>1, <1>3 DEF Nodes, Roots, Narrowed
-----------------------------------------------------------------------------
(* Declarations and loader paths.                                          *)

LEMMA DeclaredTypes ==
    ASSUME NEW type \in DOMAIN Relationships, NEW r \in NamesOf(type)
    PROVE  /\ Relationships[type][r].target \in DOMAIN Relationships
           /\ Relationships[type][r].linkage => ~ Relationships[type][r].many
           /\ ~ Relationships[type][r].many => r \in OwnedBy(type)
           /\ Relationships[type][r].inverse = Nil <=> r \in OwnedBy(type)
           /\ Relationships[type][r].inverse # Nil =>
                Relationships[type][r].inverse \in OwnedBy(Relationships[type][r].target)
           /\ r \in Names
  BY DeclarationAssumption DEF OwnedBy, Names

\* The same for a row.
LEMMA DeclaredOf ==
    ASSUME NEW o \in Objects, NEW r \in NamesOf(TypeOf[o])
    PROVE  /\ Definition(o, r).linkage => ~ Definition(o, r).many
           /\ ~ Definition(o, r).many => r \in OwnedBy(TypeOf[o])
           /\ Definition(o, r).inverse = Nil <=> r \in OwnedBy(TypeOf[o])
           /\ Definition(o, r).inverse # Nil =>
                \A x \in OfType(Definition(o, r).target) : Definition(o, r).inverse \in OwnedBy(TypeOf[x])
<1>1. TypeOf[o] \in DOMAIN Relationships
  BY GraphAssumption
<1> QED
  BY <1>1, DeclaredTypes DEF Definition, OfType

\* A set of objects is not Nil.
LEMMA SetsLoaded == \A objects \in SUBSET Objects : objects # Nil
  BY GraphAssumption

\* Each relationship of a node is read by the path that it appends to it, or its
\* foreign key will do.
LEMMA PathOfNode ==
    ASSUME TreeInv, NEW b \in Nodes, NEW r \in NamesOf(TypeAt(b))
    PROVE  /\ Front(Append(b, r)) = b /\ Last(Append(b, r)) = r
           /\ TypeAt(Append(b, r)) = Relationships[TypeAt(b)][r].target
           /\ Append(b, r) \in Options(includes)
              \/ (Relationships[TypeAt(b)][r].linkage /\ Append(b, r) \notin includes)
<1>1. b \in Seq(Names) /\ TypeAt(b) \in DOMAIN Relationships
  BY EmptySeq DEF TreeInv, Nodes, Names
<1>2. r \in Names
  BY <1>1, DeclaredTypes
<1>3. Front(Append(b, r)) = b /\ Last(Append(b, r)) = r
  BY <1>1, <1>2, FrontLastOfAppend
<1>4. TypeAt(Append(b, r)) = Relationships[TypeAt(b)][r].target
  BY <1>1, <1>2, TypeAtAppend
<1>5. Append(b, r) \in LoaderPaths(includes)
  BY DEF LoaderPaths, Nodes
<1>6. \/ Append(b, r) \in Options(includes)
      \/ (Relationships[TypeAt(b)][r].linkage /\ Append(b, r) \notin includes)
  BY <1>3, <1>5 DEF Options, Skipped, Narrowed, DefinitionAt
<1> QED
  BY <1>3, <1>4, <1>6

\* Each loader path starts from a node of the tree.
LEMMA NodeOfPath ==
    ASSUME TreeInv, NEW p \in Options(includes)
    PROVE  /\ Front(p) \in Nodes /\ Last(p) \in NamesOf(TypeAt(Front(p)))
           /\ Append(Front(p), Last(p)) = p /\ p # << >> /\ Front(p) # p
           /\ TypeAt(p) = Relationships[TypeAt(Front(p))][Last(p)].target
           /\ TypeAt(Front(p)) \in DOMAIN Relationships
           /\ Relinked[primary] # {} => Front(p) = << >>
<1>0. PICK b \in Nodes : p \in {Append(b, r) : r \in NamesOf(TypeAt(b))}
  BY DEF Options, LoaderPaths, Nodes
<1>1. PICK r \in NamesOf(TypeAt(b)) : p = Append(b, r)
  BY <1>0
<1>2. b \in Seq(Names) /\ TypeAt(b) \in DOMAIN Relationships
  BY EmptySeq DEF TreeInv, Nodes, Names
<1>3. r \in Names
  BY <1>2, DeclaredTypes
<1>4. Front(p) = b /\ Last(p) = r /\ p # << >> /\ TypeAt(p) = Relationships[TypeAt(b)][r].target
  BY <1>1, <1>2, <1>3, FrontLastOfAppend, TypeAtAppend
<1>5. p # b
  BY <1>1, <1>2, <1>3, AppendProperties
<1>6. ASSUME Relinked[primary] # {}, b # << >> PROVE FALSE
  <2>1. b \in includes /\ Front(b) = << >> /\ Last(b) \in NamesOf(TypeAt(Front(b)))
    BY <1>6 DEF TreeInv, Nodes
  <2>2. TypeAt(Front(b)) = primary
    BY <2>1, TypeAtRoot
  <2>3. b = Append(Front(b), Last(b)) /\ Front(b) \in Seq(Names) /\ Last(b) \in Names
    BY <1>2, <1>6, FrontLast
  <2>4. TypeAt(b) = Relationships[primary][Last(b)].target
    BY <2>2, <2>3, TypeAtAppend
  <2> QED
    BY <1>1, <1>6, <2>1, <2>2, <2>4, RelinkedAssumption DEF TreeInv
<1> QED
  BY <1>1, <1>2, <1>4, <1>5, <1>6

\* An include path is a loader path, and is loaded in full.
LEMMA IncludesRead ==
    ASSUME TreeInv, NEW b \in includes
    PROVE  b \in Options(includes) /\ ~ Narrowed(b)
<1>1. b \in Seq(Names) /\ b # << >> /\ Front(b) \in Nodes /\ Last(b) \in NamesOf(TypeAt(Front(b)))
  BY DEF TreeInv, Names
<1>2. Append(Front(b), Last(b)) = b
  BY <1>1, FrontLast
<1> QED
  BY <1>1, <1>2, PathOfNode DEF Narrowed
-----------------------------------------------------------------------------
(* The tree of a request.                                                  *)

Prefix(path, n) == SubSeq(path, 1, n)

LEMMA PrefixFacts ==
    ASSUME NEW S, NEW path \in Seq(S), NEW n \in 0 .. Len(path)
    PROVE  /\ Prefix(path, n) \in Seq(S) /\ Len(Prefix(path, n)) = n
           /\ \A k \in 1 .. n : Prefix(path, n)[k] = path[k]
           /\ n = 0 => Prefix(path, n) = << >>
           /\ n # 0 => /\ Front(Prefix(path, n)) = Prefix(path, n - 1)
                       /\ Last(Prefix(path, n)) = path[n]
                       /\ Prefix(path, n) # << >>
<1>1. Len(path) \in Nat /\ n \in Nat /\ n <= Len(path)
  BY LenProperties
<1>2. \A m \in 0 .. Len(path) :
        /\ Prefix(path, m) \in Seq(S) /\ Len(Prefix(path, m)) = m
        /\ \A k \in 1 .. m : Prefix(path, m)[k] = path[k]
  BY <1>1, SubSeqProperties DEF Prefix
<1> DEFINE b == Prefix(path, n)
           a == Prefix(path, n - 1)
<1>3. b \in Seq(S) /\ Len(b) = n /\ \A k \in 1 .. n : b[k] = path[k]
  BY <1>2
<1>4. n # 0 => a \in Seq(S) /\ Len(a) = n - 1 /\ \A k \in 1 .. n - 1 : a[k] = path[k]
  BY <1>1, <1>2
<1> HIDE DEF a, b
<1>5. n = 0 => b = << >>
  BY <1>3, EmptySeq
<1>6. ASSUME n # 0 PROVE Front(b) = a /\ Last(b) = path[n] /\ b # << >>
  <2>1. b # << >> /\ n \in 1 .. n
    BY <1>1, <1>3, <1>6, EmptySeq
  <2>2. Last(b) = path[n]
    BY <1>3, <2>1 DEF Last
  <2>3. Front(b) \in Seq(S) /\ Len(Front(b)) = n - 1
    BY <1>3, <2>1, FrontLast
  <2>4. \A k \in 1 .. n - 1 : Front(b)[k] = path[k]
    BY <1>1, <1>3, <1>6, SubSeqProperties DEF Front
  <2>5. Front(b) = a
    BY <1>1, <1>4, <1>6, <2>3, <2>4, SeqEqual
  <2> QED
    BY <2>1, <2>2, <2>5
<1>7. /\ b \in Seq(S) /\ Len(b) = n /\ \A k \in 1 .. n : b[k] = path[k]
      /\ n = 0 => b = << >>
      /\ n # 0 => Front(b) = a /\ Last(b) = path[n] /\ b # << >>
  BY <1>3, <1>5, <1>6
<1> QED
  BY <1>7 DEF a, b

LEMMA TreeInit == DocumentInit => TreeInv
<1> SUFFICES ASSUME DocumentInit PROVE TreeInv
  OBVIOUS
<1>1. PICK paths \in IncludeSets[primary] : includes = IncludeTree(paths)
  BY DEF DocumentInit
<1>2. primary \in DOMAIN IncludeSets /\ primaries \subseteq OfType(primary)
  BY DEF DocumentInit
<1>3. primary \in DOMAIN Relationships
  BY <1>2, GraphAssumption
<1>4. ASSUME NEW path \in paths
      PROVE  /\ path \in Seq(Names)
             /\ \A n \in 0 .. Len(path) : TypeAt(Prefix(path, n)) \in DOMAIN Relationships
             /\ \A n \in 1 .. Len(path) : path[n] \in NamesOf(TypeAt(Prefix(path, n - 1)))
             /\ Relinked[primary] # {} => Len(path) <= 1
  <2>1. PICK type \in [0 .. Len(path) -> DOMAIN Relationships] :
            /\ path \in Seq(Names)
            /\ type[0] = primary
            /\ \A n \in 1 .. Len(path) : /\ path[n] \in NamesOf(type[n - 1])
                                         /\ type[n] = Relationships[type[n - 1]][path[n]].target
    BY <1>1, <1>2, IncludesAssumption DEF Names
  <2>2. Len(path) \in Nat
    BY <2>1, LenProperties
  <2>3. Typing(path, Len(path), type)
    <3> DEFINE u == [k \in 0 .. Len(path) |->
                        IF k = 0 THEN primary ELSE Relationships[type[k - 1]][path[k]].target]
    <3>1. \A k \in 0 .. Len(path) : k = 0 \/ k \in 1 .. Len(path)
      BY <2>2
    <3>2. \A k \in 0 .. Len(path) : u[k] = type[k]
      BY <2>1, <3>1
    <3>3. u = type
      BY <2>1, <3>2
    <3> QED
      BY <3>3 DEF Typing
  <2>4. ASSUME NEW n \in 0 .. Len(path) PROVE TypeAt(Prefix(path, n)) = type[n]
    <3> DEFINE b == Prefix(path, n)
    <3>1. Len(b) = n /\ \A k \in 1 .. n : b[k] = path[k]
      BY <2>1, PrefixFacts
    <3> HIDE DEF b
    <3>2. n \in Nat /\ n <= Len(path) /\ Len(b) \in Nat
      BY <2>2, <3>1
    <3>3. PICK t : Typing(b, Len(b), t) /\ TypeAt(b) = t[Len(b)]
      BY <3>2, TypeAtIs
    <3>4. Typing(b, n, t)
      BY <3>1, <3>3
    <3>5. t[n] = type[n]
      BY <2>2, <2>3, <3>1, <3>2, <3>4, TypingUnique
    <3> QED
      BY <3>1, <3>3, <3>5 DEF b
  <2>5. \A n \in 1 .. Len(path) : n - 1 \in 0 .. Len(path)
    BY <2>2
  <2>6. ASSUME Relinked[primary] # {}, ~ (Len(path) <= 1) PROVE FALSE
    <3>1. 1 \in 1 .. Len(path) /\ 2 \in 1 .. Len(path) /\ 2 - 1 = 1 /\ 1 - 1 = 0
      BY <2>2, <2>6
    <3>2. path[1] \in NamesOf(primary) /\ type[1] = Relationships[primary][path[1]].target
      BY <2>1, <3>1
    <3>3. path[2] \in NamesOf(type[1])
      BY <2>1, <3>1
    <3> QED
      BY <1>2, <2>6, <3>2, <3>3, RelinkedAssumption
  <2>7. \A n \in 0 .. Len(path) : TypeAt(Prefix(path, n)) \in DOMAIN Relationships
    BY <2>1, <2>4
  <2>8. ASSUME NEW n \in 1 .. Len(path) PROVE path[n] \in NamesOf(TypeAt(Prefix(path, n - 1)))
    <3>1. PICK m : m = n - 1
      OBVIOUS
    <3>2. m \in 0 .. Len(path) /\ TypeAt(Prefix(path, m)) = type[m]
      BY <2>4, <2>5, <2>8, <3>1
    <3>3. path[n] \in NamesOf(type[m])
      BY <2>1, <2>8, <3>1
    <3> QED
      BY <3>1, <3>2, <3>3
  <2>9. path \in Seq(Names)
    BY <2>1
  <2> QED
    BY <2>6, <2>7, <2>8, <2>9
<1>5. ASSUME NEW b \in includes
      PROVE  /\ b \in Seq(Names) /\ b # << >>
             /\ Front(b) \in Nodes /\ Last(b) \in NamesOf(TypeAt(Front(b)))
             /\ TypeAt(b) \in DOMAIN Relationships
             /\ Relinked[primary] # {} => Front(b) = << >>
  <2>1. PICK path \in paths : b \in {Prefix(path, n) : n \in 1 .. Len(path)}
    BY <1>1 DEF IncludeTree, Prefix
  <2>2. PICK n \in 1 .. Len(path) : b = Prefix(path, n)
    BY <2>1
  <2>3. path \in Seq(Names) /\ Len(path) \in Nat
    BY <1>4, LenProperties
  <2>4. n \in 0 .. Len(path) /\ n # 0 /\ n - 1 \in 0 .. Len(path)
    BY <2>3
  <2>5. /\ b \in Seq(Names) /\ b # << >>
        /\ Front(b) = Prefix(path, n - 1) /\ Last(b) = path[n]
    BY <2>2, <2>3, <2>4, PrefixFacts
  <2>6. TypeAt(b) \in DOMAIN Relationships /\ Last(b) \in NamesOf(TypeAt(Front(b)))
    BY <1>4, <2>2, <2>4, <2>5
  <2>7. n = 1 => Front(b) = << >>
    BY <2>3, <2>4, <2>5, PrefixFacts
  <2>8. n # 1 => Front(b) \in includes
    <3> SUFFICES ASSUME n # 1 PROVE Front(b) \in includes
      OBVIOUS
    <3>1. n - 1 \in 1 .. Len(path)
      BY <2>3
    <3>2. Front(b) \in {Prefix(path, k) : k \in 1 .. Len(path)}
      BY <2>5, <3>1
    <3> QED
      BY <1>1, <3>2 DEF IncludeTree, Prefix
  <2>9. Relinked[primary] # {} => n = 1
    BY <1>4, <2>3
  <2> QED
    BY <2>5, <2>6, <2>7, <2>8, <2>9 DEF Nodes
<1> QED
  BY <1>2, <1>3, <1>5, TypeAtRoot DEF TreeInv, Nodes, Names
-----------------------------------------------------------------------------
(* The initial states, and the parts that a step does not touch.           *)

\* Where the serializer has not started there is nothing to be wrong.
Fresh ==
    /\ ~ failed /\ visited = {} /\ included = {} /\ linkage = NotLoaded
    /\ pending \subseteq Roots /\ (Begun => pending = Roots)

LEMMA FreshWalk == Fresh => WalkInv
  BY DEF Fresh, WalkInv, NotLoaded

LEMMA InitInv == DocumentInit => DocumentInv
<1> SUFFICES ASSUME DocumentInit PROVE DocumentInv
  OBVIOUS
<1>1. TreeInv
  BY TreeInit
<1>2. primary \in DOMAIN IncludeSets /\ links \in Graphs[primary]
  BY DEF DocumentInit
<1>3. at = << >> /\ DOMAIN at = {} /\ ~ Begun
  BY DEF DocumentInit, Begun
<1>4. RowsInv
  BY <1>2, GraphAssumption DEF RowsInv, WellTyped, Definition
<1>5. CacheInv
  BY DEF DocumentInit, CacheInv, NotLoaded
<1>6. OrderInv
  BY <1>3 DEF DocumentInit, OrderInv
<1>7. PathsInv
  BY <1>3 DEF DocumentInit, PathsInv
<1>8. AgreeInv
  <2>1. \A o \in Objects : \A r \in NamesOf(TypeOf[o]) : loaded[o][r] = Nil
    BY DEF DocumentInit, NotLoaded
  <2>2. ASSUME Relinked[primary] # {}, NEW p \in unread, NEW o \in primaries
        PROVE  loaded[o][Last(p)] = Nil
    <3>1. Front(p) = << >> /\ Last(p) \in NamesOf(TypeAt(Front(p)))
      BY <1>1, <2>2, NodeOfPath DEF DocumentInit
    <3>2. o \in Objects /\ TypeOf[o] = primary
      BY <1>1 DEF TreeInv, OfType
    <3> QED
      BY <2>1, <3>1, <3>2, TypeAtRoot
  <2> QED
    BY <2>1, <2>2 DEF DocumentInit, AgreeInv
<1>9. WalkInv
  BY <1>3, FreshWalk DEF DocumentInit, Fresh
<1> QED
  BY <1>1, <1>4, <1>5, <1>6, <1>7, <1>8, <1>9 DEF DocumentInv

LEMMA CacheKept ==
    UNCHANGED <<asked, cache>> /\ CacheInv /\ PathsInv => CacheInv' /\ PathsInv'
<1> SUFFICES ASSUME UNCHANGED <<asked, cache>>, CacheInv, PathsInv PROVE CacheInv' /\ PathsInv'
  OBVIOUS
<1>1. /\ UNCHANGED asked /\ primary' = primary /\ includes' = includes
      /\ unread' = unread /\ at' = at /\ columns' = columns
      /\ foreignKeys' = foreignKeys /\ loaded' = loaded
  BY DEF asked, cache
<1>2. CacheInv'
  BY <1>1 DEF CacheInv, WellTyped
<1>3. Options(includes)' = Options(includes) /\ \A path : TypeAt(path)' = TypeAt(path)
  BY <1>1, OptionsKept, TypesKept
<1>4. Nodes' = Nodes /\ \A path : Narrowed(path)' = Narrowed(path)
  BY <1>1, TreeKept
<1>5. PathsInv'
  BY <1>1, <1>3, <1>4 DEF PathsInv, Begun
<1> QED
  BY <1>2, <1>5

LEMMA ObjectsKept ==
    UNCHANGED cache => \A o : Loaded(o)' = Loaded(o) /\ \A r : LinkageOf(o, r)' = LinkageOf(o, r)
  BY DEF cache, Loaded, LinkageOf, UsesForeignKey, ByForeignKey

LEMMA FetchFacts ==
    ASSUME CacheInv, NEW objects \in SUBSET Objects, NEW part \in {"key", "all"}, Fetch(objects, part)
    PROVE  /\ columns' \in [Objects -> {"none", "key", "all"}]
           /\ DOMAIN foreignKeys' = Objects
           /\ \A o \in Objects :
                /\ columns[o] = "all" => columns'[o] = "all" /\ foreignKeys'[o] = foreignKeys[o]
                /\ columns'[o] = "all" => columns[o] = "all" \/ foreignKeys'[o] = links[o]
           /\ part = "all" => \A o \in objects : columns'[o] = "all"
  BY DEF CacheInv, Fetch
-----------------------------------------------------------------------------
(* The statement of the primary data.                                      *)

LEMMA ReadPrimariesStep == DocumentInv /\ ReadPrimaries => DocumentInv'
<1> SUFFICES ASSUME DocumentInv, ReadPrimaries PROVE DocumentInv'
  OBVIOUS
<1>1. TreeInv /\ RowsInv /\ CacheInv /\ OrderInv /\ PathsInv /\ AgreeInv /\ WalkInv
  BY DEF DocumentInv
<1>2. /\ at = << >> /\ DOMAIN at = {} /\ ~ Begun
      /\ UNCHANGED <<links, asked, unread, loaded, visited, included, linkage, failed, writes>>
      /\ pending' = Roots
      /\ DOMAIN at' = {<<>>} /\ at'[<<>>] = primaries
  BY DEF ReadPrimaries, Begun, Roots
<1>3. primary' = primary /\ includes' = includes /\ primaries' = primaries
  BY <1>2 DEF asked
<1>4. TreeInv' /\ Nodes' = Nodes /\ Roots' = Roots
  BY <1>1, <1>2, TreeKept
<1>5. Options(includes)' = Options(includes) /\ \A path : TypeAt(path)' = TypeAt(path)
  BY <1>2, <1>3, OptionsKept, TypesKept
<1>6. /\ unread = Options(includes)
      /\ columns = [o \in Objects |-> "none"] /\ loaded = NotLoaded
      /\ visited = {} /\ included = {} /\ linkage = NotLoaded
  BY <1>1, <1>2 DEF OrderInv
<1>7. primaries \subseteq OfType(primary) /\ primaries \in SUBSET Objects
  BY <1>1 DEF TreeInv, OfType
<1>8. Fetch(primaries, "all")
  BY DEF ReadPrimaries
<1>9. /\ columns' \in [Objects -> {"none", "key", "all"}]
      /\ DOMAIN foreignKeys' = Objects
      /\ \A o \in Objects : columns'[o] = "all" => foreignKeys'[o] = links[o]
      /\ \A o \in primaries : columns'[o] = "all"
  BY <1>1, <1>6, <1>7, <1>8, FetchFacts
<1>10. Begun'
  BY <1>2 DEF Begun
<1>11. RowsInv'
  BY <1>1, <1>2 DEF RowsInv, WellTyped
<1>12. CacheInv'
  BY <1>1, <1>2, <1>9 DEF RowsInv, CacheInv, WellTyped
<1>13. OrderInv'
  BY <1>2, <1>3, <1>4, <1>6, <1>10 DEF OrderInv
<1>14. PathsInv'
  <2>1. \A p \in DOMAIN at' : p = <<>>
    BY <1>2
  <2> QED
    BY <1>2, <1>5, <1>6, <1>7, <1>9, <2>1, TypeAtRoot DEF PathsInv
<1>15. AgreeInv'
  <2>1. \A o \in Objects : \A r \in NamesOf(TypeOf[o]) : loaded'[o][r] = Nil
    BY <1>2, <1>6 DEF NotLoaded
  <2> QED
    BY <1>1, <1>2, <1>3, <1>9, <2>1 DEF AgreeInv
<1>16. WalkInv'
  <2>1. ~ failed
    BY <1>1 DEF WalkInv
  <2>2. Fresh'
    BY <1>2, <1>4, <1>6, <2>1 DEF Fresh
  <2> QED
    BY <2>2, FreshWalk, PTL
<1> QED
  BY <1>4, <1>11, <1>12, <1>13, <1>14, <1>15, <1>16 DEF DocumentInv
-----------------------------------------------------------------------------
(* The statement of a loader path.                                         *)

\* What it reads of one object, and of all that its parent led to.
ReadOf(o, path) ==
    IF Definition(o, Last(path)).many THEN Related(o, Last(path)) ELSE foreignKeys[o][Last(path)]

Found(path) == UNION {ReadOf(o, path) : o \in at[Front(path)]}

\* A path can be read where its parent was, which gave every object's columns.
LEMMA Parents ==
    ASSUME DocumentInv, NEW path \in unread, Front(path) \in DOMAIN at
    PROVE  /\ Begun /\ path \in Options(includes) /\ path # << >>
           /\ path \notin DOMAIN at /\ Front(path) # path
           /\ \A o \in at[Front(path)] :
                /\ o \in Objects /\ TypeOf[o] = TypeAt(Front(path))
                /\ Last(path) \in NamesOf(TypeOf[o])
                /\ OfType(Definition(o, Last(path)).target) = OfType(TypeAt(path))
                /\ columns[o] = "all"
<1>1. TreeInv /\ OrderInv /\ PathsInv
  BY DEF DocumentInv
<1>2. Begun
  BY <1>1 DEF OrderInv
<1>3. path \in Options(includes)
  BY <1>1 DEF PathsInv
<1>4. /\ Front(path) \in Nodes /\ Last(path) \in NamesOf(TypeAt(Front(path)))
      /\ path # << >> /\ Front(path) # path
      /\ TypeAt(path) = Relationships[TypeAt(Front(path))][Last(path)].target
  BY <1>1, <1>3, NodeOfPath
<1>5. path \notin DOMAIN at
  BY <1>1, <1>4 DEF PathsInv
<1>6. at[Front(path)] \subseteq OfType(TypeAt(Front(path))) /\ \A o \in at[Front(path)] : columns[o] = "all"
  BY <1>1, <1>4 DEF PathsInv
<1> QED
  BY <1>2, <1>3, <1>4, <1>5, <1>6 DEF OfType, Definition

\* It reads objects of the declared type; and what another path has read of the
\* same object before, in the same transaction or of what nobody writes.
LEMMA ReadAgain ==
    ASSUME DocumentInv, NEW path \in unread, Front(path) \in DOMAIN at, NEW o \in at[Front(path)]
    PROVE  /\ ReadOf(o, path) \subseteq OfType(TypeAt(path))
           /\ writes = 0 => ReadOf(o, path) = Related(o, Last(path))
           /\ loaded[o][Last(path)] # Nil => loaded[o][Last(path)] = ReadOf(o, path)
<1>1. TreeInv /\ RowsInv /\ CacheInv /\ OrderInv /\ AgreeInv
  BY DEF DocumentInv
<1> DEFINE r == Last(path)
<1>2. /\ o \in Objects /\ TypeOf[o] = TypeAt(Front(path)) /\ r \in NamesOf(TypeOf[o])
      /\ OfType(Definition(o, r).target) = OfType(TypeAt(path)) /\ columns[o] = "all"
      /\ Begun /\ path \in Options(includes)
  BY Parents
<1>3. /\ ~ Definition(o, r).many => r \in OwnedBy(TypeOf[o])
      /\ Definition(o, r).inverse = Nil <=> r \in OwnedBy(TypeOf[o])
  BY <1>2, DeclaredOf
<1> HIDE DEF r
<1>4. Related(o, r) \subseteq OfType(Definition(o, r).target)
  BY <1>1, <1>2, <1>3 DEF Related, RowsInv, WellTyped
<1>5. ReadOf(o, path) \subseteq OfType(TypeAt(path))
  BY <1>1, <1>2, <1>3, <1>4 DEF ReadOf, CacheInv, WellTyped, r
<1>6. writes = 0 => ReadOf(o, path) = Related(o, r)
  BY <1>1, <1>2, <1>3 DEF ReadOf, AgreeInv, Related, r
<1>7. ASSUME writes # 0 PROVE loaded[o][r] = Nil
  <2>1. Relinked[primary] # {}
    BY <1>1, <1>7 DEF AgreeInv
  <2>2. Front(path) = << >>
    BY <1>1, <1>2, <2>1, NodeOfPath
  <2>3. o \in primaries
    BY <1>1, <1>2, <2>2 DEF OrderInv
  <2> QED
    BY <1>1, <2>1, <2>3 DEF AgreeInv, r
<1>8. loaded[o][r] # Nil => loaded[o][r] = ReadOf(o, path)
  BY <1>1, <1>2, <1>6, <1>7 DEF AgreeInv
<1> QED
  BY <1>5, <1>6, <1>8 DEF r

\* What the step does, in these words.
LEMMA ReadFacts ==
    ASSUME DocumentInv, NEW path \in unread, ReadPath(path)
    PROVE  /\ Front(path) \in DOMAIN at
           /\ UNCHANGED <<links, asked, document, writes>> /\ unread' = unread \ {path}
           /\ DOMAIN at' = DOMAIN at \cup {path} /\ at'[path] = Found(path)
           /\ \A p \in DOMAIN at : at'[p] = at[p]
           /\ Found(path) \subseteq OfType(TypeAt(path))
           /\ Fetch(Found(path), IF Narrowed(path) THEN "key" ELSE "all")
           /\ DOMAIN loaded' = Objects
           /\ \A o \in Objects : DOMAIN loaded'[o] = NamesOf(TypeOf[o])
           /\ \A o \in at[Front(path)] :
                /\ loaded'[o][Last(path)] = ReadOf(o, path)
                /\ ReadOf(o, path) \subseteq Found(path)
           /\ \A o \in Objects : \A q \in NamesOf(TypeOf[o]) :
                o \notin at[Front(path)] \/ q # Last(path) \/ loaded[o][q] # Nil => loaded'[o][q] = loaded[o][q]
<1>1. CacheInv /\ Front(path) \in DOMAIN at
  BY DEF DocumentInv, ReadPath
<1>2. \A o \in at[Front(path)] : o \in Objects /\ Last(path) \in NamesOf(TypeOf[o])
  BY <1>1, Parents
<1>3. path \notin DOMAIN at
  BY <1>1, Parents
<1>4. /\ UNCHANGED <<links, asked, document, writes>> /\ unread' = unread \ {path}
      /\ at' = [p \in DOMAIN at \cup {path} |-> IF p = path THEN Found(path) ELSE at[p]]
      /\ Fetch(Found(path), IF Narrowed(path) THEN "key" ELSE "all")
      /\ loaded' = [o \in Objects |->
                        IF o \in at[Front(path)] /\ loaded[o][Last(path)] = Nil
                        THEN [loaded[o] EXCEPT ![Last(path)] = ReadOf(o, path)] ELSE loaded[o]]
  BY DEF ReadPath, Found, ReadOf
<1>5. \A o \in at[Front(path)] : ReadOf(o, path) \subseteq Found(path)
  BY DEF Found
<1>6. Found(path) \subseteq OfType(TypeAt(path))
  BY <1>1, ReadAgain DEF Found
<1>7. \A o \in at[Front(path)] : loaded[o][Last(path)] # Nil => loaded[o][Last(path)] = ReadOf(o, path)
  BY <1>1, ReadAgain
<1>8. \A o \in Objects : DOMAIN loaded[o] = NamesOf(TypeOf[o])
  BY <1>1 DEF CacheInv
<1>9. \A o \in Objects : DOMAIN loaded'[o] = NamesOf(TypeOf[o])
  BY <1>4, <1>8
<1>10. \A o \in at[Front(path)] : loaded'[o][Last(path)] = ReadOf(o, path)
  BY <1>2, <1>4, <1>7, <1>8
<1>11. \A o \in Objects : \A q \in NamesOf(TypeOf[o]) :
         o \notin at[Front(path)] \/ q # Last(path) \/ loaded[o][q] # Nil => loaded'[o][q] = loaded[o][q]
  BY <1>2, <1>4, <1>8
<1> QED
  BY <1>1, <1>3, <1>4, <1>5, <1>6, <1>9, <1>10, <1>11
LEMMA ReadPathStep == ASSUME DocumentInv, NEW path \in unread, ReadPath(path) PROVE DocumentInv'
<1>1. TreeInv /\ RowsInv /\ CacheInv /\ OrderInv /\ PathsInv /\ AgreeInv /\ WalkInv
  BY DEF DocumentInv
<1> DEFINE parents == at[Front(path)]
           r == Last(path)
<1>2. /\ Front(path) \in DOMAIN at
      /\ UNCHANGED <<links, asked, document, writes>> /\ unread' = unread \ {path}
      /\ DOMAIN at' = DOMAIN at \cup {path} /\ at'[path] = Found(path)
      /\ \A p \in DOMAIN at : at'[p] = at[p]
      /\ Found(path) \subseteq OfType(TypeAt(path))
      /\ Fetch(Found(path), IF Narrowed(path) THEN "key" ELSE "all")
      /\ DOMAIN loaded' = Objects /\ \A o \in Objects : DOMAIN loaded'[o] = NamesOf(TypeOf[o])
      /\ \A o \in parents : loaded'[o][r] = ReadOf(o, path) /\ ReadOf(o, path) \subseteq Found(path)
      /\ \A o \in Objects : \A q \in NamesOf(TypeOf[o]) :
            o \notin parents \/ q # r \/ loaded[o][q] # Nil => loaded'[o][q] = loaded[o][q]
  BY ReadFacts
<1>3. /\ Begun /\ path \in Options(includes) /\ path # << >>
      /\ path \notin DOMAIN at /\ Front(path) # path
      /\ \A o \in parents :
            /\ o \in Objects /\ TypeOf[o] = TypeAt(Front(path)) /\ r \in NamesOf(TypeOf[o])
            /\ OfType(Definition(o, r).target) = OfType(TypeAt(path))
  BY <1>2, Parents
<1>4. \A o \in parents :
        /\ ReadOf(o, path) \subseteq OfType(TypeAt(path))
        /\ writes = 0 => ReadOf(o, path) = Related(o, r)
        /\ loaded[o][r] # Nil => loaded[o][r] = ReadOf(o, path)
  BY <1>2, ReadAgain
<1> HIDE DEF parents, r
<1>5. /\ links' = links /\ primary' = primary /\ includes' = includes /\ primaries' = primaries
      /\ pending' = pending /\ visited' = visited /\ included' = included /\ linkage' = linkage
      /\ failed' = failed /\ writes' = writes
  BY <1>2 DEF asked, document
<1>6. /\ TreeInv' /\ Nodes' = Nodes /\ Roots' = Roots /\ \A p : Narrowed(p)' = Narrowed(p)
      /\ Options(includes)' = Options(includes) /\ \A p : TypeAt(p)' = TypeAt(p)
  BY <1>1, <1>2, <1>5, TreeKept, OptionsKept, TypesKept
<1>7. \A objects \in SUBSET Objects : objects # Nil
  BY SetsLoaded
<1>8. /\ columns' \in [Objects -> {"none", "key", "all"}] /\ DOMAIN foreignKeys' = Objects
      /\ \A o \in Objects :
            /\ columns[o] = "all" => columns'[o] = "all" /\ foreignKeys'[o] = foreignKeys[o]
            /\ columns'[o] = "all" => columns[o] = "all" \/ foreignKeys'[o] = links[o]
      /\ ~ Narrowed(path) => \A o \in Found(path) : columns'[o] = "all"
  <2>1. Found(path) \in SUBSET Objects
    BY <1>2 DEF OfType
  <2> QED
    BY <1>1, <1>2, <2>1, FetchFacts
<1>9. Begun'
  BY <1>2, <1>3 DEF Begun
<1>10. RowsInv'
  BY <1>1, <1>5 DEF RowsInv, WellTyped
<1>11. CacheInv'
  <2>1. ASSUME NEW o \in Objects, columns'[o] = "all", NEW q \in OwnedBy(TypeOf[o])
        PROVE  WellTyped(o, q, foreignKeys'[o][q])
    BY <1>1, <1>8, <2>1 DEF CacheInv, RowsInv
  <2>2. ASSUME NEW o \in Objects, NEW q \in NamesOf(TypeOf[o])
        PROVE  loaded'[o][q] = Nil \/ WellTyped(o, q, loaded'[o][q])
    <3>1. CASE o \in parents /\ q = r
      BY <1>2, <1>3, <1>4, <3>1 DEF WellTyped
    <3>2. CASE ~ (o \in parents /\ q = r)
      BY <1>1, <1>2, <3>2 DEF CacheInv
    <3> QED
      BY <3>1, <3>2
  <2> QED
    BY <1>2, <1>8, <2>1, <2>2 DEF CacheInv, WellTyped
<1>12. OrderInv'
  BY <1>1, <1>2, <1>3, <1>5, <1>6, <1>9 DEF OrderInv, Begun
<1>13. PathsInv'
  <2>1. ASSUME NEW p \in DOMAIN at'
        PROVE  /\ at'[p] \subseteq OfType(TypeAt(p))
               /\ p \in Nodes \/ ~ Narrowed(p) => \A o \in at'[p] : columns'[o] = "all"
    <3>1. CASE p = path
      <4>1. path \in Nodes => ~ Narrowed(path)
        BY <1>3 DEF Nodes, Narrowed
      <4> QED
        BY <1>2, <1>8, <3>1, <4>1
    <3>2. CASE p \in DOMAIN at
      BY <1>1, <1>2, <1>8, <3>2 DEF PathsInv, OfType
    <3> QED
      BY <1>2, <3>1, <3>2
  <2>2. ASSUME NEW p \in Options(includes) \ unread'
        PROVE  /\ Front(p) \in DOMAIN at'
               /\ \A o \in at'[Front(p)] : loaded'[o][Last(p)] # Nil
               /\ p \in includes => /\ p \in DOMAIN at'
                                    /\ \A o \in at'[Front(p)] : loaded'[o][Last(p)] \subseteq at'[p]
    <3>1. CASE p = path
      <4>1. at'[Front(p)] = parents /\ Front(p) \in DOMAIN at'
        BY <1>2, <3>1 DEF parents
      <4>2. \A o \in parents : loaded'[o][Last(p)] = ReadOf(o, path) /\ ReadOf(o, path) \in SUBSET Objects
        BY <1>2, <1>4, <3>1 DEF r, OfType
      <4> QED
        BY <1>2, <1>7, <3>1, <4>1, <4>2
    <3>2. CASE p # path
      <4>1. p \in Options(includes) \ unread
        BY <1>2, <3>2
      <4>2. /\ Front(p) \in DOMAIN at
            /\ \A o \in at[Front(p)] : loaded[o][Last(p)] # Nil
            /\ p \in includes => /\ p \in DOMAIN at
                                 /\ \A o \in at[Front(p)] : loaded[o][Last(p)] \subseteq at[p]
        BY <1>1, <1>3, <4>1 DEF PathsInv
      <4>3. at'[Front(p)] = at[Front(p)] /\ Front(p) \in DOMAIN at' /\ (p \in DOMAIN at => at'[p] = at[p])
        BY <1>2, <4>2
      <4>4. Last(p) \in NamesOf(TypeAt(Front(p)))
        BY <1>1, <4>1, NodeOfPath
      <4>5. \A o \in at[Front(p)] : o \in Objects /\ Last(p) \in NamesOf(TypeOf[o])
        BY <1>1, <4>2, <4>4 DEF PathsInv, OfType
      <4>6. \A o \in at[Front(p)] : loaded'[o][Last(p)] = loaded[o][Last(p)]
        BY <1>2, <4>2, <4>5
      <4> QED
        BY <1>2, <4>2, <4>3, <4>6
    <3> QED
      BY <3>1, <3>2
  <2>3. unread' \subseteq Options(includes) /\ DOMAIN at' \subseteq (Options(includes) \ unread') \cup {<<>>}
    BY <1>1, <1>2, <1>3 DEF PathsInv
  <2> QED
    BY <1>5, <1>6, <2>1, <2>2, <2>3 DEF PathsInv
<1>14. AgreeInv'
  <2>1. ASSUME writes = 0, NEW o \in Objects, columns'[o] = "all", NEW q \in OwnedBy(TypeOf[o])
        PROVE  foreignKeys'[o][q] = links[o][q]
    BY <1>1, <1>8, <2>1 DEF AgreeInv
  <2>2. ASSUME writes = 0, NEW o \in Objects, NEW q \in NamesOf(TypeOf[o])
        PROVE  loaded'[o][q] = Nil \/ loaded'[o][q] = Related(o, q)
    <3>1. CASE o \in parents /\ q = r
      <4>1. loaded'[o][r] = ReadOf(o, path) /\ ReadOf(o, path) = Related(o, r)
        BY <1>2, <1>4, <2>2, <3>1
      <4> QED
        BY <3>1, <4>1
    <3>2. CASE ~ (o \in parents /\ q = r)
      BY <1>1, <1>2, <2>2, <3>2 DEF AgreeInv
    <3> QED
      BY <3>1, <3>2
  <2>3. ASSUME Relinked[primary] # {}, NEW p \in unread', NEW o \in primaries
        PROVE  loaded'[o][Last(p)] = Nil
    <3>1. p \in unread /\ p # path /\ p \in Options(includes)
      BY <1>1, <1>2 DEF PathsInv
    <3>2. Front(p) = << >> /\ Front(path) = << >>
      BY <1>1, <1>3, <2>3, <3>1, NodeOfPath
    <3>3. Append(Front(p), Last(p)) = p /\ Append(Front(path), Last(path)) = path
      BY <1>1, <1>3, <3>1, NodeOfPath
    <3>4. Last(p) # r
      BY <3>1, <3>2, <3>3 DEF r
    <3>5. o \in Objects /\ Last(p) \in NamesOf(TypeOf[o])
      BY <1>1, <3>1, <3>2, NodeOfPath, TypeAtRoot DEF TreeInv, OfType
    <3>6. loaded[o][Last(p)] = Nil
      BY <1>1, <2>3, <3>1 DEF AgreeInv
    <3> QED
      BY <1>2, <3>4, <3>5, <3>6
  <2>4. \A o, q : Related(o, q)' = Related(o, q)
    BY <1>5 DEF Related
  <2> QED
    BY <1>1, <1>5, <2>1, <2>2, <2>3, <2>4 DEF AgreeInv
<1>15. WalkInv'
  <2>1. Fresh
    BY <1>1, <1>3 DEF OrderInv, WalkInv, Fresh
  <2>2. Fresh'
    BY <1>3, <1>5, <1>6, <2>1 DEF Fresh
  <2> QED
    BY <2>2, FreshWalk, PTL
<1> QED
  BY <1>6, <1>10, <1>11, <1>12, <1>13, <1>14, <1>15 DEF DocumentInv
-----------------------------------------------------------------------------
(* What others write, and what a request creates.                          *)

LEMMA WriteStep == ASSUME DocumentInv, NEW o \in Relinked[primary], Write(o) PROVE DocumentInv'
<1>1. TreeInv /\ RowsInv /\ CacheInv /\ OrderInv /\ PathsInv /\ AgreeInv /\ WalkInv
  BY DEF DocumentInv
<1>2. PICK r \in DOMAIN links[o] : \E objects \in Targets(o, r) : links' = [links EXCEPT ![o][r] = objects]
  BY DEF Write
<1>3. writes' = writes + 1 /\ UNCHANGED <<asked, cache, document>>
  BY DEF Write
<1>4. /\ primary' = primary /\ primaries' = primaries /\ includes' = includes
      /\ unread' = unread /\ at' = at /\ columns' = columns
      /\ foreignKeys' = foreignKeys /\ loaded' = loaded
      /\ pending' = pending /\ visited' = visited /\ included' = included /\ linkage' = linkage
      /\ failed' = failed
  BY <1>3 DEF asked, cache, document
<1>5. /\ TreeInv' /\ Roots' = Roots /\ Options(includes)' = Options(includes)
  BY <1>1, <1>3, TreeKept, OptionsKept
<1>6. o \in Objects
  BY <1>1, RelinkedAssumption DEF TreeInv
<1>7. RowsInv'
  <2>1. PICK objects \in Targets(o, r) : links' = [links EXCEPT ![o][r] = objects]
    BY <1>2
  <2>2. r \in OwnedBy(TypeOf[o]) /\ WellTyped(o, r, objects)
    BY <1>1, <1>2, <1>6 DEF RowsInv, Targets, WellTyped
  <2> QED
    BY <1>1, <1>6, <2>1, <2>2 DEF RowsInv, WellTyped
<1>8. CacheInv' /\ PathsInv'
  BY <1>1, <1>3, CacheKept
<1>9. OrderInv'
  BY <1>1, <1>4, <1>5 DEF OrderInv, Begun
<1>10. AgreeInv'
  <2>1. writes' \in Nat /\ writes' # 0
    BY <1>1, <1>3 DEF AgreeInv
  <2> QED
    BY <1>1, <1>4, <2>1 DEF AgreeInv
<1>11. WalkInv'
  <2>1. \A x : Loaded(x)' = Loaded(x) /\ \A q : LinkageOf(x, q)' = LinkageOf(x, q)
    BY <1>3, ObjectsKept
  <2>2. \A x : Serialized(x)' = Serialized(x)
    BY <1>4, <2>1 DEF Serialized
  <2>3. \A x : Linked(x)' = Linked(x)
    BY <1>4, <2>1, <2>2 DEF Linked
  <2>4. \A x, b : Followed(x, b)' = Followed(x, b)
    BY <1>4 DEF Followed
  <2> QED
    BY <1>1, <1>4, <1>5, <2>2, <2>3, <2>4 DEF WalkInv, Begun
<1> QED
  BY <1>5, <1>7, <1>8, <1>9, <1>10, <1>11 DEF DocumentInv

LEMMA CreateStep == ASSUME DocumentInv, NEW o \in primaries, Create(o) PROVE DocumentInv'
<1>1. TreeInv /\ RowsInv /\ CacheInv /\ OrderInv /\ PathsInv /\ AgreeInv /\ WalkInv
  BY DEF DocumentInv
<1>2. /\ at = << >> /\ DOMAIN at = {} /\ ~ Begun /\ includes = {} /\ primaries = {o}
      /\ \A x \in Objects : \A r \in DOMAIN links[x] : o \notin links[x][r]
      /\ columns' = [columns EXCEPT ![o] = "all"]
      /\ foreignKeys' = [foreignKeys EXCEPT ![o] = links'[o]]
      /\ DOMAIN at' = {<<>>} /\ at'[<<>>] = {o}
      /\ unread' = {} /\ pending' = {<<o, <<>>>>}
      /\ UNCHANGED <<asked, visited, included, linkage, failed, writes>>
  BY DEF Create, Begun
<1>3. PICK names \in SUBSET DOMAIN links[o] :
        \E given \in [names -> UNION {Targets(o, r) : r \in names}] :
            /\ \A r \in names : given[r] \in Targets(o, r) /\ o \notin given[r]
            /\ links' = [links EXCEPT ![o] = [r \in DOMAIN @ |-> IF r \in names THEN given[r] ELSE {}]]
            /\ loaded' = [loaded EXCEPT ![o] = Defaults(o, given)]
  BY DEF Create
<1>4. PICK given \in [names -> UNION {Targets(o, r) : r \in names}] :
            /\ \A r \in names : given[r] \in Targets(o, r) /\ o \notin given[r]
            /\ links' = [links EXCEPT ![o] = [r \in DOMAIN @ |-> IF r \in names THEN given[r] ELSE {}]]
            /\ loaded' = [loaded EXCEPT ![o] = Defaults(o, given)]
  BY <1>3
<1>5. primary' = primary /\ includes' = includes /\ primaries' = primaries
  BY <1>2 DEF asked
<1>6. /\ TreeInv' /\ Nodes' = Nodes /\ Roots' = Roots /\ Nodes = {<<>>} /\ pending' = Roots
      /\ Options(includes)' = Options(includes) /\ \A p : TypeAt(p)' = TypeAt(p)
  BY <1>1, <1>2, <1>5, TreeKept, OptionsKept, TypesKept DEF Nodes, Roots
<1>7. o \in Objects /\ TypeOf[o] = primary
  BY <1>1 DEF TreeInv, OfType
<1>8. DOMAIN links = Objects /\ DOMAIN links[o] = OwnedBy(TypeOf[o]) /\ OwnedBy(TypeOf[o]) \subseteq NamesOf(TypeOf[o])
  BY <1>1, <1>7 DEF RowsInv, OwnedBy
<1>9. /\ unread = Options(includes)
      /\ columns = [x \in Objects |-> "none"] /\ loaded = NotLoaded
      /\ visited = {} /\ included = {} /\ linkage = NotLoaded
  BY <1>1, <1>2 DEF OrderInv
\* The object that is created, and the others.
<1>10. /\ DOMAIN links' = Objects /\ \A x \in Objects \ {o} : links'[x] = links[x]
       /\ DOMAIN links'[o] = OwnedBy(TypeOf[o])
       /\ \A r \in OwnedBy(TypeOf[o]) : links'[o][r] = IF r \in names THEN given[r] ELSE {}
  BY <1>4, <1>7, <1>8
<1>11. /\ DOMAIN loaded' = Objects /\ \A x \in Objects \ {o} : loaded'[x] = NotLoaded[x]
       /\ DOMAIN loaded'[o] = NamesOf(TypeOf[o])
       /\ \A r \in NamesOf(TypeOf[o]) : loaded'[o][r] = IF r \in names THEN given[r] ELSE {}
  BY <1>4, <1>7, <1>9 DEF Defaults, NotLoaded
<1>12. \A r \in names : WellTyped(o, r, given[r]) /\ given[r] \in SUBSET Objects
  BY <1>4 DEF Targets, WellTyped, OfType
<1>13. columns' = [x \in Objects |-> IF x = o THEN "all" ELSE "none"]
  BY <1>2, <1>7, <1>9
<1>14. DOMAIN foreignKeys' = Objects /\ foreignKeys'[o] = links'[o]
  BY <1>1, <1>2, <1>7 DEF CacheInv
<1>15. Begun'
  BY <1>2 DEF Begun
<1>16. RowsInv'
  BY <1>1, <1>7, <1>10, <1>12 DEF RowsInv, WellTyped
<1>17. CacheInv'
  <2>1. \A x \in Objects \ {o} : DOMAIN loaded'[x] = NamesOf(TypeOf[x]) /\ \A r \in NamesOf(TypeOf[x]) : loaded'[x][r] = Nil
    BY <1>11 DEF NotLoaded
  <2> QED
    BY <1>7, <1>10, <1>11, <1>12, <1>13, <1>14, <2>1 DEF CacheInv, WellTyped
<1>18. OrderInv'
  BY <1>2, <1>5, <1>6, <1>9, <1>15 DEF OrderInv
<1>19. PathsInv'
  <2>1. ASSUME NEW p \in Options(includes)
        PROVE  Front(p) \in DOMAIN at' /\ \A x \in at'[Front(p)] : loaded'[x][Last(p)] # Nil
    <3>1. Front(p) = << >> /\ Last(p) \in NamesOf(TypeOf[o])
      BY <1>1, <1>6, <1>7, NodeOfPath, TypeAtRoot
    <3>2. loaded'[o][Last(p)] \in SUBSET Objects
      BY <1>11, <1>12, <3>1
    <3> QED
      BY <1>2, <3>1, <3>2, SetsLoaded
  <2>2. \A p \in DOMAIN at' : p = <<>>
    BY <1>2
  <2> QED
    BY <1>2, <1>5, <1>6, <1>7, <1>13, <2>1, <2>2, TypeAtRoot DEF PathsInv, OfType
<1>20. AgreeInv'
  <2>1. ASSUME NEW r \in NamesOf(TypeOf[o]) PROVE loaded'[o][r] = Related(o, r)'
    <3>1. CASE r \in OwnedBy(TypeOf[o])
      BY <1>7, <1>10, <1>11, <3>1, DeclaredOf DEF Related
    <3>2. CASE r \notin OwnedBy(TypeOf[o])
      <4>1. loaded'[o][r] = {}
        BY <1>8, <1>11, <3>2
      <4> DEFINE back == Definition(o, r).inverse
      <4>2. back # Nil /\ \A x \in OfType(Definition(o, r).target) : back \in OwnedBy(TypeOf[x])
        BY <1>7, <3>2, DeclaredOf
      <4>3. \A x \in OfType(Definition(o, r).target) : o \notin links'[x][back]
        <5> HIDE DEF back
        <5> SUFFICES ASSUME NEW x \in OfType(Definition(o, r).target) PROVE o \notin links'[x][back]
          OBVIOUS
        <5>1. x \in Objects /\ back \in DOMAIN links[x]
          BY <1>1, <4>2 DEF OfType, RowsInv
        <5>2. CASE x # o
          BY <1>2, <1>10, <5>1, <5>2
        <5>3. CASE x = o
          BY <1>4, <1>8, <1>10, <5>1, <5>3
        <5> QED
          BY <5>2, <5>3
      <4> QED
        BY <4>1, <4>2, <4>3 DEF Related
    <3> QED
      BY <3>1, <3>2
  <2>2. \A x \in Objects \ {o} : columns'[x] # "all" /\ \A r \in NamesOf(TypeOf[x]) : loaded'[x][r] = Nil
    BY <1>11, <1>13 DEF NotLoaded
  <2> QED
    BY <1>1, <1>2, <1>5, <1>14, <2>1, <2>2 DEF AgreeInv
<1>21. WalkInv'
  <2>1. ~ failed
    BY <1>1 DEF WalkInv
  <2>2. Fresh'
    BY <1>2, <1>6, <1>9, <2>1 DEF Fresh
  <2> QED
    BY <2>2, FreshWalk, PTL
<1> QED
  BY <1>6, <1>16, <1>17, <1>18, <1>19, <1>20, <1>21 DEF DocumentInv
-----------------------------------------------------------------------------
(* The serializer.                                                         *)

\* An object that a path has led to is loaded as far as it is serialized there,
\* and what an include path follows from it is where that path leads.
LEMMA FoundLoaded ==
    ASSUME DocumentInv, unread = {}, NEW b \in Nodes, b \in DOMAIN at, NEW o \in at[b]
    PROVE  /\ o \in Objects /\ TypeOf[o] = TypeAt(b) /\ Loaded(o)
           /\ \A r \in NamesOf(TypeOf[o]) : Append(b, r) \in includes =>
                /\ ~ UsesForeignKey(o, r) /\ LinkageOf(o, r) = loaded[o][r]
                /\ loaded[o][r] \subseteq OfType(Definition(o, r).target)
                /\ Append(b, r) \in DOMAIN at /\ loaded[o][r] \subseteq at[Append(b, r)]
<1>1. TreeInv /\ CacheInv /\ OrderInv /\ PathsInv
  BY DEF DocumentInv
<1>2. Begun
  BY <1>1 DEF OrderInv
<1>3. o \in Objects /\ TypeOf[o] = TypeAt(b) /\ columns[o] = "all"
  BY <1>1 DEF PathsInv, OfType
<1>4. \A p \in Options(includes) :
        /\ \A x \in at[Front(p)] : loaded[x][Last(p)] # Nil
        /\ p \in includes => p \in DOMAIN at /\ \A x \in at[Front(p)] : loaded[x][Last(p)] \subseteq at[p]
  BY <1>1, <1>2 DEF PathsInv
<1>5. ASSUME NEW r \in NamesOf(TypeOf[o])
      PROVE  /\ UsesForeignKey(o, r) \/ loaded[o][r] # Nil
             /\ Append(b, r) \in includes =>
                  /\ ~ UsesForeignKey(o, r) /\ LinkageOf(o, r) = loaded[o][r]
                  /\ loaded[o][r] \subseteq OfType(Definition(o, r).target)
                  /\ Append(b, r) \in DOMAIN at /\ loaded[o][r] \subseteq at[Append(b, r)]
  <2>1. PICK p : p = Append(b, r)
    OBVIOUS
  <2>2. /\ Front(p) = b /\ Last(p) = r
        /\ p \in Options(includes) \/ (Relationships[TypeAt(b)][r].linkage /\ p \notin includes)
    BY <1>1, <1>3, <2>1, PathOfNode
  <2>3. CASE p \in Options(includes)
    <3>1. loaded[o][r] # Nil
      BY <1>4, <2>2, <2>3
    <3>2. ~ UsesForeignKey(o, r) /\ LinkageOf(o, r) = loaded[o][r]
      BY <3>1 DEF UsesForeignKey, LinkageOf
    <3>3. p \in includes => p \in DOMAIN at /\ loaded[o][r] \subseteq at[p]
      BY <1>4, <2>2, <2>3
    <3>4. loaded[o][r] \subseteq OfType(Definition(o, r).target)
      BY <1>1, <1>3, <3>1 DEF CacheInv, WellTyped
    <3> QED
      BY <2>1, <3>1, <3>2, <3>3, <3>4
  <2>4. CASE p \notin Options(includes)
    <3>1. Definition(o, r).linkage /\ p \notin includes
      BY <1>3, <2>2, <2>4 DEF Definition
    <3>2. UsesForeignKey(o, r) \/ loaded[o][r] # Nil
      BY <1>3, <3>1 DEF UsesForeignKey
    <3> QED
      BY <2>1, <3>1, <3>2
  <2> QED
    BY <2>3, <2>4
<1>6. Loaded(o)
  BY <1>3, <1>5 DEF Loaded
<1> QED
  BY <1>3, <1>5, <1>6

\* The serializer is only where a path has led.
LEMMA PendingFound ==
    ASSUME DocumentInv, NEW o, NEW b, <<o, b>> \in pending
    PROVE  b \in Nodes /\ b \in DOMAIN at /\ o \in at[b] /\ Begun
           /\ (b # <<>> => <<o, b>> \in visited) /\ (b = <<>> => o \in primaries)
<1>1. TreeInv /\ OrderInv /\ WalkInv
  BY DEF DocumentInv
<1>2. Begun
  BY <1>1 DEF OrderInv
<1>3. CASE <<o, b>> \in visited
  <2>1. b \in DOMAIN at /\ o \in at[b] /\ b \in includes
    BY <1>1, <1>3 DEF WalkInv
  <2> QED
    BY <1>1, <1>2, <1>3, <2>1 DEF TreeInv, Nodes
<1>4. CASE <<o, b>> \in Roots
  <2>1. b = <<>> /\ o \in primaries
    BY <1>4 DEF Roots
  <2> QED
    BY <1>1, <1>2, <2>1 DEF OrderInv, Begun, Nodes
<1> QED
  BY <1>1, <1>3, <1>4 DEF WalkInv

\* What is followed from an object on a branch, visited before or not.
Steps(o, branch) ==
    UNION {{<<x, Append(branch, r)>> : x \in loaded[o][r]} :
              r \in {q \in NamesOf(TypeOf[o]) : Append(branch, q) \in includes /\ ~ UsesForeignKey(o, q)}}

\* The steps by name, and those that answer for what is stored.
LEMMA StepsAre ==
    ASSUME NEW o, NEW b
    PROVE  /\ \A v \in Steps(o, b) : \E r \in NamesOf(TypeOf[o]) :
                /\ Append(b, r) \in includes /\ ~ UsesForeignKey(o, r)
                /\ \E x \in loaded[o][r] : v = <<x, Append(b, r)>>
           /\ \A r \in NamesOf(TypeOf[o]) : Append(b, r) \in includes /\ ~ UsesForeignKey(o, r) =>
                \A x \in loaded[o][r] : <<x, Append(b, r)>> \in Steps(o, b)
<1>1. ASSUME NEW v \in Steps(o, b)
      PROVE  \E r \in NamesOf(TypeOf[o]) :
                /\ Append(b, r) \in includes /\ ~ UsesForeignKey(o, r)
                /\ \E x \in loaded[o][r] : v = <<x, Append(b, r)>>
  BY DEF Steps
<1>2. ASSUME NEW r \in NamesOf(TypeOf[o]), Append(b, r) \in includes, ~ UsesForeignKey(o, r), NEW x \in loaded[o][r]
      PROVE  <<x, Append(b, r)>> \in Steps(o, b)
  <2>1. <<x, Append(b, r)>> \in {<<y, Append(b, r)>> : y \in loaded[o][r]}
    OBVIOUS
  <2> QED
    BY <1>2, <2>1 DEF Steps
<1> QED
  BY <1>1, <1>2

LEMMA SerializeStep ==
    ASSUME DocumentInv, NEW v \in pending, Serialize(v[1], v[2])
    PROVE  DocumentInv'
<1> DEFINE o == v[1]
           b == v[2]
           next == Steps(o, b) \ visited
<1>1. TreeInv /\ RowsInv /\ CacheInv /\ OrderInv /\ PathsInv /\ AgreeInv /\ WalkInv
  BY DEF DocumentInv
<1>2. unread = {} /\ <<o, b>> \in pending /\ UNCHANGED <<links, asked, cache, writes>>
  BY DEF Serialize
<1>3. /\ b \in Nodes /\ b \in DOMAIN at /\ o \in at[b] /\ Begun
      /\ b # <<>> => <<o, b>> \in visited
      /\ b = <<>> => o \in primaries
  BY <1>2, PendingFound
<1>4. /\ o \in Objects /\ TypeOf[o] = TypeAt(b) /\ Loaded(o)
      /\ \A r \in NamesOf(TypeOf[o]) : Append(b, r) \in includes =>
            /\ ~ UsesForeignKey(o, r) /\ LinkageOf(o, r) = loaded[o][r]
            /\ loaded[o][r] \subseteq OfType(Definition(o, r).target)
            /\ Append(b, r) \in DOMAIN at /\ loaded[o][r] \subseteq at[Append(b, r)]
  BY <1>2, <1>3, FoundLoaded
<1>5. /\ ~ failed'
      /\ linkage' = [linkage EXCEPT ![o] = [r \in NamesOf(TypeOf[o]) |-> LinkageOf(o, r)]]
      /\ included' = included \cup {x \in {o} : b # <<>> /\ o \notin primaries}
      /\ visited' = visited \cup next
      /\ pending' = (pending \ {<<o, b>>}) \cup next
  <2>1. ~ failed
    BY <1>1 DEF WalkInv
  <2>2. failed' = (failed \/ ~ Loaded(o))
    BY DEF Serialize
  <2>3. ~ failed'
    BY <1>4, <2>1, <2>2
  <2> QED
    BY <1>4, <2>3 DEF Serialize, Unvisited, Steps, Included
<1> HIDE DEF next
<1>6. /\ links' = links /\ primary' = primary /\ primaries' = primaries /\ includes' = includes
      /\ unread' = unread /\ at' = at /\ columns' = columns
      /\ foreignKeys' = foreignKeys /\ loaded' = loaded /\ writes' = writes
  BY <1>2 DEF asked, cache
<1>7. /\ TreeInv' /\ Nodes' = Nodes /\ Roots' = Roots /\ Options(includes)' = Options(includes)
      /\ Begun' = Begun
  BY <1>1, <1>2, <1>6, TreeKept, OptionsKept DEF Begun
<1>8. RowsInv'
  BY <1>1, <1>6 DEF RowsInv, WellTyped
<1>9. CacheInv' /\ PathsInv'
  BY <1>1, <1>2, CacheKept
<1>10. OrderInv'
  BY <1>1, <1>2, <1>3, <1>6, <1>7 DEF OrderInv
<1>11. AgreeInv'
  BY <1>1, <1>6 DEF AgreeInv, Related
<1>12. WalkInv'
  <2>1. \A x : Loaded(x)' = Loaded(x) /\ \A r : LinkageOf(x, r)' = LinkageOf(x, r)
    BY <1>2, ObjectsKept
  <2>2. DOMAIN linkage = Objects /\ DOMAIN linkage' = Objects
    BY <1>1, <1>5 DEF WalkInv
  <2>3. Serialized(o)' /\ \A x \in Objects : Serialized(x) => Serialized(x)'
    BY <1>4, <1>5, <2>1, <2>2 DEF Serialized
  <2>4. o \in primaries \cup included' /\ primaries \cup included \subseteq primaries \cup included'
    BY <1>3, <1>5
  <2>5. primaries \cup included \subseteq Objects
    BY <1>1 DEF TreeInv, WalkInv, OfType
  <2>6. \A x : Linked(x) => Linked(x)'
    BY <1>6, <2>1, <2>3, <2>4, <2>5 DEF Linked
  <2>7. \A w \in next : /\ w \in Objects \X includes /\ w[2] \in DOMAIN at /\ w[1] \in at[w[2]]
                         /\ Linked(w[1])'
    <3> SUFFICES ASSUME NEW w \in next
                 PROVE  /\ w \in Objects \X includes /\ w[2] \in DOMAIN at /\ w[1] \in at[w[2]]
                        /\ Linked(w[1])'
      OBVIOUS
    <3>1. PICK r \in NamesOf(TypeOf[o]) :
            /\ Append(b, r) \in includes /\ ~ UsesForeignKey(o, r)
            /\ \E x \in loaded[o][r] : w = <<x, Append(b, r)>>
      BY StepsAre DEF next
    <3>2. PICK x \in loaded[o][r] : w = <<x, Append(b, r)>>
      BY <3>1
    <3>3. w[1] = x /\ w[2] = Append(b, r)
      BY <3>2
    <3>4. x \in LinkageOf(o, r) /\ x \in Objects
      BY <1>4, <3>1 DEF OfType
    <3>5. Linked(x)'
      BY <1>6, <2>1, <2>3, <2>4, <3>4 DEF Linked
    <3> QED
      BY <1>4, <3>1, <3>2, <3>3, <3>4, <3>5
  <2>8. ~ failed' /\ pending' \subseteq visited' \cup Roots' /\ visited' \subseteq Objects \X includes'
    BY <1>1, <1>5, <1>6, <1>7, <2>7 DEF WalkInv
  <2>9. \A w \in visited' : w[2] \in DOMAIN at' /\ w[1] \in at'[w[2]] /\ Linked(w[1])'
    BY <1>1, <1>5, <1>6, <2>6, <2>7 DEF WalkInv
  <2>10. \A x \in Objects : linkage'[x] = NotLoaded[x] \/ Serialized(x)'
    BY <1>1, <1>5, <2>2, <2>3 DEF WalkInv
  <2>11. included' \subseteq Objects \ primaries' /\ \A x \in included' : \E c \in includes' : <<x, c>> \in visited'
    <3>1. b # <<>> => b \in includes
      BY <1>3 DEF Nodes
    <3> QED
      BY <1>1, <1>3, <1>4, <1>5, <1>6, <3>1 DEF WalkInv
  <2>12. ASSUME NEW w \in (visited' \cup Roots') \ pending'
         PROVE  w[1] \in primaries' \cup included' /\ Serialized(w[1])' /\ Followed(w[1], w[2])'
    <3>1. w \in visited \cup Roots /\ (w \notin pending \/ w = <<o, b>>)
      BY <1>5, <1>7
    <3>2. CASE w = <<o, b>>
      <4>1. Followed(o, b)'
        <5> SUFFICES ASSUME NEW r \in NamesOf(TypeOf[o]), Append(b, r) \in includes, NEW x \in loaded[o][r]
                     PROVE  <<x, Append(b, r)>> \in visited'
          BY <1>6 DEF Followed
        <5>1. <<x, Append(b, r)>> \in Steps(o, b)
          BY <1>4, StepsAre
        <5> QED
          BY <1>5, <5>1 DEF next
      <4>2. w[1] = o /\ w[2] = b
        BY <3>2
      <4> QED
        BY <1>6, <2>3, <2>4, <4>1, <4>2
    <3>3. CASE w \notin pending
      <4>1. w[1] \in primaries \cup included /\ Serialized(w[1]) /\ Followed(w[1], w[2])
        BY <1>1, <1>3, <3>1, <3>3 DEF WalkInv
      <4>2. Followed(w[1], w[2])'
        BY <1>5, <1>6, <4>1 DEF Followed
      <4> QED
        BY <1>6, <2>3, <2>4, <2>5, <4>1, <4>2
    <3> QED
      BY <3>1, <3>2, <3>3
  <2> QED
    BY <2>2, <2>8, <2>9, <2>10, <2>11, <2>12 DEF WalkInv
<1> QED
  BY <1>7, <1>8, <1>9, <1>10, <1>11, <1>12 DEF DocumentInv
-----------------------------------------------------------------------------

\* The invariant of a document, for every declaration of serializers, every include
\* tree and every content of the database.
THEOREM DocumentInvariance == DocumentSpec => []DocumentInv
<1>1. DocumentInit => DocumentInv
  BY InitInv
<1>2. DocumentInv /\ [DocumentNext]_documentVars => DocumentInv'
  <2> SUFFICES ASSUME DocumentInv, [DocumentNext]_documentVars PROVE DocumentInv'
    OBVIOUS
  <2>1. CASE ReadPrimaries
    BY <2>1, ReadPrimariesStep
  <2>2. CASE \E path \in unread : ReadPath(path)
    BY <2>2, ReadPathStep
  <2>3. CASE \E o \in primaries : Create(o)
    BY <2>3, CreateStep
  <2>4. CASE \E v \in pending : Serialize(v[1], v[2])
    BY <2>4, SerializeStep
  <2>5. CASE \E o \in Relinked[primary] : Write(o)
    BY <2>5, WriteStep
  <2>6. CASE UNCHANGED documentVars
    <3>1. /\ UNCHANGED <<asked, cache>> /\ UNCHANGED asked /\ UNCHANGED cache
          /\ links' = links /\ primary' = primary /\ primaries' = primaries /\ includes' = includes
          /\ unread' = unread /\ at' = at /\ columns' = columns
          /\ foreignKeys' = foreignKeys /\ loaded' = loaded /\ writes' = writes
          /\ pending' = pending /\ visited' = visited /\ included' = included /\ linkage' = linkage
          /\ failed' = failed
      BY <2>6 DEF documentVars, asked, cache, document
    <3>2. TreeInv' /\ CacheInv' /\ PathsInv' /\ Roots' = Roots /\ Options(includes)' = Options(includes)
      BY <3>1, CacheKept, TreeKept, OptionsKept DEF DocumentInv
    <3>3a. RowsInv'
      BY <3>1 DEF DocumentInv, RowsInv, WellTyped
    <3>3b. AgreeInv'
      BY <3>1 DEF DocumentInv, AgreeInv, Related
    <3>3c. OrderInv'
      BY <3>1, <3>2 DEF DocumentInv, OrderInv, Begun
    <3>4. /\ \A x : Loaded(x)' = Loaded(x) /\ \A r : LinkageOf(x, r)' = LinkageOf(x, r)
          /\ \A x, b : Followed(x, b)' = Followed(x, b)
      BY <3>1, ObjectsKept DEF Followed
    <3>5. \A x : Serialized(x)' = Serialized(x)
      BY <3>1, <3>4 DEF Serialized
    <3>6. \A x : Linked(x)' = Linked(x)
      BY <3>1, <3>4, <3>5 DEF Linked
    <3>7. WalkInv'
      BY <3>1, <3>2, <3>4, <3>5, <3>6 DEF DocumentInv, WalkInv, Begun
    <3> QED
      BY <3>2, <3>3a, <3>3b, <3>3c, <3>7 DEF DocumentInv
  <2> QED
    BY <2>1, <2>2, <2>3, <2>4, <2>5, <2>6 DEF DocumentNext
<1> QED
  BY <1>1, <1>2, PTL DEF DocumentSpec

\* The loader options load all that the serializer reads: no request ends in a
\* JsonApiSerializationError, whatever it includes and whatever others write.
THEOREM AllReadIsLoaded == DocumentSpec => []NothingUnloadedRead
<1>1. DocumentInv => NothingUnloadedRead
  BY DEF DocumentInv, WalkInv, NothingUnloadedRead
<1> QED
  BY <1>1, DocumentInvariance, PTL

\* What a document shows of an object is what is stored.
LEMMA LinkageIsTrue == DocumentInv => LinkageTrue
<1> SUFFICES ASSUME DocumentInv, writes = 0, NEW o \in Objects, NEW r \in NamesOf(TypeOf[o]),
                    linkage[o] # NotLoaded[o]
             PROVE  linkage[o][r] = Related(o, r)
  BY DEF LinkageTrue
<1>1. AgreeInv /\ WalkInv
  BY DEF DocumentInv
<1>2. Serialized(o)
  BY <1>1 DEF WalkInv
<1>3. /\ linkage[o][r] = LinkageOf(o, r) /\ columns[o] = "all"
      /\ UsesForeignKey(o, r) \/ loaded[o][r] # Nil
  BY <1>2 DEF Serialized, Loaded
<1>4. CASE UsesForeignKey(o, r)
  <2>1. r \in OwnedBy(TypeOf[o]) /\ Definition(o, r).inverse = Nil
    BY <1>4, DeclaredOf DEF UsesForeignKey
  <2> QED
    BY <1>1, <1>3, <1>4, <2>1 DEF AgreeInv, LinkageOf, ByForeignKey, Related
<1>5. CASE ~ UsesForeignKey(o, r)
  BY <1>1, <1>3, <1>5 DEF AgreeInv, LinkageOf
<1> QED
  BY <1>4, <1>5

\* What an include path leads to along the first n segments.
Reaching(path, n, reached) ==
    reached = [k \in 0 .. n |-> IF k = 0 THEN primaries ELSE LinkedFrom(reached[k - 1], path[k])]

LEMMA ReachingExists ==
    ASSUME NEW path
    PROVE  \A n \in Nat : \E reached : Reaching(path, n, reached)
<1> DEFINE T == {n \in Nat : \E t : Reaching(path, n, t)}
<1>1. 0 \in T
  <2> DEFINE t == [k \in 0 .. 0 |-> primaries]
  <2>1. Reaching(path, 0, t)
    BY DEF Reaching
  <2> QED
    BY <2>1
<1>2. ASSUME NEW n \in T PROVE n + 1 \in T
  <2>1. PICK t : Reaching(path, n, t)
    OBVIOUS
  <2> DEFINE u == [k \in 0 .. n + 1 |-> IF k = n + 1 THEN LinkedFrom(t[n], path[n + 1]) ELSE t[k]]
             v == [k \in 0 .. n + 1 |-> IF k = 0 THEN primaries ELSE LinkedFrom(u[k - 1], path[k])]
  <2>3. \A k \in 0 .. n : t[k] = IF k = 0 THEN primaries ELSE LinkedFrom(t[k - 1], path[k])
    BY <2>1 DEF Reaching
  <2>4. ASSUME NEW k \in 0 .. n + 1 PROVE u[k] = v[k]
    <3>1. CASE k = n + 1
      <4>1. u[k] = LinkedFrom(t[n], path[n + 1]) /\ k # 0 /\ k - 1 = n /\ u[k - 1] = t[n]
        BY <3>1
      <4> QED
        BY <3>1, <4>1
    <3>2. CASE k # n + 1
      <4>1. k \in 0 .. n /\ u[k] = t[k]
        BY <3>2
      <4>2. k # 0 => k - 1 \in 0 .. n /\ u[k - 1] = t[k - 1]
        BY <4>1
      <4> QED
        BY <2>3, <4>1, <4>2
    <3> QED
      BY <3>1, <3>2
  <2>5. u = v
    BY <2>4
  <2>6. Reaching(path, n + 1, u)
    BY <2>5 DEF Reaching
  <2> QED
    BY <2>6
<1> HIDE DEF T
<1>3. T = Nat
  BY <1>1, <1>2, AllNumbers DEF T
<1> QED
  BY <1>3 DEF T

LEMMA ReachedByIs ==
    ASSUME NEW path, Len(path) \in Nat
    PROVE  \E t : Reaching(path, Len(path), t) /\ ReachedBy(path) = t[Len(path)]
  BY ReachingExists DEF ReachedBy, Reaching
\* The nodes on the way to a node are nodes.
LEMMA PrefixesIncluded ==
    ASSUME TreeInv, NEW path \in includes, NEW n \in 1 .. Len(path)
    PROVE  Prefix(path, n) \in includes
<1>1. path \in Seq(Names) /\ Len(path) \in Nat
  BY LenProperties DEF TreeInv, Names
<1> DEFINE N == Len(path)
           T == {m \in Nat : m < N => Prefix(path, N - m) \in includes}
<1>2. 0 \in T
  <2>1. N \in 0 .. N /\ N - 0 = N
    BY <1>1
  <2>2. /\ Prefix(path, N) \in Seq(Names) /\ Len(Prefix(path, N)) = N
        /\ \A k \in 1 .. N : Prefix(path, N)[k] = path[k]
    BY <1>1, <2>1, PrefixFacts
  <2>3. Prefix(path, N) = path
    BY <1>1, <2>2, SeqEqual
  <2> QED
    BY <2>1, <2>3
<1>3. ASSUME NEW m \in T PROVE m + 1 \in T
  <2> SUFFICES ASSUME m + 1 < N PROVE Prefix(path, N - (m + 1)) \in includes
    BY DEF T
  <2>1. PICK k \in Nat : k = N - m /\ k # 0 /\ k \in 0 .. N /\ k - 1 = N - (m + 1) /\ k - 1 \in 0 .. N /\ k - 1 # 0
    BY <1>1
  <2>2. Prefix(path, k) \in includes
    BY <1>1, <2>1
  <2>3. Front(Prefix(path, k)) = Prefix(path, k - 1) /\ Prefix(path, k - 1) # << >>
    BY <1>1, <2>1, PrefixFacts
  <2>4. Prefix(path, k - 1) \in includes
    BY <2>2, <2>3 DEF TreeInv, Nodes
  <2> QED
    BY <2>1, <2>4
<1> HIDE DEF T
<1>4. T = Nat
  BY <1>2, <1>3, AllNumbers DEF T
<1>5. N - n \in Nat /\ N - n < N /\ N - (N - n) = n
  BY <1>1
<1> QED
  BY <1>4, <1>5 DEF T

\* What an include path leads to was visited along it, and is in the document.
LEMMA AllIncluded == DocumentInv => IncludedComplete
<1> SUFFICES ASSUME DocumentInv, Rendered, NEW path \in includes
             PROVE  ReachedBy(path) \subseteq primaries \cup included
  BY DEF IncludedComplete
<1>1. TreeInv /\ OrderInv /\ WalkInv
  BY DEF DocumentInv
<1>2. unread = {} /\ pending = {} /\ Begun
  BY <1>1 DEF Rendered, OrderInv
<1> DEFINE N == Len(path)
<1>3. path \in Seq(Names) /\ N \in Nat
  BY <1>1, LenProperties DEF TreeInv, Names
<1> HIDE DEF N
<1>4. PICK t : Reaching(path, N, t) /\ ReachedBy(path) = t[N]
  <2>1. Len(path) \in Nat
    BY <1>3 DEF N
  <2> QED
    BY <2>1, ReachedByIs DEF N
<1> DEFINE T == {n \in Nat : n <= N => \A x \in t[n] : <<x, Prefix(path, n)>> \in visited \cup Roots}
<1>5. 0 \in T
  <2>1. t[0] = primaries
    BY <1>3, <1>4 DEF Reaching
  <2>2. Prefix(path, 0) = <<>>
    <3>1. 0 \in 0 .. Len(path)
      BY <1>3 DEF N
    <3> QED
      BY <1>3, <3>1, PrefixFacts
  <2> QED
    BY <2>1, <2>2 DEF Roots
<1>6. ASSUME NEW n \in T PROVE n + 1 \in T
  <2> SUFFICES ASSUME n + 1 <= N, NEW x \in t[n + 1] PROVE <<x, Prefix(path, n + 1)>> \in visited
    BY DEF T
  <2> DEFINE r == path[n + 1]
             b == Prefix(path, n)
             c == Prefix(path, n + 1)
  <2>1. n \in Nat /\ n + 1 \in 0 .. Len(path) /\ n + 1 \in 1 .. Len(path) /\ (n + 1) - 1 = n /\ n + 1 # 0 /\ n <= N
    BY <1>3 DEF N
  <2>2. t[n + 1] = LinkedFrom(t[n], r)
    BY <1>3, <1>4, <2>1 DEF Reaching, N
  <2>3. Front(c) = b /\ Last(c) = r /\ c \in includes
    BY <1>1, <1>3, <2>1, PrefixFacts, PrefixesIncluded
  <2>4. b \in Nodes /\ r \in NamesOf(TypeAt(b)) /\ c = Append(b, r)
    <3>1. c \in Seq(Names) /\ c # << >>
      BY <1>1, <2>3 DEF TreeInv, Names
    <3> QED
      BY <1>1, <2>3, <3>1, FrontLast, ZenonT(60) DEF TreeInv
  <2> HIDE DEF b, c, r
  <2>5. PICK o \in t[n] : linkage[o] # NotLoaded[o] /\ x \in linkage[o][r]
    BY <2>2 DEF LinkedFrom
  <2>6. <<o, b>> \in visited \cup Roots
    BY <2>1 DEF T, b
  <2>7. Serialized(o) /\ Followed(o, b)
    BY <1>1, <1>2, <2>6 DEF WalkInv
  <2>8. b \in DOMAIN at /\ o \in at[b]
    BY <1>1, <1>2, <2>6 DEF WalkInv, OrderInv, Roots, Begun
  <2>9. TypeOf[o] = TypeAt(b) /\ LinkageOf(o, r) = loaded[o][r]
    BY <1>2, <2>3, <2>4, <2>8, FoundLoaded
  <2>10. x \in loaded[o][r]
    BY <2>4, <2>5, <2>7, <2>9 DEF Serialized
  <2>11. <<x, c>> \in visited
    BY <2>3, <2>4, <2>7, <2>9, <2>10 DEF Followed
  <2> QED
    BY <2>11 DEF c
<1> HIDE DEF T
<1>7. T = Nat
  BY <1>5, <1>6, AllNumbers DEF T
<1>8. \A x \in t[N] : <<x, Prefix(path, N)>> \in visited \cup Roots
  BY <1>3, <1>7 DEF T
<1>9. \A x \in t[N] : x \in primaries \cup included
  <2> SUFFICES ASSUME NEW x \in t[N] PROVE x \in primaries \cup included
    OBVIOUS
  <2>1. PICK v \in (visited \cup Roots) \ pending : v = <<x, Prefix(path, N)>>
    BY <1>2, <1>8
  <2>2. v[1] = x
    BY <2>1
  <2> QED
    BY <1>1, <1>2, <2>2 DEF WalkInv
<1> QED
  BY <1>4, <1>9

\* Full linkage: what a compound document shows is true, what was asked for is
\* there along every include path however long, and every resource that is there
\* was asked for, is there once, and is linked from another.
THEOREM DocumentsFullyLinked == DocumentSpec => []FullLinkage
<1>1. DocumentInv => CompoundDocument
  <2> SUFFICES ASSUME DocumentInv, NEW x \in included
               PROVE  /\ x \notin primaries
                      /\ \E o \in primaries \cup included : \E r \in NamesOf(TypeOf[o]) : x \in linkage[o][r]
    BY DEF CompoundDocument
  <2>1. WalkInv
    BY DEF DocumentInv
  <2>2. x \notin primaries
    BY <2>1 DEF WalkInv
  <2>3. PICK b \in includes : <<x, b>> \in visited
    BY <2>1 DEF WalkInv
  <2>4. Linked(x)
    BY <2>1, <2>3 DEF WalkInv
  <2> QED
    BY <2>2, <2>4 DEF Linked, Serialized
<1>2. DocumentInv => FullLinkage
  BY <1>1, LinkageIsTrue, AllIncluded DEF FullLinkage
<1> QED
  BY <1>2, DocumentInvariance, PTL

-----------------------------------------------------------------------------
(* Routes: the steps a request has to take                                 *)

RouteSteps == DOMAIN Status \cup {"begin", "commit"}

\* Two parts of a plan, one after the other.
LEMMA InTurn ==
    ASSUME NEW T, NEW a \in Seq(T), NEW b \in Seq(T)
    PROVE  /\ a \o b \in Seq(T) /\ Range(a \o b) = Range(a) \cup Range(b)
           /\ "commit" \notin Range(a) /\ CommitsLast(b) => CommitsLast(a \o b)
           /\ \A x, y : y \notin Range(a) /\ Ahead(x, y, b, {}) => Ahead(x, y, a \o b, {})
           /\ \A x, y : x \in Range(a) /\ y \notin Range(a) => Ahead(x, y, a \o b, {})
<1> DEFINE s == a \o b
<1>1. /\ s \in Seq(T) /\ Len(s) = Len(a) + Len(b) /\ Len(a) \in Nat /\ Len(b) \in Nat
      /\ DOMAIN a = 1 .. Len(a) /\ DOMAIN b = 1 .. Len(b) /\ DOMAIN s = 1 .. Len(s)
      /\ \A n \in DOMAIN s : s[n] = IF n <= Len(a) THEN a[n] ELSE b[n - Len(a)]
  BY ConcatProperties, LenProperties
<1>2. Range(s) = Range(a) \cup Range(b)
  BY RangeConcatenation
<1> HIDE DEF s
<1>3. ASSUME NEW n \in DOMAIN s, s[n] \notin Range(a)
      PROVE  n > Len(a) /\ n - Len(a) \in DOMAIN b /\ s[n] = b[n - Len(a)]
  <2>1. n \in DOMAIN a => s[n] \in Range(a)
    BY <1>1 DEF Range
  <2> QED
    BY <1>1, <1>3, <2>1
<1>4. ASSUME "commit" \notin Range(a), CommitsLast(b), NEW k \in DOMAIN s, s[k] = "commit" PROVE k = Len(s)
  <2>1. k > Len(a) /\ k - Len(a) \in DOMAIN b /\ s[k] = b[k - Len(a)]
    BY <1>3, <1>4
  <2>2. k - Len(a) = Len(b)
    BY <1>4, <2>1 DEF CommitsLast
  <2> QED
    BY <1>1, <2>2
<1>5. ASSUME NEW x, NEW y, y \notin Range(a), Ahead(x, y, b, {}), NEW k \in DOMAIN s, s[k] = y
      PROVE  \E j \in 1 .. k - 1 : s[j] = x
  <2>1. k > Len(a) /\ k - Len(a) \in DOMAIN b /\ s[k] = b[k - Len(a)]
    BY <1>3, <1>5
  <2>2. PICK j \in 1 .. (k - Len(a)) - 1 : b[j] = x
    BY <1>5, <2>1 DEF Ahead
  <2>3. PICK i : i = Len(a) + j
    OBVIOUS
  <2>4. i \in 1 .. k - 1 /\ i \in DOMAIN s /\ ~ (i <= Len(a)) /\ i - Len(a) = j
    BY <1>1, <2>1, <2>3
  <2>5. s[i] = b[j]
    BY <1>1, <2>4
  <2> QED
    BY <2>2, <2>4, <2>5
<1>6. ASSUME NEW x, NEW y, x \in Range(a), y \notin Range(a), NEW k \in DOMAIN s, s[k] = y
      PROVE  \E j \in 1 .. k - 1 : s[j] = x
  <2>1. k > Len(a) /\ k - Len(a) \in DOMAIN b
    BY <1>3, <1>6
  <2>2. PICK j \in DOMAIN a : a[j] = x
    BY <1>6 DEF Range
  <2>3. j \in 1 .. k - 1 /\ s[j] = a[j]
    BY <1>1, <2>1
  <2> QED
    BY <2>2, <2>3
<1>7. "commit" \notin Range(a) /\ CommitsLast(b) => CommitsLast(s)
  BY <1>4 DEF CommitsLast
<1>8. \A x, y : y \notin Range(a) /\ Ahead(x, y, b, {}) => Ahead(x, y, s, {})
  <2> TAKE x, y
  <2> HAVE y \notin Range(a) /\ Ahead(x, y, b, {})
  <2>1. \A k \in DOMAIN s : s[k] = y => \E j \in 1 .. k - 1 : s[j] = x
    BY <1>5
  <2> QED
    BY <2>1 DEF Ahead
<1>9. \A x, y : x \in Range(a) /\ y \notin Range(a) => Ahead(x, y, s, {})
  <2> TAKE x, y
  <2> HAVE x \in Range(a) /\ y \notin Range(a)
  <2>1. \A k \in DOMAIN s : s[k] = y => \E j \in 1 .. k - 1 : s[j] = x
    BY <1>6
  <2> QED
    BY <2>1 DEF Ahead
<1>10. s \in Seq(T)
  BY <1>1
<1> QED
  BY <1>2, <1>7, <1>8, <1>9, <1>10 DEF s

\* A step further.
LEMMA StillAhead ==
    ASSUME NEW T, NEW s \in Seq(T), s # <<>>, NEW done
    PROVE  /\ Tail(s) \in Seq(T) /\ Head(s) \in T /\ Head(s) = s[1] /\ 1 \in DOMAIN s
           /\ Range(s) \subseteq {Head(s)} \cup Range(Tail(s)) /\ Head(s) \in Range(s)
           /\ CommitsLast(s) => CommitsLast(Tail(s)) /\ (Head(s) = "commit" => Tail(s) = <<>>)
           /\ \A x, y : Ahead(x, y, s, done) =>
                /\ Ahead(x, y, Tail(s), done \cup {Head(s)})
                /\ Head(s) = y => x \in done
<1> DEFINE t == Tail(s)
<1>1. /\ t \in Seq(T) /\ Len(t) = Len(s) - 1 /\ Len(s) \in Nat /\ Len(t) \in Nat /\ Head(s) = s[1] /\ Head(s) \in T
      /\ DOMAIN s = 1 .. Len(s) /\ DOMAIN t = 1 .. Len(t) /\ 1 \in DOMAIN s
      /\ \A n \in DOMAIN t : t[n] = s[n + 1]
  BY HeadTailProperties, LenProperties, EmptySeq
<1> HIDE DEF t
<1>2. \A n \in DOMAIN s : n = 1 \/ (n - 1 \in DOMAIN t /\ t[n - 1] = s[n])
  BY <1>1
<1>3. Range(s) \subseteq {Head(s)} \cup Range(t) /\ Head(s) \in Range(s)
  BY <1>1, <1>2 DEF Range
<1>4. ASSUME CommitsLast(s) PROVE CommitsLast(t) /\ (Head(s) = "commit" => t = <<>>)
  <2>1. \A k \in DOMAIN t : k + 1 \in DOMAIN s /\ s[k + 1] = t[k]
    BY <1>1
  <2>2. CommitsLast(t)
    BY <1>1, <1>4, <2>1 DEF CommitsLast
  <2>3. Head(s) = "commit" => 1 = Len(s)
    BY <1>1, <1>4 DEF CommitsLast
  <2> QED
    BY <1>1, <2>2, <2>3, EmptySeq
<1>5. ASSUME NEW x, NEW y, Ahead(x, y, s, done)
      PROVE  Ahead(x, y, t, done \cup {Head(s)}) /\ (Head(s) = y => x \in done)
  <2>1. ASSUME NEW k \in DOMAIN t, t[k] = y PROVE x \in done \cup {Head(s)} \/ \E j \in 1 .. k - 1 : t[j] = x
    <3>1. k + 1 \in DOMAIN s /\ s[k + 1] = y
      BY <1>1, <2>1
    <3>2. x \in done \/ \E j \in 1 .. (k + 1) - 1 : s[j] = x
      BY <1>5, <3>1 DEF Ahead
    <3>3. ASSUME NEW j \in 1 .. (k + 1) - 1, s[j] = x PROVE x = Head(s) \/ \E i \in 1 .. k - 1 : t[i] = x
      <4>1. j \in DOMAIN s /\ (j = 1 \/ j - 1 \in 1 .. k - 1)
        BY <1>1, <2>1
      <4> QED
        BY <1>1, <1>2, <3>3, <4>1
    <3> QED
      BY <3>2, <3>3
  <2>2. Head(s) = y => x \in done
    <3>1. 1 .. 1 - 1 = {}
      OBVIOUS
    <3> QED
      BY <1>1, <1>5, <3>1 DEF Ahead
  <2> QED
    BY <2>1, <2>2 DEF Ahead
<1> QED
  BY <1>1, <1>3, <1>4, <1>5 DEF t

\* The steps by name, and those that answer for what is stored.
LEMMA RouteStepsAre ==
    /\ DOMAIN Status = {"contentType", "json", "accept", "token", "active", "document", "query", "type", "id",
                        "noId", "empty", "coercedId", "found", "linkageType", "linkageId", "linkageTwice",
                        "linkageFound", "database", "integrity", "rendered", "hook"}
    /\ Telling = {"begin", "hook", "coercedId", "found", "linkageId", "linkageFound"}
<1>1. DOMAIN Status = {"contentType", "json", "accept", "token", "active", "document", "query", "type", "id",
                        "noId", "empty", "coercedId", "found", "linkageType", "linkageId", "linkageTwice",
                        "linkageFound", "database", "integrity", "rendered", "hook"}
  BY DEF Status
<1>2. \A x \in DOMAIN Status : Status[x] = 404 <=> x \in {"coercedId", "found", "linkageId", "linkageFound"}
  BY <1>1 DEF Status
<1> QED
  BY <1>1, <1>2 DEF Telling

\* What is checked before the handler runs, as a sequence and as a set.
LEMMA AdmissionIs ==
    ASSUME NEW c, NEW r
    PROVE  /\ Admission(c, r) \in Seq(RouteSteps)
           /\ Range(Admission(c, r)) = {"accept"} \cup (IF HasBody(r) THEN {"contentType", "json", "document"} ELSE {})
                                                  \cup (IF Guarded(c, r) THEN {"token", "active"} ELSE {})
<1> DEFINE w == IF HasBody(r) THEN <<"contentType", "json">> ELSE <<>>
           x == <<"accept">>
           y == IF Guarded(c, r) THEN <<"token", "active">> ELSE <<>>
           z == IF HasBody(r) THEN <<"document">> ELSE <<>>
<1>10. /\ <<>> \in Seq(RouteSteps) /\ <<"contentType", "json">> \in Seq(RouteSteps) /\ <<"accept">> \in Seq(RouteSteps)
       /\ <<"token", "active">> \in Seq(RouteSteps) /\ <<"document">> \in Seq(RouteSteps)
  BY RouteStepsAre DEF RouteSteps
<1>11. /\ Range(<<>>) = {} /\ Range(<<"contentType", "json">>) = {"contentType", "json"}
       /\ Range(<<"accept">>) = {"accept"} /\ Range(<<"token", "active">>) = {"token", "active"}
       /\ Range(<<"document">>) = {"document"}
  BY DEF Range
<1>1. w \in Seq(RouteSteps) /\ Range(w) = IF HasBody(r) THEN {"contentType", "json"} ELSE {}
  BY <1>10, <1>11
<1>6. x \in Seq(RouteSteps) /\ Range(x) = {"accept"}
  BY <1>10, <1>11
<1>7. y \in Seq(RouteSteps) /\ Range(y) = IF Guarded(c, r) THEN {"token", "active"} ELSE {}
  BY <1>10, <1>11
<1>8. z \in Seq(RouteSteps) /\ Range(z) = IF HasBody(r) THEN {"document"} ELSE {}
  BY <1>10, <1>11
<1>2. Admission(c, r) = ((w \o x) \o y) \o z
  BY DEF Admission
<1> HIDE DEF w, x, y, z
<1>9. \A a, b \in Seq(RouteSteps) : a \o b \in Seq(RouteSteps) /\ Range(a \o b) = Range(a) \cup Range(b)
  BY RangeConcatenation
<1>3. PICK m : m = w \o x
  OBVIOUS
<1>4. m \in Seq(RouteSteps) /\ Range(m) = Range(w) \cup Range(x)
  BY <1>1, <1>3, <1>6, <1>9
<1>5. PICK n : n = m \o y
  OBVIOUS
<1>12. n \in Seq(RouteSteps) /\ Range(n) = Range(m) \cup Range(y)
  BY <1>4, <1>5, <1>7, <1>9
<1>13. PICK o : o = n \o z
  OBVIOUS
<1>14. o \in Seq(RouteSteps) /\ Range(o) = Range(n) \cup Range(z)
  BY <1>8, <1>9, <1>12, <1>13
<1>15. Admission(c, r) = o
  BY <1>2, <1>3, <1>5, <1>13
<1>16. Range(o) = ((Range(w) \cup Range(x)) \cup Range(y)) \cup Range(z)
  BY <1>4, <1>12, <1>14
<1> QED
  BY <1>1, <1>6, <1>7, <1>8, <1>14, <1>15, <1>16

\* What is checked of the linkage of a document.
LEMMA LinkageIs ==
    ASSUME NEW c
    PROVE  /\ Linkage(c) \in Seq(RouteSteps)
           /\ Range(Linkage(c)) = IF c.schema THEN {"linkageType", "linkageId", "linkageTwice", "linkageFound"} ELSE {}
<1>1. <<>> \in Seq(RouteSteps) /\ <<"linkageType", "linkageId", "linkageTwice", "linkageFound">> \in Seq(RouteSteps)
  BY RouteStepsAre DEF RouteSteps
<1>2. /\ Range(<<>>) = {}
      /\ Range(<<"linkageType", "linkageId", "linkageTwice", "linkageFound">>)
            = {"linkageType", "linkageId", "linkageTwice", "linkageFound"}
  BY DEF Range
<1> QED
  BY <1>1, <1>2 DEF Linkage

\* A handler that takes linkage inside its transaction.
LEMMA WriteIs ==
    ASSUME NEW c, NEW a \in Seq(RouteSteps), NEW b \in Seq(RouteSteps),
           "begin" \in Range(a), "commit" \notin Range(a), CommitsLast(b)
    PROVE  LET h == a \o Linkage(c) \o b IN
           /\ h \in Seq(RouteSteps) /\ Range(h) = Range(a) \cup Range(Linkage(c)) \cup Range(b)
           /\ CommitsLast(h) /\ Ahead("begin", "commit", h, {})
<1> DEFINE l == Linkage(c)
           m == a \o l
           h == a \o l \o b
<1>1. l \in Seq(RouteSteps) /\ "commit" \notin Range(l)
  <2>1. Range(Linkage(c)) \subseteq {"linkageType", "linkageId", "linkageTwice", "linkageFound"}
    BY LinkageIs
  <2>2. "commit" \notin Range(Linkage(c))
    BY <2>1
  <2> QED
    BY <2>2, LinkageIs DEF l
<1> HIDE DEF l
<1>2. m \in Seq(RouteSteps) /\ Range(m) = Range(a) \cup Range(l)
  BY <1>1, InTurn
<1> HIDE DEF m
<1>3. "begin" \in Range(m) /\ "commit" \notin Range(m)
  BY <1>1, <1>2
<1>4. h = m \o b
  BY DEF m
<1> HIDE DEF h
<1>5. h \in Seq(RouteSteps) /\ Range(h) = Range(m) \cup Range(b)
  BY <1>2, <1>4, InTurn
<1>6. CommitsLast(h) /\ Ahead("begin", "commit", h, {})
  BY <1>2, <1>3, <1>4, InTurn
<1> QED
  BY <1>2, <1>5, <1>6 DEF l, h

\* The errors a route declares, and the gaps of its declaration.
Known(c, r) == Declared(c, r) \cup Undeclared(c, r)

\* What holds of the steps of a handler, and of those of a plan.
WellPlanned(c, r, steps) ==
    /\ steps \in Seq(RouteSteps)
    /\ CommitsLast(steps) /\ Ahead("begin", "commit", steps, {})
    /\ "commit" \in Range(steps) => r \notin Reads
    /\ "begin" \in Range(steps) => r \notin Reads
    /\ r \notin Reads => "commit" \in Range(steps)
    /\ \A step \in Range(steps) \cap DOMAIN Status : Refusals(c, step) \subseteq Known(c, r)

\* Steps are answered with what is known, if their statuses are, and hooks where they run.
LEMMA RefusalsKnown ==
    ASSUME NEW c, NEW r, NEW steps,
           \A step \in steps \cap DOMAIN Status : Status[step] \in Known(c, r),
           "hook" \in steps => r \in {"create", "update", "upsert", "destroy"}
    PROVE  \A step \in steps \cap DOMAIN Status : Refusals(c, step) \subseteq Known(c, r)
<1>1. r \in {"create", "update", "upsert", "destroy"} => c.hooks \subseteq Undeclared(c, r)
  BY DEF Undeclared
<1> SUFFICES ASSUME NEW step \in steps \cap DOMAIN Status PROVE Refusals(c, step) \subseteq Known(c, r)
  OBVIOUS
<1>2. Status[step] \in Known(c, r)
  BY DEF Known
<1>3. step = "hook" => c.hooks \subseteq Known(c, r)
  BY <1>1 DEF Known
<1> QED
  BY <1>2, <1>3 DEF Refusals

\* What is flushed, with hooks before and after it, then rendered and committed.
LEMMA PersistedIs ==
    /\ Persisted \in Seq(RouteSteps)
    /\ Range(Persisted) = {"hook", "integrity", "rendered", "commit"}
    /\ CommitsLast(Persisted)
<1>1. Persisted \in Seq(RouteSteps)
  BY RouteStepsAre DEF RouteSteps, Persisted
<1>2. Range(Persisted) = {"hook", "integrity", "rendered", "commit"}
  BY DEF Range, Persisted
<1>3. CommitsLast(Persisted)
  BY DEF CommitsLast, Persisted
<1> QED
  BY <1>1, <1>2, <1>3

\* The handlers begin before they commit, commit last, and fail as declared.
LEMMA HandlerIs ==
    ASSUME NEW c \in Controllers, NEW r \in Registered(c)
    PROVE  WellPlanned(c, r, Handler(c, r))
<1> DEFINE h == Handler(c, r)
<1>1. r \in Reads \cup {"create", "update", "destroy", "upsert"} \cup Mutations
  BY DEF Registered
<1>2. CASE r = "index"
  <2>1. h = <<"query", "database", "rendered">>
    BY <1>2, Zenon DEF Handler, Mutations
  <2>2. h \in Seq(RouteSteps) /\ Range(h) = {"query", "database", "rendered"}
    <3>1. h \in Seq(RouteSteps)
      BY <2>1, RouteStepsAre DEF RouteSteps
    <3>2. Range(h) = {"query", "database", "rendered"}
      BY <2>1 DEF Range
    <3> QED
      BY <3>1, <3>2
  <2>3. \A step \in Range(h) : Status[step] \in {400, 500}
    BY <2>2 DEF Status
  <2>4. {400, 500} \subseteq Declared(c, r)
    BY <1>2 DEF Declared
  <2>6. \A step \in Range(h) \cap DOMAIN Status : Refusals(c, step) \subseteq Known(c, r)
    <3>1. \A step \in Range(h) \cap DOMAIN Status : Status[step] \in Known(c, r)
      BY <2>2, <2>3, <2>4 DEF Known
    <3>2. "hook" \in Range(h) => r \in {"create", "update", "upsert", "destroy"}
      BY <1>2, <2>2
    <3> HIDE DEF h
    <3> QED
      BY <3>1, <3>2, RefusalsKnown
  <2>5. CommitsLast(h) /\ Ahead("begin", "commit", h, {})
    BY <2>2 DEF CommitsLast, Ahead, Range
  <2> QED
    BY <1>2, <2>2, <2>5, <2>6 DEF WellPlanned, Reads
<1>3. CASE r \in {"show", "relationship", "related"}
  <2>1. h = <<"query", "coercedId", "database", "found", "rendered">>
    BY <1>3, Zenon DEF Handler, Mutations
  <2>2. h \in Seq(RouteSteps) /\ Range(h) = {"query", "coercedId", "database", "found", "rendered"}
    <3>1. h \in Seq(RouteSteps)
      BY <2>1, RouteStepsAre DEF RouteSteps
    <3>2. Range(h) = {"query", "coercedId", "database", "found", "rendered"}
      BY <2>1 DEF Range
    <3> QED
      BY <3>1, <3>2
  <2>3. \A step \in Range(h) : Status[step] \in {400, 404, 500}
    BY <2>2 DEF Status
  <2>4. {400, 404, 500} \subseteq Declared(c, r)
    BY <1>3 DEF Declared, Mutations
  <2>6. \A step \in Range(h) \cap DOMAIN Status : Refusals(c, step) \subseteq Known(c, r)
    <3>1. \A step \in Range(h) \cap DOMAIN Status : Status[step] \in Known(c, r)
      BY <2>2, <2>3, <2>4 DEF Known
    <3>2. "hook" \in Range(h) => r \in {"create", "update", "upsert", "destroy"}
      BY <1>3, <2>2
    <3> HIDE DEF h
    <3> QED
      BY <3>1, <3>2, RefusalsKnown
  <2>5. CommitsLast(h) /\ Ahead("begin", "commit", h, {})
    BY <2>2 DEF CommitsLast, Ahead, Range
  <2> QED
    BY <1>3, <2>2, <2>5, <2>6 DEF WellPlanned, Reads
<1>4. CASE r = "destroy" /\ ~ c.referred
  <2>1. h = <<"query", "begin", "coercedId", "database", "found", "hook", "hook", "commit">>
    BY <1>4, Zenon DEF Handler, Mutations
  <2>2. h \in Seq(RouteSteps) /\ Range(h) = {"query", "begin", "coercedId", "database", "found", "hook", "commit"}
    <3>1. h \in Seq(RouteSteps)
      BY <2>1, RouteStepsAre DEF RouteSteps
    <3>2. Range(h) = {"query", "begin", "coercedId", "database", "found", "hook", "commit"}
      BY <2>1 DEF Range
    <3> QED
      BY <3>1, <3>2
  <2>3. \A step \in Range(h) \cap DOMAIN Status : Status[step] \in {400, 404, 500}
    BY <2>2, RouteStepsAre DEF Status
  <2>4. {400, 404, 500} \subseteq Declared(c, r)
    BY <1>4 DEF Declared, Mutations
  <2>5. CommitsLast(h) /\ Ahead("begin", "commit", h, {})
    <3>1. DOMAIN h = 1 .. 8 /\ Len(h) = 8 /\ h[2] = "begin" /\ \A k \in 1 .. 8 : h[k] = "commit" => k = 8
      BY <2>1
    <3> QED
      BY <3>1 DEF CommitsLast, Ahead
  <2>6. \A step \in Range(h) \cap DOMAIN Status : Refusals(c, step) \subseteq Known(c, r)
    <3>1. \A step \in Range(h) \cap DOMAIN Status : Status[step] \in Known(c, r)
      BY <2>2, <2>3, <2>4 DEF Known
    <3>2. "hook" \in Range(h) => r \in {"create", "update", "upsert", "destroy"}
      BY <1>4, <2>2
    <3> HIDE DEF h
    <3> QED
      BY <3>1, <3>2, RefusalsKnown
  <2> QED
    BY <1>4, <2>2, <2>5, <2>6 DEF WellPlanned, Reads
<1>5. CASE r = "create"
  <2> DEFINE a == <<"query", "type", "noId", "begin", "database">>
             b == Persisted
  <2>1. h = a \o Linkage(c) \o b
    BY <1>5 DEF Handler, Reads, Mutations
  <2>2. a \in Seq(RouteSteps) /\ b \in Seq(RouteSteps)
    BY RouteStepsAre, PersistedIs DEF RouteSteps
  <2>3. /\ Range(a) = {"query", "type", "noId", "begin", "database"}
        /\ Range(b) = {"hook", "integrity", "rendered", "commit"}
    <3>1. Range(a) = {"query", "type", "noId", "begin", "database"}
      BY DEF Range
    <3> QED
      BY <3>1, PersistedIs
  <2>4. CommitsLast(b)
    BY PersistedIs
  <2> HIDE DEF a, b
  <2>5. "begin" \in Range(a) /\ "commit" \notin Range(a)
    BY <2>3
  <2>6. /\ h \in Seq(RouteSteps) /\ Range(h) = Range(a) \cup Range(Linkage(c)) \cup Range(b)
        /\ CommitsLast(h) /\ Ahead("begin", "commit", h, {})
    <3> HIDE DEF h
    <3> QED
      BY <2>1, <2>2, <2>4, <2>5, WriteIs
  <2> HIDE DEF h
  <2>7. r \notin Reads /\ "commit" \in Range(h)
    BY <1>5, <2>3, <2>6 DEF Reads, Mutations
  <2>8. \A step \in Range(a) \cup Range(Linkage(c)) \cup Range(b) :
            step \in DOMAIN Status => Status[step] \in {400, 403, 409, 500} \cup (IF c.schema THEN {404} ELSE {})
    <3>1. Range(Linkage(c)) \subseteq IF c.schema THEN {"linkageType", "linkageId", "linkageTwice", "linkageFound"} ELSE {}
      BY LinkageIs
    <3> QED
      BY <2>3, <3>1, RouteStepsAre DEF Status
  <2>9. {400, 403, 409, 500} \cup (IF c.schema THEN {404} ELSE {}) \subseteq Declared(c, r) \cup Undeclared(c, r)
    <3>1. {400, 403, 406, 409, 415, 422, 500} \subseteq Declared(c, r)
      BY <1>5 DEF Declared, Reads, Mutations
    <3>2. (IF c.schema THEN {404} ELSE {}) \subseteq Undeclared(c, r)
      BY <1>5 DEF Undeclared
    <3> QED
      BY <3>1, <3>2
  <2>10. \A step \in Range(h) \cap DOMAIN Status : Refusals(c, step) \subseteq Known(c, r)
    <3>1. \A step \in Range(h) \cap DOMAIN Status : Status[step] \in Known(c, r)
      BY <2>6, <2>8, <2>9 DEF Known
    <3>2. "hook" \in Range(h) => r \in {"create", "update", "upsert", "destroy"}
      BY <1>5
    <3> QED
      BY <3>1, <3>2, RefusalsKnown
  <2>11. WellPlanned(c, r, h)
    BY <2>6, <2>7, <2>10 DEF WellPlanned
  <2> QED
    BY <2>11 DEF h
<1>6. CASE r = "update"
  <2> DEFINE a == <<"query", "type", "id", "empty", "begin", "coercedId", "database", "found">>
             b == Persisted
  <2>1. h = a \o Linkage(c) \o b
    BY <1>6 DEF Handler, Reads, Mutations
  <2>2. a \in Seq(RouteSteps) /\ b \in Seq(RouteSteps)
    BY RouteStepsAre, PersistedIs DEF RouteSteps
  <2>3. /\ Range(a) = {"query", "type", "id", "empty", "begin", "coercedId", "database", "found"}
        /\ Range(b) = {"hook", "integrity", "rendered", "commit"}
    <3>1. Range(a) = {"query", "type", "id", "empty", "begin", "coercedId", "database", "found"}
      BY DEF Range
    <3> QED
      BY <3>1, PersistedIs
  <2>4. CommitsLast(b)
    BY PersistedIs
  <2> HIDE DEF a, b
  <2>5. "begin" \in Range(a) /\ "commit" \notin Range(a)
    BY <2>3
  <2>6. /\ h \in Seq(RouteSteps) /\ Range(h) = Range(a) \cup Range(Linkage(c)) \cup Range(b)
        /\ CommitsLast(h) /\ Ahead("begin", "commit", h, {})
    <3> HIDE DEF h
    <3> QED
      BY <2>1, <2>2, <2>4, <2>5, WriteIs
  <2> HIDE DEF h
  <2>7. r \notin Reads /\ "commit" \in Range(h)
    BY <1>6, <2>3, <2>6 DEF Reads, Mutations
  <2>8. \A step \in Range(a) \cup Range(Linkage(c)) \cup Range(b) :
            step \in DOMAIN Status => Status[step] \in {400, 404, 409, 422, 500}
    <3>1. Range(Linkage(c)) \subseteq {"linkageType", "linkageId", "linkageTwice", "linkageFound"}
      BY LinkageIs
    <3> QED
      BY <2>3, <3>1, RouteStepsAre DEF Status
  <2>9. {400, 404, 409, 422, 500} \subseteq Declared(c, r)
    BY <1>6 DEF Declared
  <2>10. \A step \in Range(h) \cap DOMAIN Status : Refusals(c, step) \subseteq Known(c, r)
    <3>1. \A step \in Range(h) \cap DOMAIN Status : Status[step] \in Known(c, r)
      BY <2>6, <2>8, <2>9 DEF Known
    <3>2. "hook" \in Range(h) => r \in {"create", "update", "upsert", "destroy"}
      BY <1>6
    <3> QED
      BY <3>1, <3>2, RefusalsKnown
  <2>11. WellPlanned(c, r, h)
    BY <2>6, <2>7, <2>10 DEF WellPlanned
  <2> QED
    BY <2>11 DEF h
<1>7. CASE r = "upsert"
  <2> DEFINE a == <<"query", "type", "id", "coercedId", "begin", "database">>
             b == Persisted
  <2>1. h = a \o Linkage(c) \o b
    BY <1>7 DEF Handler, Reads, Mutations
  <2>2. a \in Seq(RouteSteps) /\ b \in Seq(RouteSteps)
    BY RouteStepsAre, PersistedIs DEF RouteSteps
  <2>3. /\ Range(a) = {"query", "type", "id", "coercedId", "begin", "database"}
        /\ Range(b) = {"hook", "integrity", "rendered", "commit"}
    <3>1. Range(a) = {"query", "type", "id", "coercedId", "begin", "database"}
      BY DEF Range
    <3> QED
      BY <3>1, PersistedIs
  <2>4. CommitsLast(b)
    BY PersistedIs
  <2> HIDE DEF a, b
  <2>5. "begin" \in Range(a) /\ "commit" \notin Range(a)
    BY <2>3
  <2>6. /\ h \in Seq(RouteSteps) /\ Range(h) = Range(a) \cup Range(Linkage(c)) \cup Range(b)
        /\ CommitsLast(h) /\ Ahead("begin", "commit", h, {})
    <3> HIDE DEF h
    <3> QED
      BY <2>1, <2>2, <2>4, <2>5, WriteIs
  <2> HIDE DEF h
  <2>7. r \notin Reads /\ "commit" \in Range(h)
    BY <1>7, <2>3, <2>6 DEF Reads, Mutations
  <2>8. \A step \in Range(a) \cup Range(Linkage(c)) \cup Range(b) :
            step \in DOMAIN Status => Status[step] \in {400, 404, 409, 422, 500}
    <3>1. Range(Linkage(c)) \subseteq {"linkageType", "linkageId", "linkageTwice", "linkageFound"}
      BY LinkageIs
    <3> QED
      BY <2>3, <3>1, RouteStepsAre DEF Status
  <2>9. {400, 404, 409, 422, 500} \subseteq Declared(c, r)
    BY <1>7 DEF Declared
  <2>10. \A step \in Range(h) \cap DOMAIN Status : Refusals(c, step) \subseteq Known(c, r)
    <3>1. \A step \in Range(h) \cap DOMAIN Status : Status[step] \in Known(c, r)
      BY <2>6, <2>8, <2>9 DEF Known
    <3>2. "hook" \in Range(h) => r \in {"create", "update", "upsert", "destroy"}
      BY <1>7
    <3> QED
      BY <3>1, <3>2, RefusalsKnown
  <2>11. WellPlanned(c, r, h)
    BY <2>6, <2>7, <2>10 DEF WellPlanned
  <2> QED
    BY <2>11 DEF h
<1>8. CASE r \in Mutations
  <2> DEFINE a == <<"query", "begin", "coercedId", "database", "found">>
             b == <<"integrity", "commit">>
  <2>1. h = a \o Linkage(c) \o b
    BY <1>8 DEF Handler, Reads, Mutations
  <2>2. a \in Seq(RouteSteps) /\ b \in Seq(RouteSteps)
    BY RouteStepsAre, PersistedIs DEF RouteSteps
  <2>3. Range(a) = {"query", "begin", "coercedId", "database", "found"} /\ Range(b) = {"integrity", "commit"}
    BY DEF Range
  <2>4. CommitsLast(b)
    BY DEF CommitsLast
  <2> HIDE DEF a, b
  <2>5. "begin" \in Range(a) /\ "commit" \notin Range(a)
    BY <2>3
  <2>6. /\ h \in Seq(RouteSteps) /\ Range(h) = Range(a) \cup Range(Linkage(c)) \cup Range(b)
        /\ CommitsLast(h) /\ Ahead("begin", "commit", h, {})
    <3> HIDE DEF h
    <3> QED
      BY <2>1, <2>2, <2>4, <2>5, WriteIs
  <2> HIDE DEF h
  <2>7. r \notin Reads /\ "commit" \in Range(h)
    BY <1>8, <2>3, <2>6 DEF Reads, Mutations
  <2>8. \A step \in Range(a) \cup Range(Linkage(c)) \cup Range(b) :
            step \in DOMAIN Status => Status[step] \in {400, 404, 409, 422, 500}
    <3>1. Range(Linkage(c)) \subseteq {"linkageType", "linkageId", "linkageTwice", "linkageFound"}
      BY LinkageIs
    <3> QED
      BY <2>3, <3>1, RouteStepsAre DEF Status
  <2>9. {400, 404, 409, 422, 500} \subseteq Declared(c, r)
    BY <1>8 DEF Declared
  <2>10. \A step \in Range(h) \cap DOMAIN Status : Refusals(c, step) \subseteq Known(c, r)
    <3>3. Range(Linkage(c)) \subseteq {"linkageType", "linkageId", "linkageTwice", "linkageFound"}
      BY LinkageIs
    <3>1. \A step \in Range(h) \cap DOMAIN Status : Status[step] \in Known(c, r)
      BY <2>6, <2>8, <2>9 DEF Known
    <3>2. "hook" \in Range(h) => r \in {"create", "update", "upsert", "destroy"}
      BY <2>3, <2>6, <3>3
    <3> QED
      BY <3>1, <3>2, RefusalsKnown
  <2>11. WellPlanned(c, r, h)
    BY <2>6, <2>7, <2>10 DEF WellPlanned
  <2> QED
    BY <2>11 DEF h
<1>9. CASE r = "destroy" /\ c.referred
  <2>1. h = <<"query", "begin", "coercedId", "database", "found", "hook", "integrity", "hook", "commit">>
    BY <1>9, Zenon DEF Handler, Mutations
  <2>2. h \in Seq(RouteSteps) /\ Range(h) = {"query", "begin", "coercedId", "database", "found", "hook", "integrity", "commit"}
    <3>1. h \in Seq(RouteSteps)
      BY <2>1, RouteStepsAre DEF RouteSteps
    <3>2. Range(h) = {"query", "begin", "coercedId", "database", "found", "hook", "integrity", "commit"}
      BY <2>1 DEF Range
    <3> QED
      BY <3>1, <3>2
  <2>3. \A step \in Range(h) \cap DOMAIN Status : Status[step] \in {400, 404, 409, 500}
    BY <2>2, RouteStepsAre DEF Status
  <2>4. {400, 404, 409, 500} \subseteq Declared(c, r) \cup Undeclared(c, r)
    BY <1>9 DEF Declared, Undeclared, Mutations
  <2>5. CommitsLast(h) /\ Ahead("begin", "commit", h, {})
    <3>1. DOMAIN h = 1 .. 9 /\ Len(h) = 9 /\ h[2] = "begin" /\ \A k \in 1 .. 9 : h[k] = "commit" => k = 9
      BY <2>1
    <3> QED
      BY <3>1 DEF CommitsLast, Ahead
  <2>6. \A step \in Range(h) \cap DOMAIN Status : Refusals(c, step) \subseteq Known(c, r)
    <3>1. \A step \in Range(h) \cap DOMAIN Status : Status[step] \in Known(c, r)
      BY <2>2, <2>3, <2>4 DEF Known
    <3>2. "hook" \in Range(h) => r \in {"create", "update", "upsert", "destroy"}
      BY <1>9, <2>2
    <3> HIDE DEF h
    <3> QED
      BY <3>1, <3>2, RefusalsKnown
  <2> QED
    BY <1>9, <2>2, <2>5, <2>6 DEF WellPlanned, Reads
<1> QED
  BY <1>1, <1>2, <1>3, <1>4, <1>5, <1>6, <1>7, <1>8, <1>9 DEF Reads

\* Every error of an admission check is declared, but for those of a guard of reads.
LEMMA AdmissionIsKnown ==
    ASSUME NEW c, NEW r
    PROVE  \A step \in Range(Admission(c, r)) : Refusals(c, step) \subseteq Known(c, r)
<1>1. 406 \in Declared(c, r)
  BY DEF Declared
<1>2. HasBody(r) => {415, 422} \subseteq Declared(c, r)
  BY DEF Declared, HasBody, Mutations
<1>3. Guarded(c, r) => {401, 403} \subseteq Known(c, r)
  BY DEF Declared, Undeclared, Guarded, Known
<1>4. /\ Status["accept"] = 406 /\ Status["contentType"] = 415 /\ Status["json"] = 422 /\ Status["document"] = 422
      /\ Status["token"] = 401 /\ Status["active"] = 403
  BY DEF Status
<1>5. ASSUME NEW step \in Range(Admission(c, r))
      PROVE  \/ step = "accept"
             \/ HasBody(r) /\ step \in {"contentType", "json", "document"}
             \/ Guarded(c, r) /\ step \in {"token", "active"}
  BY <1>5, AdmissionIs
<1>6. ASSUME NEW step \in Range(Admission(c, r)) PROVE step # "hook" /\ Status[step] \in Known(c, r)
  BY <1>1, <1>2, <1>3, <1>4, <1>5 DEF Known
<1> QED
  BY <1>6 DEF Refusals

\* So do the plans, in which the guards come before all that tells of what is stored.
LEMMA PlanIs ==
    ASSUME NEW c \in Controllers, NEW r \in Registered(c), NEW plan, plan = Plan(c, r)
    PROVE  /\ WellPlanned(c, r, plan)
           /\ Guarded(c, r) => {"token", "active"} \subseteq Range(plan)
           /\ Guarded(c, r) => \A step \in Telling : Ahead("token", step, plan, {}) /\ Ahead("active", step, plan, {})
<1>1. PICK a : a = Admission(c, r)
  OBVIOUS
<1>2. PICK h : h = Handler(c, r)
  OBVIOUS
<1>3. plan = a \o h
  BY <1>1, <1>2 DEF Plan
<1>4. WellPlanned(c, r, h)
  BY <1>2, HandlerIs
<1>5. /\ a \in Seq(RouteSteps)
      /\ Range(a) = {"accept"} \cup (IF HasBody(r) THEN {"contentType", "json", "document"} ELSE {})
                              \cup (IF Guarded(c, r) THEN {"token", "active"} ELSE {})
  BY <1>1, AdmissionIs
<1>6. "begin" \notin Range(a) /\ "commit" \notin Range(a) /\ \A step \in Telling : step \notin Range(a)
  BY <1>5, RouteStepsAre
<1>7. /\ plan \in Seq(RouteSteps) /\ Range(plan) = Range(a) \cup Range(h)
      /\ CommitsLast(plan) /\ Ahead("begin", "commit", plan, {})
  <2>1. h \in Seq(RouteSteps) /\ CommitsLast(h) /\ Ahead("begin", "commit", h, {})
    BY <1>4 DEF WellPlanned
  <2>2. a \in Seq(RouteSteps) /\ "begin" \notin Range(a) /\ "commit" \notin Range(a)
    BY <1>5, <1>6
  <2>3. /\ plan \in Seq(RouteSteps) /\ Range(plan) = Range(a) \cup Range(h)
        /\ CommitsLast(plan)
        /\ \A x, y : y \notin Range(a) /\ Ahead(x, y, h, {}) => Ahead(x, y, plan, {})
    BY <1>3, <2>1, <2>2, InTurn
  <2> QED
    BY <2>1, <2>2, <2>3
<1>8. \A step \in Range(plan) \cap DOMAIN Status : Refusals(c, step) \subseteq Known(c, r)
  BY <1>1, <1>4, <1>7, AdmissionIsKnown DEF WellPlanned
<1>9. WellPlanned(c, r, plan)
  BY <1>4, <1>6, <1>7, <1>8 DEF WellPlanned
<1>10. ASSUME Guarded(c, r), NEW step \in Telling
       PROVE  Ahead("token", step, plan, {}) /\ Ahead("active", step, plan, {})
  <2>1. "token" \in Range(a) /\ "active" \in Range(a)
    BY <1>5, <1>10
  <2>2. h \in Seq(RouteSteps) /\ a \in Seq(RouteSteps) /\ step \notin Range(a)
    BY <1>4, <1>5, <1>6, <1>10 DEF WellPlanned
  <2>3. \A x, y : x \in Range(a) /\ y \notin Range(a) => Ahead(x, y, plan, {})
    BY <1>3, <2>2, InTurn
  <2> QED
    BY <2>1, <2>2, <2>3
<1>11. Guarded(c, r) => {"token", "active"} \subseteq Range(plan)
  BY <1>5, <1>7
<1> QED
  BY <1>9, <1>10, <1>11

\* Errors are told from successes, and from no answer.
LEMMA StatusesAre ==
    /\ \A check \in DOMAIN Status : Status[check] \in 400 .. 599
    /\ \A check \in DOMAIN Status : Status[check] # 0
    /\ Status["database"] = 500 /\ Status["database"] # 404 /\ "database" \in DOMAIN Status
    /\ \A r : Successes(r) \subseteq {200, 201, 204}
    /\ \A c : Refusals(c, "database") = {500}
    /\ \A c \in Controllers : \A check \in DOMAIN Status : Refusals(c, check) \subseteq 400 .. 599
<1>1. \A check \in DOMAIN Status : Status[check] \in 400 .. 599
  BY RouteStepsAre DEF Status
<1>2. Status["database"] = 500 /\ Status["database"] # 404 /\ "database" \in DOMAIN Status
  BY DEF Status
<1>3. \A r : Successes(r) \subseteq {200, 201, 204}
  BY DEF Successes
<1>4. \A check \in DOMAIN Status : Status[check] # 0
  BY RouteStepsAre DEF Status
<1>5. \A c : Refusals(c, "database") = {500}
  BY <1>2 DEF Refusals
<1>6. \A c \in Controllers : c.hooks \subseteq 400 .. 599
  BY ControllersAssumption
<1>7. \A c \in Controllers : \A check \in DOMAIN Status : Refusals(c, check) \subseteq 400 .. 599
  BY <1>1, <1>6 DEF Refusals
<1> QED
  BY <1>1, <1>2, <1>3, <1>4, <1>5, <1>7

\* The initial states satisfy the invariant.
LEMMA RouteInitInv == RouteInit => RouteInv
<1> SUFFICES ASSUME RouteInit PROVE RouteInv
  OBVIOUS
<1>1. PICK plan : plan = Plan(controller, route)
  OBVIOUS
<1>2. /\ controller \in Controllers /\ route \in Registered(controller) /\ left = plan
      /\ passed = {} /\ transaction = "none" /\ answer = 0
  BY <1>1 DEF RouteInit
<1>3. /\ plan \in Seq(RouteSteps) /\ CommitsLast(plan) /\ Ahead("begin", "commit", plan, {})
      /\ Guarded(controller, route) =>
            \A step \in Telling : Ahead("token", step, plan, {}) /\ Ahead("active", step, plan, {})
  BY <1>1, <1>2, PlanIs DEF WellPlanned
<1>4. plan \in Seq(Range(plan))
  BY <1>3, LenProperties DEF Range
<1>5. transaction = Reached
  BY <1>2 DEF Reached
<1>6. OnPlan(plan)
  BY <1>2, <1>3, <1>4 DEF OnPlan
<1>7. GuardsAhead
  BY <1>2, <1>3 DEF GuardsAhead
<1>8. Outcome(plan)
  BY <1>2, <1>5 DEF Outcome
<1> QED
  BY <1>1, <1>6, <1>7, <1>8 DEF RouteInv

\* What the invariant says while steps are left, and what it says of the next one.
LEMMA NextStep ==
    ASSUME RouteInv, left # <<>>, NEW plan, plan = Plan(controller, route)
    PROVE  /\ controller \in Controllers /\ route \in Registered(controller)
           /\ answer = 0 /\ transaction = Reached /\ Range(plan) \subseteq passed \cup Range(left)
           /\ "commit" \notin passed
           /\ Check \in Range(plan) /\ Check \in Range(left)
           /\ Check = "commit" => "begin" \in passed
           /\ Guarded(controller, route) /\ Check \in Telling => Knowing
<1>1. /\ controller \in Controllers /\ route \in Registered(controller)
      /\ left \in Seq(Range(plan)) /\ Ahead("begin", "commit", left, passed)
      /\ answer = 0 /\ transaction = Reached /\ Range(plan) \subseteq passed \cup Range(left)
      /\ "commit" \notin passed
  BY DEF RouteInv, OnPlan, Outcome
<1>2. Guarded(controller, route) => \A step \in Telling :
            Ahead("token", step, left, passed) /\ Ahead("active", step, left, passed)
  BY DEF RouteInv, GuardsAhead
<1>3. /\ Check \in Range(plan) /\ Check \in Range(left)
      /\ \A x, y : Ahead(x, y, left, passed) /\ Check = y => x \in passed
  BY <1>1, StillAhead DEF Check
<1>4. Guarded(controller, route) /\ Check \in Telling => Knowing
  BY <1>2, <1>3 DEF Knowing
<1> QED
  BY <1>1, <1>3, <1>4

\* A step that is passed, with the transaction as it then should be.
LEMMA ProceedInv ==
    ASSUME RouteInv, left # <<>>, Proceed, UNCHANGED <<controller, route, answer>>, (transaction = Reached)'
    PROVE  RouteInv'
<1>1. PICK plan : plan = Plan(controller, route)
  OBVIOUS
<1>2. plan = Plan(controller', route') /\ controller' = controller /\ route' = route /\ answer' = answer
  BY <1>1
<1>3. PICK step : step = Check
  OBVIOUS
<1>4. left' = Tail(left) /\ passed' = passed \cup {step} /\ step = Head(left)
  BY <1>3 DEF Proceed, Check
<1>5. /\ controller \in Controllers /\ route \in Registered(controller)
      /\ answer = 0 /\ Range(plan) \subseteq passed \cup Range(left) /\ "commit" \notin passed
      /\ step \in Range(plan) /\ (step = "commit" => "begin" \in passed)
      /\ Guarded(controller, route) /\ step \in Telling => Knowing
  BY <1>1, <1>3, NextStep
<1>6. /\ left \in Seq(Range(plan)) /\ passed \subseteq Range(plan)
      /\ CommitsLast(left) /\ Ahead("begin", "commit", left, passed)
  BY <1>1 DEF RouteInv, OnPlan
<1>7. Guarded(controller, route) => \A x \in Telling :
        /\ x \in passed => Knowing
        /\ Ahead("token", x, left, passed) /\ Ahead("active", x, left, passed)
  BY DEF RouteInv, GuardsAhead
<1>8. /\ left' \in Seq(Range(plan)) /\ Range(left) \subseteq {step} \cup Range(left')
      /\ CommitsLast(left') /\ (step = "commit" => left' = <<>>)
      /\ \A x, y : Ahead(x, y, left, passed) => Ahead(x, y, left', passed')
  BY <1>4, <1>6, StillAhead
<1>9. Knowing => Knowing'
  BY <1>4 DEF Knowing
<1>10. Guarded(controller', route') => \A x \in Telling :
        /\ x \in passed' => Knowing'
        /\ Ahead("token", x, left', passed') /\ Ahead("active", x, left', passed')
  BY <1>2, <1>4, <1>5, <1>7, <1>8, <1>9
<1>11. "commit" \in passed' => left' = <<>> /\ "begin" \in passed'
  BY <1>4, <1>5, <1>8
<1>12. Range(plan) \subseteq passed' \cup Range(left')
  BY <1>4, <1>5, <1>8
<1>13. passed' \subseteq Range(plan) /\ Ahead("begin", "commit", left', passed')
  BY <1>4, <1>5, <1>6, <1>8
<1>14. OnPlan(plan)'
  BY <1>2, <1>5, <1>8, <1>11, <1>13 DEF OnPlan
<1>15. GuardsAhead'
  BY <1>10 DEF GuardsAhead
<1>16. Outcome(plan)'
  BY <1>2, <1>5, <1>12 DEF Outcome
<1> QED
  BY <1>2, <1>14, <1>15, <1>16 DEF RouteInv

\* No steps are in order.
LEMMA NothingLeft ==
    ASSUME NEW T
    PROVE  <<>> \in Seq(T) /\ CommitsLast(<<>>) /\ \A x, y, done : Ahead(x, y, <<>>, done)
<1>1. PICK none \in Seq(T) : none = <<>>
  BY EmptySeq
<1>2. DOMAIN none = 1 .. 0
  BY <1>1, EmptySeq, LenProperties
<1>3. \A k \in 1 .. 0 : FALSE
  OBVIOUS
<1>4. CommitsLast(none) /\ \A x, y, done : Ahead(x, y, none, done)
  BY <1>2, <1>3 DEF CommitsLast, Ahead
<1> QED
  BY <1>1, <1>4

\* A request that is refused by a check, or by the commit.
LEMMA RefusedInv ==
    ASSUME RouteInv, left # <<>>, NEW check \in DOMAIN Status,
           check \in passed \cup {Check, "database"}, answer' \in Refusals(controller, check), left' = <<>>, UNCHANGED <<controller, route, passed>>,
           transaction' = IF "begin" \in passed THEN "rolled back" ELSE "none"
    PROVE  RouteInv'
<1>1. PICK plan : plan = Plan(controller, route)
  OBVIOUS
<1>2. plan = Plan(controller', route') /\ controller' = controller /\ route' = route /\ passed' = passed
  BY <1>1
<1>3. /\ controller \in Controllers /\ route \in Registered(controller) /\ "commit" \notin passed
      /\ Check \in Range(plan)
      /\ Guarded(controller, route) /\ Check \in Telling => Knowing
  BY <1>1, NextStep
<1>4. passed \subseteq Range(plan) /\ (Guarded(controller, route) => \A x \in Telling : x \in passed => Knowing)
  BY <1>1 DEF RouteInv, OnPlan, GuardsAhead
<1>5. left' \in Seq(Range(plan)) /\ CommitsLast(left') /\ \A x, y : Ahead(x, y, left', passed')
  BY NothingLeft
<1>6. Guarded(controller, route) /\ answer' = 404 => Knowing
  <2>1. answer' = 404 => check \in Telling
    BY DEF Telling, Refusals
  <2>2. CASE check = "database"
    <3>1. Status["database"] # 404
      BY StatusesAre
    <3>2. check # "hook"
      BY <2>2
    <3>3. answer' = Status["database"]
      BY <2>2, <3>2 DEF Refusals
    <3> QED
      BY <3>1, <3>3
  <2>3. CASE check \in passed \cup {Check}
    BY <1>3, <1>4, <2>1, <2>3
  <2> QED
    BY <2>2, <2>3
<1>7. check \in {"database"} \cup (DOMAIN Status \cap Range(plan))
  BY <1>3, <1>4
<1>8. Knowing' = Knowing
  BY <1>2 DEF Knowing
<1>9. OnPlan(plan)'
  BY <1>2, <1>3, <1>4, <1>5 DEF OnPlan
<1>10. GuardsAhead'
  BY <1>2, <1>4, <1>5, <1>8 DEF GuardsAhead
<1>11. Outcome(plan)'
  BY <1>2, <1>3, <1>6, <1>7, <1>8 DEF Outcome
<1> QED
  BY <1>2, <1>9, <1>10, <1>11 DEF RouteInv

\* Every step preserves the invariant.
LEMMA RouteNextInv == RouteInv /\ [RouteNext]_routeVars => RouteInv'
<1> SUFFICES ASSUME RouteInv, [RouteNext]_routeVars PROVE RouteInv'
  OBVIOUS
<1>1. PICK plan : plan = Plan(controller, route)
  OBVIOUS
<1>2. "begin" \notin DOMAIN Status /\ "commit" \notin DOMAIN Status
  BY RouteStepsAre
<1>3. left # <<>> => transaction = (IF "begin" \in passed THEN "open" ELSE "none") /\ "commit" \notin passed
  BY <1>1, NextStep DEF Reached
<1>4. CASE Pass
  <2>1. (transaction = Reached)'
    BY <1>2, <1>3, <1>4 DEF Pass, Proceed, Reached
  <2> QED
    BY <1>4, <2>1, ProceedInv DEF Pass
<1>5. CASE Fail
  <2>1. transaction' = IF "begin" \in passed THEN "rolled back" ELSE "none"
    BY <1>3, <1>5 DEF Fail
  <2> QED
    BY <1>5, <2>1, RefusedInv DEF Fail
<1>6. CASE Begin
  <2>1. (transaction = Reached)'
    BY <1>3, <1>6 DEF Begin, Proceed, Reached
  <2> QED
    BY <1>6, <2>1, ProceedInv DEF Begin
<1>7. CASE Commit
  <2>1. (transaction = Reached)'
    BY <1>7 DEF Commit, Proceed, Reached
  <2> QED
    BY <1>7, <2>1, ProceedInv DEF Commit
<1>8. CASE CommitFails
  <2>1. "begin" \in passed
    BY <1>1, <1>8, NextStep DEF CommitFails
  <2> QED
    <3>1. /\ left # <<>> /\ left' = <<>>
          /\ UNCHANGED <<controller, route, passed>> /\ transaction' = "rolled back"
      BY <1>8 DEF CommitFails
    <3>2. PICK check \in DOMAIN Status :
            check \in passed \cup {"database"} /\ answer' \in Refusals(controller, check)
      BY <1>8, RouteStepsAre DEF CommitFails
    <3>3. transaction' = IF "begin" \in passed THEN "rolled back" ELSE "none"
      BY <2>1, <3>1
    <3> QED
      BY <3>1, <3>2, <3>3, RefusedInv
<1>9. CASE Succeed
  <2>1. /\ left = <<>> /\ answer = 0 /\ answer' \in Successes(route)
        /\ controller' = controller /\ route' = route /\ left' = left /\ passed' = passed
        /\ transaction' = transaction
    BY <1>9 DEF Succeed
  <2>2. answer \notin Successes(route) /\ \A check \in DOMAIN Status : answer \notin Refusals(controller, check)
    <3>1. answer \notin Successes(route)
      BY <2>1, StatusesAre
    <3>2. controller \in Controllers
      BY <1>1 DEF RouteInv, OnPlan
    <3>3. ASSUME NEW check \in DOMAIN Status PROVE answer \notin Refusals(controller, check)
      <4>1. Refusals(controller, check) \subseteq 400 .. 599
        BY <3>2, StatusesAre
      <4>2. 0 \notin 400 .. 599
        OBVIOUS
      <4> QED
        BY <2>1, <4>1, <4>2
    <3> QED
      BY <3>1, <3>3
  <2>3. transaction = Reached /\ Range(plan) \subseteq passed \cup Range(left)
    <3>1. "database" \in DOMAIN Status
      BY StatusesAre
    <3> QED
      BY <1>1, <2>2, <3>1 DEF RouteInv, Outcome
  <2>4. Range(left) = {}
    BY <2>1 DEF Range
  <2>5. Reached' = Reached /\ Knowing' = Knowing
    BY <2>1 DEF Reached, Knowing
  <2>6. Range(plan) \subseteq passed' /\ transaction' = Reached' /\ answer' \in Successes(route')
    BY <2>1, <2>3, <2>4, <2>5
  <2>7. OnPlan(plan)'
    BY <1>1, <2>1 DEF RouteInv, OnPlan
  <2>8. GuardsAhead'
    BY <2>1, <2>5 DEF RouteInv, GuardsAhead
  <2>9. Outcome(plan)'
    BY <2>1, <2>6 DEF Outcome
  <2>10. plan = Plan(controller', route')
    BY <1>1, <2>1
  <2> QED
    BY <2>7, <2>8, <2>9, <2>10 DEF RouteInv
<1>10. CASE UNCHANGED routeVars
  <2>1. /\ controller' = controller /\ route' = route /\ left' = left /\ passed' = passed
        /\ transaction' = transaction /\ answer' = answer
    BY <1>10 DEF routeVars
  <2>2. Reached' = Reached /\ Knowing' = Knowing
    BY <2>1 DEF Reached, Knowing
  <2>3. OnPlan(plan)'
    BY <1>1, <2>1 DEF RouteInv, OnPlan
  <2>4. GuardsAhead'
    BY <2>1, <2>2 DEF RouteInv, GuardsAhead
  <2>5. Outcome(plan)'
    BY <1>1, <2>1, <2>2 DEF RouteInv, Outcome
  <2>6. plan = Plan(controller', route')
    BY <1>1, <2>1
  <2> QED
    BY <2>3, <2>4, <2>5, <2>6 DEF RouteInv
<1> QED
  BY <1>4, <1>5, <1>6, <1>7, <1>8, <1>9, <1>10 DEF RouteNext

\* The invariant implies the two properties.
LEMMA RouteInvTruthful == RouteInv => AnswersTruthful /\ GuardedFirst
<1> SUFFICES ASSUME RouteInv PROVE AnswersTruthful /\ GuardedFirst
  OBVIOUS
<1>1. PICK plan : plan = Plan(controller, route)
  OBVIOUS
<1>2. /\ controller \in Controllers /\ route \in Registered(controller)
      /\ passed \subseteq Range(plan) /\ ("commit" \in passed => "begin" \in passed)
      /\ Guarded(controller, route) => \A step \in Telling : step \in passed => Knowing
  BY <1>1 DEF RouteInv, OnPlan, GuardsAhead
<1>3. /\ "commit" \in Range(plan) => route \notin Reads
      /\ "begin" \in Range(plan) => route \notin Reads
      /\ route \notin Reads => "commit" \in Range(plan)
      /\ \A step \in Range(plan) \cap DOMAIN Status : Refusals(controller, step) \subseteq Known(controller, route)
      /\ Guarded(controller, route) => {"token", "active"} \subseteq Range(plan)
  BY <1>1, <1>2, PlanIs DEF WellPlanned
<1>4. \/ answer = 0 /\ transaction = Reached
      \/ answer \in {200, 201, 204} /\ transaction = Reached /\ Range(plan) \subseteq passed
      \/ /\ answer \in 400 .. 599 /\ transaction # "committed"
         /\ transaction = "none" \/ "begin" \in passed
         /\ answer \in Known(controller, route)
         /\ Guarded(controller, route) /\ answer = 404 => Knowing
  <2>1. \/ answer = 0 /\ transaction = Reached
        \/ answer \in Successes(route) /\ transaction = Reached /\ Range(plan) \subseteq passed
        \/ /\ transaction = IF "begin" \in passed THEN "rolled back" ELSE "none"
           /\ \E check \in {"database"} \cup (DOMAIN Status \cap Range(plan)) : answer \in Refusals(controller, check)
           /\ Guarded(controller, route) /\ answer = 404 => Knowing
    BY <1>1 DEF RouteInv, Outcome
  <2>2. 500 \in Known(controller, route)
    BY DEF Declared, Known
  <2>3. ASSUME \E check \in {"database"} \cup (DOMAIN Status \cap Range(plan)) : answer \in Refusals(controller, check)
        PROVE  answer \in 400 .. 599 /\ answer \in Known(controller, route)
    BY <1>2, <1>3, <2>2, <2>3, StatusesAre
  <2>4. answer \in Successes(route) => answer \in {200, 201, 204}
    BY StatusesAre
  <2>5. CASE answer = 0 /\ transaction = Reached
    BY <2>5
  <2>6. CASE answer \in Successes(route) /\ transaction = Reached /\ Range(plan) \subseteq passed
    BY <2>4, <2>6
  <2>7. CASE /\ transaction = IF "begin" \in passed THEN "rolled back" ELSE "none"
             /\ \E check \in {"database"} \cup (DOMAIN Status \cap Range(plan)) : answer \in Refusals(controller, check)
             /\ Guarded(controller, route) /\ answer = 404 => Knowing
    <3>1. transaction # "committed" /\ (transaction = "none" \/ "begin" \in passed)
      BY <2>7
    <3> QED
      BY <2>3, <2>7, <3>1
  <2> QED
    BY <2>1, <2>5, <2>6, <2>7
<1>5. ErrorsChangeNothing
  <2>1. CASE answer = 0 /\ transaction = Reached
    <3>1. ~ (answer >= 400) /\ answer \notin 200 .. 299
      BY <2>1
    <3> QED
      BY <3>1 DEF ErrorsChangeNothing
  <2>2. CASE answer \in {200, 201, 204} /\ transaction = Reached /\ Range(plan) \subseteq passed
    <3>1. ~ (answer >= 400)
      BY <2>2
    <3>2. route \notin Reads => transaction = "committed"
      BY <1>3, <2>2 DEF Reached
    <3> QED
      BY <3>1, <3>2 DEF ErrorsChangeNothing
  <2>3. CASE answer \in 400 .. 599 /\ transaction # "committed"
    <3>1. answer \notin 200 .. 299
      BY <2>3
    <3>2. transaction # "committed"
      BY <2>3
    <3> QED
      BY <3>1, <3>2 DEF ErrorsChangeNothing
  <2> QED
    BY <1>4, <2>1, <2>2, <2>3
<1>6. ReadOnly
  <2>1. ~ controller.writes => route \in Reads
    BY <1>2 DEF Registered, WritableRelationships
  <2> QED
    BY <1>2, <1>3, <1>4, <2>1 DEF ReadOnly, Reached
<1>7. GapsKnown
  <2>1. answer >= 400 => answer \in Known(controller, route)
    <3>1. answer \in {0, 200, 201, 204} => ~ (answer >= 400)
      OBVIOUS
    <3> QED
      BY <1>4, <3>1
  <2> QED
    BY <2>1 DEF GapsKnown, Known
<1>8. GuardedFirst
  <2>1. SUFFICES ASSUME Guarded(controller, route), answer \in {200, 201, 204, 404} \/ transaction # "none"
                 PROVE  Knowing
    BY DEF GuardedFirst, Knowing
  <2>2. "begin" \in Telling /\ {"token", "active"} \subseteq Range(plan)
    BY <1>3, <2>1 DEF Telling
  <2>3. "begin" \in passed => Knowing
    BY <1>2, <2>1, <2>2
  <2>4. CASE transaction # "none"
    BY <1>2, <1>4, <2>3, <2>4 DEF Reached
  <2>5. CASE answer \in {200, 201, 204}
    <3>1. answer # 0 /\ answer \notin 400 .. 599
      BY <2>5
    <3> QED
      BY <1>4, <2>2, <3>1 DEF Knowing
  <2>6. CASE answer = 404
    <3>1. answer # 0 /\ answer \notin {200, 201, 204}
      BY <2>6
    <3> QED
      BY <1>4, <2>1, <2>6, <3>1
  <2> QED
    BY <2>1, <2>4, <2>5, <2>6
<1> QED
  BY <1>5, <1>6, <1>7, <1>8 DEF AnswersTruthful

\* The invariant of a request on its way: the order of what it has yet to pass, what
\* it knows of its user, where its transaction is, and which check refused it.
THEOREM RouteInvariance == RouteSpec => []RouteInv
BY RouteInitInv, RouteNextInv, PTL DEF RouteSpec

\* What a route answers is true of what it did: an error or a read leaves nothing
\* behind, a success is committed, and an error that the route does not declare is a
\* known gap: a POST whose linkage target is missing, a DELETE that the database refuses
\* because other rows refer to the resource, the guard of a read, or what a hook raised.
THEOREM RoutesAnswerTruthfully == RouteSpec => []AnswersTruthful
BY RouteInvariance, RouteInvTruthful, PTL

\* No guarded route, be it a read, a write or one of relationships, opens a
\* transaction, succeeds or tells what exists before the token of an active user was
\* accepted.
THEOREM GuardsComeFirst == RouteSpec => []GuardedFirst
BY RouteInvariance, RouteInvTruthful, PTL
=============================================================================
