--------------------------- MODULE DocumentInvariant ---------------------------
(***************************************************************************)
(* Why the serializer finds what it reads: the invariant of a compound     *)
(* document that each of its steps preserves.                              *)
(***************************************************************************)
EXTENDS Serialization

Nodes == includes \cup {<<>>}
Roots == {<<o, <<>>>> : o \in primaries}
Begun == <<>> \in DOMAIN at

\* The include tree is closed, and each of its edges is a declared relationship.
TreeInv ==
    /\ primary \in DOMAIN IncludeSets
    /\ primaries \subseteq OfType(primary)
    /\ \A b \in Nodes : TypeAt(b) \in DOMAIN Relationships
    /\ \A b \in includes :
        /\ b \in Seq(UNION {NamesOf(type) : type \in DOMAIN Relationships}) /\ b # <<>>
        /\ Front(b) \in Nodes
        /\ Last(b) \in NamesOf(TypeAt(Front(b)))
        /\ Relinked[primary] # {} => Front(b) = <<>>

WellTyped(o, r, objects) == objects \subseteq OfType(Definition(o, r).target)

\* Rows hold the keys of rows of the declared types,
RowsInv ==
    /\ DOMAIN links = Objects
    /\ \A o \in Objects :
        /\ DOMAIN links[o] = OwnedBy(TypeOf[o])
        /\ \A r \in OwnedBy(TypeOf[o]) : WellTyped(o, r, links[o][r])

\* and so do the objects in memory.
CacheInv ==
    /\ columns \in [Objects -> {"none", "key", "all"}]
    /\ DOMAIN foreignKeys = Objects /\ DOMAIN loaded = Objects
    /\ \A o \in Objects :
        /\ columns[o] = "all" => \A r \in OwnedBy(TypeOf[o]) : WellTyped(o, r, foreignKeys[o][r])
        /\ DOMAIN loaded[o] = NamesOf(TypeOf[o])
        /\ \A r \in NamesOf(TypeOf[o]) : loaded[o][r] = Nil \/ WellTyped(o, r, loaded[o][r])

\* Nothing is there before the statement of the primary data, and the serializer
\* starts from it when the last loader path has been read.
OrderInv ==
    /\ ~ Begun =>
        /\ at = << >> /\ unread = Options(includes) /\ pending = {}
        /\ columns = [o \in Objects |-> "none"] /\ loaded = NotLoaded
    /\ Begun => at[<<>>] = primaries
    /\ ~ Begun \/ unread # {} => visited = {} /\ included = {} /\ linkage = NotLoaded
    /\ Begun /\ unread # {} => pending = Roots

\* A path that has been read filled its relationship for every object its parent
\* led to, and leads to all that is there.
PathsInv ==
    /\ unread \subseteq Options(includes)
    /\ DOMAIN at \subseteq (Options(includes) \ unread) \cup {<<>>}
    /\ \A p \in DOMAIN at :
        /\ at[p] \subseteq OfType(TypeAt(p))
        /\ p \in Nodes \/ ~ Narrowed(p) => \A o \in at[p] : columns[o] = "all"
    /\ Begun => \A p \in Options(includes) \ unread :
        /\ Front(p) \in DOMAIN at
        /\ \A o \in at[Front(p)] : loaded[o][Last(p)] # Nil
        /\ p \in includes => /\ p \in DOMAIN at
                             /\ \A o \in at[Front(p)] : loaded[o][Last(p)] \subseteq at[p]

\* Two statements that read one object agree on it: nothing was written, or they do
\* not read the same relationship.
AgreeInv ==
    /\ writes \in Nat
    /\ Relinked[primary] = {} => writes = 0
    /\ writes = 0 => \A o \in Objects :
        /\ columns[o] = "all" => \A r \in OwnedBy(TypeOf[o]) : foreignKeys[o][r] = links[o][r]
        /\ \A r \in NamesOf(TypeOf[o]) : loaded[o][r] = Nil \/ loaded[o][r] = Related(o, r)
    /\ Relinked[primary] # {} => \A p \in unread : \A o \in primaries : loaded[o][Last(p)] = Nil

Serialized(o) == Loaded(o) /\ linkage[o] = [r \in NamesOf(TypeOf[o]) |-> LinkageOf(o, r)]

\* What was followed from an object on a branch.
Followed(o, branch) ==
    \A r \in NamesOf(TypeOf[o]) :
        Append(branch, r) \in includes => \A x \in loaded[o][r] : <<x, Append(branch, r)>> \in visited

Linked(x) == \E o \in primaries \cup included :
    Serialized(o) /\ \E r \in NamesOf(TypeOf[o]) : x \in LinkageOf(o, r)

\* The serializer is where the loader has been, and what it leaves behind is in
\* the document with all that is linked from it.
WalkInv ==
    /\ ~ failed
    /\ pending \subseteq visited \cup Roots
    /\ visited \subseteq Objects \X includes
    /\ \A v \in visited : v[2] \in DOMAIN at /\ v[1] \in at[v[2]] /\ Linked(v[1])
    /\ DOMAIN linkage = Objects
    /\ \A o \in Objects : linkage[o] = NotLoaded[o] \/ Serialized(o)
    /\ included \subseteq Objects \ primaries
    /\ \A x \in included : \E b \in includes : <<x, b>> \in visited
    /\ Begun => \A v \in (visited \cup Roots) \ pending :
        v[1] \in primaries \cup included /\ Serialized(v[1]) /\ Followed(v[1], v[2])

DocumentInv ==
    TreeInv /\ RowsInv /\ CacheInv /\ OrderInv /\ PathsInv /\ AgreeInv /\ WalkInv
=============================================================================
