----------------------------- MODULE Serialization -----------------------------
(***************************************************************************)
(* A compound document: the loader options of a request are derived from   *)
(* its include paths, one statement reads each loader path while others    *)
(* write, and the serializer walks what was loaded.  It must find all it   *)
(* reads, as nothing is loaded lazily.                                     *)
(***************************************************************************)
EXTENDS Integers, Sequences, SequencesExt, FiniteSets

CONSTANTS
    Nil,
    Objects, TypeOf,    \* rows, and the type of each
    Relationships,      \* of each type: relationship -> [many, linkage, target, inverse]
    IncludeSets,        \* of each type requested: include lists, as sets of paths
    Graphs,             \* and contents to begin with: [object -> [relationship -> objects]]
    Relinked,           \* and rows that others may relink during the request
    MaxWrites           \* bound: how often they do

NamesOf(type) == DOMAIN Relationships[type]

\* The relationships whose keys a row of a type holds.
OwnedBy(type) == {r \in NamesOf(type) : Relationships[type][r].inverse = Nil}

OfType(type) == {o \in Objects : TypeOf[o] = type}

\* What the loader options check of a declaration: a linkage attribute is the
\* foreign key of a to-one.  A to-one goes by a key of its own row.
ASSUME DeclarationAssumption ==
    \A type \in DOMAIN Relationships : \A r \in NamesOf(type) :
        LET declared == Relationships[type][r] IN
        /\ declared.target \in DOMAIN Relationships
        /\ declared.linkage => ~ declared.many
        /\ ~ declared.many => declared.inverse = Nil
        /\ declared.inverse # Nil => declared.inverse \in OwnedBy(declared.target)

\* Rows refer to rows of the declared types.
ASSUME GraphAssumption ==
    /\ TypeOf \in [Objects -> DOMAIN Relationships]
    /\ \A set \in SUBSET Objects : set # Nil
    /\ DOMAIN IncludeSets \subseteq DOMAIN Relationships
    /\ \A type \in DOMAIN IncludeSets : \A graph \in Graphs[type] :
        /\ DOMAIN graph = Objects
        /\ \A o \in Objects :
            /\ DOMAIN graph[o] = OwnedBy(TypeOf[o])
            /\ \A r \in DOMAIN graph[o] : graph[o][r] \subseteq OfType(Relationships[TypeOf[o]][r].target)

\* _validate_include_tree: each segment is a relationship of the type before it.
ASSUME IncludesAssumption ==
    \A root \in DOMAIN IncludeSets : \A paths \in IncludeSets[root] : \A path \in paths :
        \E type \in [0 .. Len(path) -> DOMAIN Relationships] :
            /\ path \in Seq(UNION {NamesOf(t) : t \in DOMAIN Relationships})
            /\ type[0] = root
            /\ \A n \in 1 .. Len(path) : /\ path[n] \in NamesOf(type[n - 1])
                                         /\ type[n] = Relationships[type[n - 1]][path[n]].target

\* Rows are relinked during a request only where what they refer to has no
\* relationships, as in this program: what two statements read of one object then
\* cannot disagree.
ASSUME RelinkedAssumption ==
    \A root \in DOMAIN IncludeSets :
        /\ Relinked[root] \subseteq Objects
        /\ Relinked[root] # {} =>
            \A r \in NamesOf(root) : NamesOf(Relationships[root][r].target) = {}

VARIABLES
    links,          \* the database: the related objects each row holds the keys of
    primary,        \* the type of the primary data
    includes,       \* the include tree, as the set of its nodes
    linkageOnly,
    primaries,
    unread,         \* loader paths still to be read
    at,             \* the objects each path read so far leads to
    columns,        \* what is loaded of each object: "none", "key" or "all"
    foreignKeys,    \* its foreign keys when its columns were loaded
    loaded,         \* its relationships: objects, or Nil for one that is not loaded
    pending,        \* <<object, branch>>: to be serialized
    visited,
    included,
    linkage,        \* the relationships of what has been serialized
    failed,         \* history: the serializer met what is not loaded
    writes

asked == <<primary, includes, linkageOnly, primaries>>
cache == <<unread, at, columns, foreignKeys, loaded>>
document == <<pending, visited, included, linkage, failed>>
documentVars == <<links, asked, cache, document, writes>>

Definition(o, r) == Relationships[TypeOf[o]][r]

\* What the database holds.
Related(o, r) ==
    IF Definition(o, r).inverse = Nil THEN links[o][r]
    ELSE {x \in OfType(Definition(o, r).target) : o \in links[x][Definition(o, r).inverse]}

-----------------------------------------------------------------------------
(* Loader paths *)

\* The nodes of the tree are the prefixes of the paths; the root is not one.
IncludeTree(paths) == UNION {{SubSeq(p, 1, n) : n \in 1 .. Len(p)} : p \in paths}

\* The type of the resources at a node: the target of the relationship before.
TypeAt(path) ==
    LET type[n \in 0 .. Len(path)] ==
            IF n = 0 THEN primary ELSE Relationships[type[n - 1]][path[n]].target
    IN  type[Len(path)]

LoaderPaths_PrimaryOnly(tree) ==    \* mutant: linkage of included resources is forgotten
    {<<r>> : r \in NamesOf(primary)} \cup tree

\* Every relationship of every node: each is rendered as linkage at least.
LoaderPaths(tree) ==
    UNION {{Append(node, r) : r \in NamesOf(TypeAt(node))} : node \in tree \cup {<<>>}}

DefinitionAt(path) == Relationships[TypeAt(Front(path))][Last(path)]

\* Only linkage is needed of the last segment.
Narrowed(path) == linkageOnly /\ path \notin includes

\* Nothing is loaded where the foreign key will do.
Skipped(path) == Narrowed(path) /\ DefinitionAt(path).linkage

Options(tree) == {path \in LoaderPaths(tree) : ~ Skipped(path)}

-----------------------------------------------------------------------------

NotLoaded == [o \in Objects |-> [r \in NamesOf(TypeOf[o]) |-> Nil]]

\* A request that reads: includes come with linkage_only, and without it every
\* relationship is loaded in full.
DocumentInit ==
    /\ primary \in DOMAIN IncludeSets
    /\ links \in Graphs[primary]
    /\ \E paths \in IncludeSets[primary] : includes = IncludeTree(paths)
    /\ linkageOnly \in (IF includes = {} THEN BOOLEAN ELSE {TRUE})
    /\ primaries \in SUBSET OfType(primary)
    /\ unread = Options(includes)
    /\ at = << >>
    /\ columns = [o \in Objects |-> "none"]
    /\ foreignKeys = NotLoaded
    /\ loaded = NotLoaded
    /\ pending = {}
    /\ visited = {}
    /\ included = {}
    /\ linkage = NotLoaded
    /\ failed = FALSE
    /\ writes = 0

\* The columns that are read of these objects; what is there already stays.
Fetch(objects, part) ==
    LET fresh == {o \in objects : part = "all" /\ columns[o] # "all"} IN
    /\ columns' = [o \in Objects |->
                      IF o \in fresh \/ (o \in objects /\ columns[o] = "none") THEN part ELSE columns[o]]
    /\ foreignKeys' = [o \in Objects |-> IF o \in fresh THEN links[o] ELSE foreignKeys[o]]

\* The statement of the primary data.
ReadPrimaries ==
    /\ at = << >>
    /\ Fetch(primaries, "all")
    /\ at' = [root \in {<<>>} |-> primaries]
    /\ pending' = {<<o, <<>>>> : o \in primaries}
    /\ UNCHANGED <<links, asked, unread, loaded, visited, included, linkage, failed, writes>>

\* The statement of one loader path, for the objects its parent led to.  A to-one
\* goes by the foreign keys that were read.
ReadPath(path) ==
    /\ Front(path) \in DOMAIN at
    /\ LET parents == at[Front(path)]
           r == Last(path)
           targets(o) == IF Definition(o, r).many THEN Related(o, r) ELSE foreignKeys[o][r]
           found == UNION {targets(o) : o \in parents}
       IN  /\ unread' = unread \ {path}
           /\ at' = [p \in DOMAIN at \cup {path} |-> IF p = path THEN found ELSE at[p]]
           /\ Fetch(found, IF Narrowed(path) THEN "key" ELSE "all")
           /\ loaded' = [o \in Objects |->
                            IF o \in parents /\ loaded[o][r] = Nil
                            THEN [loaded[o] EXCEPT ![r] = targets(o)] ELSE loaded[o]]
    /\ UNCHANGED <<links, asked, document, writes>>

\* initialize_relationship_defaults, under what the request assigns.
Defaults(o, given) == [r \in NamesOf(TypeOf[o]) |->
    IF r \in DOMAIN given THEN given[r] ELSE {}]

Targets(o, r) == {set \in SUBSET OfType(Definition(o, r).target) :
                     Definition(o, r).many \/ Cardinality(set) <= 1}

\* POST: a new object with the relationships it is given, flushed and then
\* serialized as it is in memory.
Create(o) ==
    /\ at = << >>
    /\ includes = {}
    /\ primaries = {o}
    /\ \A x \in Objects : \A r \in DOMAIN links[x] : o \notin links[x][r]
    /\ \E names \in SUBSET DOMAIN links[o] :
        \E given \in [names -> UNION {Targets(o, r) : r \in names}] :
            /\ \A r \in names : given[r] \in Targets(o, r) /\ o \notin given[r]
            /\ links' = [links EXCEPT ![o] = [r \in DOMAIN @ |-> IF r \in names THEN given[r] ELSE {}]]
            /\ loaded' = [loaded EXCEPT ![o] = Defaults(o, given)]
    /\ columns' = [columns EXCEPT ![o] = "all"]
    /\ foreignKeys' = [foreignKeys EXCEPT ![o] = links'[o]]
    /\ at' = [root \in {<<>>} |-> {o}]
    /\ unread' = {}
    /\ pending' = {<<o, <<>>>>}
    /\ UNCHANGED <<asked, visited, included, linkage, failed, writes>>

-----------------------------------------------------------------------------
(* The serializer *)

ByForeignKey_Null(o, r) == {}   \* mutant: a relationship that is not loaded is null

\* _foreign_key_linkage: of a relationship that is not loaded but whose key is.
ByForeignKey(o, r) == foreignKeys[o][r]

UsesForeignKey(o, r) ==
    /\ Definition(o, r).linkage
    /\ loaded[o][r] = Nil
    /\ columns[o] = "all"

LinkageOf(o, r) == IF UsesForeignKey(o, r) THEN ByForeignKey(o, r) ELSE loaded[o][r]

\* An object that came by its key alone raises when an attribute is read, and a
\* relationship that is not loaded raises too.
Loaded(o) ==
    /\ columns[o] = "all"
    /\ \A r \in NamesOf(TypeOf[o]) : UsesForeignKey(o, r) \/ loaded[o][r] # Nil

Included_Primaries(o, branch) == branch # <<>>    \* mutant
Included(o, branch) == branch # <<>> /\ o \notin primaries

Unvisited_ByObject(visits) ==    \* mutant: a resource is followed on one branch only
    {v \in visits : \A w \in visited : w[1] # v[1]}

\* A resource is serialized once on each branch that leads to it.
Unvisited(visits) == visits \ visited

\* _serialize_resource, for one object on one branch of the tree.
Serialize(o, branch) ==
    /\ unread = {}
    /\ <<o, branch>> \in pending
    /\ failed' = (failed \/ ~ Loaded(o))
    /\ IF Loaded(o)
       THEN LET follow == {r \in NamesOf(TypeOf[o]) : Append(branch, r) \in includes /\ ~ UsesForeignKey(o, r)}
                next == Unvisited(UNION {{<<x, Append(branch, r)>> : x \in loaded[o][r]} : r \in follow})
            IN  /\ linkage' = [linkage EXCEPT ![o] = [r \in NamesOf(TypeOf[o]) |-> LinkageOf(o, r)]]
                /\ included' = included \cup {x \in {o} : Included(x, branch)}
                /\ visited' = visited \cup next
                /\ pending' = (pending \ {<<o, branch>>}) \cup next
       ELSE /\ pending' = {}
            /\ UNCHANGED <<visited, included, linkage>>
    /\ UNCHANGED <<links, asked, cache, writes>>

\* Another transaction relinks a row between two statements.
Write(o) ==
    /\ writes < MaxWrites
    /\ writes' = writes + 1
    /\ \E r \in DOMAIN links[o] : \E objects \in Targets(o, r) :
        links' = [links EXCEPT ![o][r] = objects]
    /\ UNCHANGED <<asked, cache, document>>

DocumentNext ==
    \/ ReadPrimaries
    \/ \E path \in unread : ReadPath(path)
    \/ \E o \in primaries : Create(o)
    \/ \E v \in pending : Serialize(v[1], v[2])
    \/ \E o \in Relinked[primary] : Write(o)

DocumentSpec == DocumentInit /\ [][DocumentNext]_documentVars

-----------------------------------------------------------------------------

Rendered == unread = {} /\ at # << >> /\ pending = {} /\ ~ failed

\* For every include list, the loader options load whatever the serializer
\* reads: no request ends in a JsonApiSerializationError.
NothingUnloadedRead == ~ failed

\* The document shows what is stored, whichever way a linkage is read: from a
\* foreign key, from keys loaded for linkage only, or from full objects.
LinkageTrue ==
    writes = 0 => \A o \in Objects : \A r \in NamesOf(TypeOf[o]) :
        linkage[o] # NotLoaded[o] => linkage[o][r] = Related(o, r)

LinkedFrom(objects, r) ==
    UNION {IF linkage[o] = NotLoaded[o] THEN {} ELSE linkage[o][r] : o \in objects}

\* Where an include path leads, by the linkage that the document shows.
ReachedBy(path) ==
    LET reached[n \in 0 .. Len(path)] ==
            IF n = 0 THEN primaries ELSE LinkedFrom(reached[n - 1], path[n])
    IN  reached[Len(path)]

\* What is asked for is there: each resource that an include path leads to, also
\* over a resource met on another branch before, is in the document.
IncludedComplete ==
    Rendered => \A path \in includes : ReachedBy(path) \subseteq primaries \cup included

\* No resource appears twice, and every included one is linked from another one
\* of the document.
CompoundDocument ==
    Rendered =>
        /\ included \cap primaries = {}
        /\ \A x \in included : \E o \in primaries \cup included :
            \E r \in NamesOf(TypeOf[o]) : x \in linkage[o][r]

\* Full linkage, as JSON:API asks of a compound document: what is linked is true,
\* what is asked for is there, and nothing else is, nor anything twice.
FullLinkage == LinkageTrue /\ IncludedComplete /\ CompoundDocument
=============================================================================
