---------------------------- MODULE MCSerialization ----------------------------
EXTENDS Serialization

ToOne(target) == [many |-> FALSE, linkage |-> TRUE, target |-> target, inverse |-> Nil]
ToMany(target) == [many |-> TRUE, linkage |-> FALSE, target |-> target, inverse |-> Nil]

\* The serializers of the repository: examples with a category and tags; and some
\* that refer to one another and to themselves: nodes with a parent, children, and
\* marks.
MCRelationships == [
    example |-> [category |-> ToOne("category"), tags |-> ToMany("tag")],
    category |-> << >>,
    tag |-> << >>,
    node |-> [parent |-> ToOne("node"), marks |-> ToMany("mark"),
              children |-> [many |-> TRUE, linkage |-> FALSE, target |-> "node", inverse |-> "parent"]],
    mark |-> << >>]

MCTypeOf == [e1 |-> "example", e2 |-> "example", c1 |-> "category", c2 |-> "category", t1 |-> "tag",
             n1 |-> "node", n2 |-> "node", n3 |-> "node", m1 |-> "mark"]

MCIncludeSets == [
    example |-> SUBSET {<<"category">>, <<"tags">>},
    node |-> {{}, {<<"parent", "children">>}, {<<"children", "parent", "parent">>},
              {<<"marks">>, <<"children", "marks">>}, {<<"parent">>, <<"children", "marks">>}}]

Empty == [o \in DOMAIN MCTypeOf |-> [r \in {n \in NamesOf(MCTypeOf[o]) :
                                               MCRelationships[MCTypeOf[o]][n].inverse = Nil} |-> {}]]

MCGraphs == [
    example |-> {[o \in {"e1", "e2"} |-> [category |-> category[o], tags |-> tags[o]]] @@ Empty :
        category \in [{"e1", "e2"} -> {{}, {"c1"}, {"c2"}}], tags \in [{"e1", "e2"} -> {{}, {"t1"}}]},
    node |-> {[o \in {"n1", "n2", "n3"} |-> [parent |-> parent[o], marks |-> IF o = "n2" THEN {"m1"} ELSE {}]]
              @@ Empty :
        parent \in {p \in [{"n1", "n2", "n3"} -> {{}, {"n1"}, {"n2"}, {"n3"}}] :
                       \A n \in {"n2", "n3"} : p[n] # {n}}}]

MCRelinked == [example |-> {"e1", "e2"}, node |-> {}]
=============================================================================
