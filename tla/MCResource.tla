------------------------------ MODULE MCResource ------------------------------
(* ResourceWrites for TLC: two tags, one category, two columns.            *)
EXTENDS ResourceInvariant, TLC

CONSTANTS t1, t2, c1, v1, v2, title, score

Nothing == [c \in Columns |-> Absent]
Both(v, w) == (title :> v) @@ (score :> w)
Doc(kind, cols, category, ts) == [kind |-> kind, cols |-> cols, category |-> category, tags |-> ts]

Posts == {Doc("POST", Both(v1, v1), None, {t1}), Doc("POST", Both(v2, v2), c1, Absent)}
Puts == {Doc("PUT", Both(v1, v2), c1, {t2}), Doc("PUT", Both(v2, v2), Absent, Absent)}
Attributes == {Doc("PATCH", (title :> v1) @@ (score :> Absent), Absent, Absent),
               Doc("PATCH", Both(v2, v1), Absent, Absent)}
Linkage == {Doc("PATCH", (title :> Absent) @@ (score :> v1), Absent, {t1, t2}),
            Doc("PATCH", Nothing, None, Absent),
            Doc("ADD", Nothing, Absent, {t1}),
            Doc("ADD", Nothing, Absent, {t2}),
            Doc("REMOVE", Nothing, Absent, {t1})}
Deletes == {Doc("DELETE", Nothing, Absent, Absent)}

EveryDocument == Posts \cup Puts \cup Attributes \cup Linkage \cup Deletes
DeadlockDocuments == {Doc("POST", Both(v1, v1), None, {t1, t2})} \cup Deletes
                     \cup {Doc("PUT", Both(v2, v2), Absent, Absent),
                           Doc("PUT", Both(v1, v2), c1, {t2}),
                           Doc("PATCH", Nothing, Absent, {}),
                           Doc("ADD", Nothing, Absent, {t1})}

\* What seeds.py inserts or overwrites.
TheSeed == {[cols |-> Both(v2, v1), category |-> c1, tags |-> {t1}]}

Symmetry == Permutations(Requests)
=============================================================================
