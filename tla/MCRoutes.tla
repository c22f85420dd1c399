------------------------------- MODULE MCRoutes -------------------------------
EXTENDS Routes

\* Every kind of controller there can be; hooks raise nothing, a status some routes
\* declare, or one that no route declares.
AllControllers ==
    [writes : BOOLEAN, upsert : BOOLEAN, readGuard : BOOLEAN, writeGuard : BOOLEAN,
     schema : BOOLEAN, referred : BOOLEAN, hooks : {{}, {404}, {423}}]

\* The controllers of the application: examples, and categories and tags.
Applications ==
    {[writes |-> w, upsert |-> w, readGuard |-> FALSE, writeGuard |-> w, schema |-> w,
      referred |-> FALSE, hooks |-> {}] : w \in BOOLEAN}
=============================================================================
