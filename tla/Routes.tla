-------------------------------- MODULE Routes --------------------------------
(***************************************************************************)
(* The way of a request through a route of a resource controller: what is  *)
(* checked, in which order, inside or outside the transaction, and with    *)
(* which status it is answered when a check fails.                         *)
(***************************************************************************)
EXTENDS Naturals, Sequences, SequencesExt

\* enable_writes, enable_upsert, read_dependencies # (), write_dependencies # () and
\* relationships_schema # None; whether the database keeps a resource others refer
\* to from being deleted; what before_* and after_* hooks answer, or bring about.
CONSTANT Controllers

ASSUME ControllersAssumption ==
    Controllers \subseteq
        [writes : BOOLEAN, upsert : BOOLEAN, readGuard : BOOLEAN, writeGuard : BOOLEAN,
         schema : BOOLEAN, referred : BOOLEAN, hooks : SUBSET (400 .. 599)]

VARIABLES
    controller,
    route,          \* the operation requested
    left,           \* checks still to pass
    passed,         \* history: those passed
    transaction,    \* "none", "open", "committed" or "rolled back"
    answer          \* the status, 0 before

routeVars == <<controller, route, left, passed, transaction, answer>>

-----------------------------------------------------------------------------
(* Registration *)

Reads == {"index", "show", "relationship", "related"}
Mutations == {"add", "replace", "remove"}

\* Relationships can be written only where resources can.
WritableRelationships_Schema(c) == c.schema   \* mutant
WritableRelationships(c) == c.schema /\ c.writes

Registered(c) ==
    Reads
    \cup (IF c.writes THEN {"create", "update", "destroy"} ELSE {})
    \cup (IF c.writes /\ c.upsert THEN {"upsert"} ELSE {})
    \cup (IF WritableRelationships(c) THEN Mutations ELSE {})

HasBody(r) == r \in {"create", "update", "upsert"} \cup Mutations

\* A guard is the dependency of users/me and examples: an active user.
Guarded(c, r) == IF r \in Reads THEN c.readGuard ELSE c.writeGuard

Declared_NoAuthentication(c, r) ==   \* mutant
    CASE r = "index" -> {400, 406, 422, 500}
      [] r = "create" -> {400, 403, 406, 409, 415, 422, 500}
      [] r \in {"update", "upsert"} \cup Mutations -> {400, 404, 406, 409, 415, 422, 500}
      [] OTHER -> {400, 404, 406, 422, 500}

\* The errors each route declares: those of a guard only where it writes.
Declared(c, r) ==
    (IF r \notin Reads /\ c.writeGuard THEN {401, 403} ELSE {}) \cup
    CASE r = "index" -> {400, 406, 422, 500}
      [] r = "create" -> {400, 403, 406, 409, 415, 422, 500}
      [] r \in {"update", "upsert"} \cup Mutations -> {400, 404, 406, 409, 415, 422, 500}
      [] OTHER -> {400, 404, 406, 422, 500}

-----------------------------------------------------------------------------
(* Checks, and the status of a request that fails one *)

Status == [
    contentType |-> 415, json |-> 422, accept |-> 406,
    token |-> 401, active |-> 403, document |-> 422,
    query |-> 400, type |-> 409, id |-> 409, noId |-> 403, empty |-> 422,
    coercedId |-> 404, found |-> 404,
    linkageType |-> 409, linkageId |-> 404, linkageTwice |-> 400, linkageFound |-> 404,
    database |-> 500, integrity |-> 409, rendered |-> 500, hook |-> 500]

\* A hook is code of the controller: it may raise an error of its own choice.
Refusals(c, check) == {Status[check]} \cup (IF check = "hook" THEN c.hooks ELSE {})

Admission_OpenRelationships(c, r) ==    \* mutant: mutations are registered without the dependencies
    (IF HasBody(r) THEN <<"contentType", "json">> ELSE <<>>)
    \o <<"accept">>
    \o (IF Guarded(c, r) /\ r \notin Mutations THEN <<"token", "active">> ELSE <<>>)
    \o (IF HasBody(r) THEN <<"document">> ELSE <<>>)

\* The media type goes before the body is parsed, that before the dependencies of
\* the router and of the route, and these before the document is validated.
Admission(c, r) ==
    (IF HasBody(r) THEN <<"contentType", "json">> ELSE <<>>)
    \o <<"accept">>
    \o (IF Guarded(c, r) THEN <<"token", "active">> ELSE <<>>)
    \o (IF HasBody(r) THEN <<"document">> ELSE <<>>)

\* Relationships come with a document only under a relationships_schema.
Linkage(c) ==
    IF c.schema THEN <<"linkageType", "linkageId", "linkageTwice", "linkageFound">> ELSE <<>>

\* A flush between two hooks, one of what the second hook changed, the document.
Persisted == <<"hook", "integrity", "hook", "integrity", "rendered", "commit">>

Handler_RenderedLate(c, r) ==  \* mutant: the document is built after the transaction
    IF r \in {"create", "update", "upsert"}
    THEN <<"query", "type", "begin", "database">> \o Linkage(c) \o <<"integrity", "commit", "rendered">>
    ELSE <<"query", "database", "rendered">>

\* The handlers.  What stands between "begin" and "commit" is rolled back as one.
Handler(c, r) ==
    CASE r = "index" -> <<"query", "database", "rendered">>
      [] r \in {"show", "relationship", "related"} ->
            <<"query", "coercedId", "database", "found", "rendered">>
      [] r = "create" ->
            <<"query", "type", "noId", "begin", "database">> \o Linkage(c)
            \o Persisted
      [] r = "update" ->
            <<"query", "type", "id", "empty", "begin", "coercedId", "database", "found">> \o Linkage(c)
            \o Persisted
      [] r = "upsert" ->
            <<"query", "type", "id", "coercedId", "begin", "database">> \o Linkage(c)
            \o Persisted
      [] r = "destroy" /\ c.referred ->
            <<"query", "begin", "coercedId", "database", "found", "hook", "integrity", "hook", "commit">>
      [] r = "destroy" /\ ~ c.referred ->
            <<"query", "begin", "coercedId", "database", "found", "hook", "hook", "commit">>
      [] r \in Mutations ->
            <<"query", "begin", "coercedId", "database", "found">> \o Linkage(c)
            \o <<"integrity", "commit">>

Plan(c, r) == Admission(c, r) \o Handler(c, r)

Successes(r) ==
    CASE r \in Reads \cup {"update"} -> {200}
      [] r = "create" -> {201}
      [] r = "upsert" -> {200, 201}
      [] OTHER -> {204}

-----------------------------------------------------------------------------

RouteInit ==
    /\ controller \in Controllers
    /\ route \in Registered(controller)
    /\ left = Plan(controller, route)
    /\ passed = {}
    /\ transaction = "none"
    /\ answer = 0

Check == Head(left)

Proceed == left' = Tail(left) /\ passed' = passed \cup {Check}

Pass ==
    /\ left # <<>>
    /\ Check \in DOMAIN Status
    /\ Proceed
    /\ UNCHANGED <<controller, route, transaction, answer>>

\* An exception leaves "with session.begin()", if it is inside, and a handler
\* turns it into the answer.
Fail ==
    /\ left # <<>>
    /\ Check \in DOMAIN Status
    /\ answer' \in Refusals(controller, Check)
    /\ left' = <<>>
    /\ transaction' = IF transaction = "open" THEN "rolled back" ELSE transaction
    /\ UNCHANGED <<controller, route, passed>>

Begin ==
    /\ left # <<>>
    /\ Check = "begin"
    /\ transaction' = "open"
    /\ Proceed
    /\ UNCHANGED <<controller, route, answer>>

Commit ==
    /\ left # <<>>
    /\ Check = "commit"
    /\ transaction' = "committed"
    /\ Proceed
    /\ UNCHANGED <<controller, route, answer>>

\* A commit that the database refuses: it flushes what a hook left to flush, and
\* checks constraints that are deferred.
CommitFails ==
    /\ left # <<>>
    /\ Check = "commit"
    /\ transaction' = "rolled back"
    /\ \E check \in {"database"} \cup (passed \cap {"integrity", "hook"}) :
            answer' \in Refusals(controller, check)
    /\ left' = <<>>
    /\ UNCHANGED <<controller, route, passed>>

Succeed ==
    /\ left = <<>>
    /\ answer = 0
    /\ answer' \in Successes(route)
    /\ UNCHANGED <<controller, route, left, passed, transaction>>

RouteNext == Pass \/ Fail \/ Begin \/ Commit \/ CommitFails \/ Succeed

RouteSpec == RouteInit /\ [][RouteNext]_routeVars

-----------------------------------------------------------------------------

\* A route answers with no error that it does not declare.
EveryAnswerDeclared ==
    answer >= 400 => answer \in Declared(controller, route)

\* Where the declarations of the framework fall short of its handlers: a linkage
\* target of POST that is not there, a DELETE the database refuses, a guard in front
\* of a read, and what hooks raise.
Undeclared(c, r) ==
    (IF r = "create" /\ c.schema THEN {404} ELSE {})
    \cup (IF r = "destroy" /\ c.referred THEN {409} ELSE {})
    \cup (IF r \in Reads /\ c.readGuard THEN {401, 403} ELSE {})
    \cup (IF r \in {"create", "update", "upsert", "destroy"} THEN c.hooks ELSE {})

\* Whatever fails, a route answers an error it declares, or one of these.
GapsKnown ==
    answer >= 400 => answer \in Declared(controller, route) \cup Undeclared(controller, route)

\* An error means that nothing was written, and a success of a write that it is
\* committed, its document included.
ErrorsChangeNothing ==
    /\ answer >= 400 => transaction # "committed"
    /\ answer \in 200 .. 299 /\ route \notin Reads => transaction = "committed"

\* A guarded route, be it a read, a write or one of relationships, says nothing of
\* what is stored, and writes nothing, before it knows an active user.
GuardedFirst ==
    Guarded(controller, route) /\ (answer \in {200, 201, 204, 404} \/ transaction # "none")
    => {"token", "active"} \subseteq passed

\* A controller without writes changes nothing, whatever schema it declares.
ReadOnly == ~ controller.writes => transaction = "none"

\* What a route answers is true of what it did: errors and reads leave nothing,
\* successes are committed, and an undeclared error is one of the known gaps.
AnswersTruthful == ErrorsChangeNothing /\ ReadOnly /\ GapsKnown

-----------------------------------------------------------------------------
(* The inductive invariant *)

\* What answers for what is stored: a transaction, hooks, the checks answered 404.
Telling == {"begin", "hook"} \cup {check \in DOMAIN Status : Status[check] = 404}

\* One step comes before another one in what is left, or has been passed.
Ahead(first, second, steps, done) ==
    \A k \in DOMAIN steps : steps[k] = second => first \in done \/ \E j \in 1 .. k - 1 : steps[j] = first

CommitsLast(steps) == \A k \in DOMAIN steps : steps[k] = "commit" => k = Len(steps)

Reached == IF "commit" \in passed THEN "committed" ELSE IF "begin" \in passed THEN "open" ELSE "none"

Knowing == {"token", "active"} \subseteq passed

\* What is left and what is passed belong to the plan, and are in its order.
OnPlan(plan) ==
    /\ controller \in Controllers /\ route \in Registered(controller)
    /\ left \in Seq(Range(plan)) /\ passed \subseteq Range(plan)
    /\ CommitsLast(left) /\ Ahead("begin", "commit", left, passed)
    /\ "commit" \in passed => left = <<>> /\ "begin" \in passed

\* A guarded route passes its guards before it tells anything.
GuardsAhead ==
    Guarded(controller, route) => \A step \in Telling :
        /\ step \in passed => Knowing
        /\ Ahead("token", step, left, passed) /\ Ahead("active", step, left, passed)

\* A request is under way, has been answered after all steps, or was refused by one.
Outcome(plan) ==
    \/ answer = 0 /\ transaction = Reached /\ Range(plan) \subseteq passed \cup Range(left)
    \/ answer \in Successes(route) /\ left = <<>> /\ transaction = Reached /\ Range(plan) \subseteq passed
    \/ /\ left = <<>>
       /\ transaction = IF "begin" \in passed THEN "rolled back" ELSE "none"
       /\ \E check \in {"database"} \cup (DOMAIN Status \cap Range(plan)) :
              answer \in Refusals(controller, check)
       /\ Guarded(controller, route) /\ answer = 404 => Knowing

RouteInv == GuardsAhead /\ \A plan \in {Plan(controller, route)} : OnPlan(plan) /\ Outcome(plan)
=============================================================================
