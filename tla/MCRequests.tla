------------------------------- MODULE MCRequests -------------------------------
(***************************************************************************)
(* The stages a request goes through, explored one at a time: its headers, *)
(* its query parameters, its way through a route, and its document.        *)
(***************************************************************************)
EXTENDS MCRoutes, MCNegotiation, MCQuery, MCSerialization

VARIABLE stage

headerVars == <<kind, header>>

Init ==
    /\ stage \in {"headers", "query", "route", "document"}
    /\ DocumentInit
    /\ stage # "document" => links = Empty /\ includes = {} /\ linkageOnly /\ primaries = {} /\ primary = "example"
    /\ HeaderInit /\ (stage # "headers" => kind = "accept")
    /\ QueryInit
    /\ RouteInit /\ (stage # "route" => route = "index" /\ controller = CHOOSE c \in Controllers : TRUE)

Next ==
    /\ \/ stage = "headers" /\ HeaderNext /\ UNCHANGED <<query, routeVars, documentVars>>
       \/ stage = "query" /\ QueryNext /\ UNCHANGED <<headerVars, routeVars, documentVars>>
       \/ stage = "route" /\ RouteNext /\ UNCHANGED <<headerVars, query, documentVars>>
       \/ stage = "document" /\ DocumentNext /\ UNCHANGED <<headerVars, query, routeVars>>
    /\ UNCHANGED stage

Spec == Init /\ [][Next]_<<stage, headerVars, query, routeVars, documentVars>>
=============================================================================
