---------------------------- MODULE MCRouteTable ----------------------------
(* A finite instance of RouteTable for TLC: an application with a wildcard  *)
(* flag, a "*." sibling that ties with it and also serves an extra port, and *)
(* a wildcard above both that serves the extra port only.                   *)
EXTENDS RouteTable
CONSTANTS h1, h2, a1, a2, a3, dev, app, pr, other
MCName   == a1 :> <<app, dev>> @@ a2 :> <<Star, app, dev>> @@ a3 :> <<Star, dev>>
MCWild   == [a \in Allocs |-> a = a1]
MCListen == a1 :> {0} @@ a2 :> {0, 5173} @@ a3 :> {5173}
MCHosts  == {<<app, dev>>, <<pr, app, dev>>, <<other, pr, app, dev>>, <<other, dev>>}
=============================================================================
