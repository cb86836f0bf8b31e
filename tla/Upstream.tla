------------------------------- MODULE Upstream -------------------------------
(***************************************************************************)
(* Where the embedded proxy sends a request once the route table has found *)
(* the allocation for its host (internal/proxy: routeFor, upstreamFor).    *)
(*                                                                         *)
(* Routes are a sequence of a listen port, 0 for the default ports, and a  *)
(* backend: its kind, whether the part for that kind is filled in (spec),  *)
(* the host of an address, and whether its port is still a reference to a  *)
(* pool (pooled).  has says what the daemon was started with: "starter",   *)
(* the supervisor, "docker", the relays, and "container", being in one.    *)
(***************************************************************************)
EXTENDS Naturals, Sequences

DefaultPorts == {443, 80}
NoRoute == 0

SlipDefaultsOnly(routes, port) ==
    LET default == {i \in DOMAIN routes : routes[i].listen = 0 /\ port \in DefaultPorts}
    IN  IF default # {} THEN CHOOSE i \in default : \A j \in default : j <= i ELSE NoRoute

\* routeFor: the first route that names the port, else the last of the default routes.
RouteFor(routes, port) ==
    LET named   == {i \in DOMAIN routes : routes[i].listen = port}
        default == {i \in DOMAIN routes : routes[i].listen = 0 /\ port \in DefaultPorts}
    IN  IF named # {} THEN CHOOSE i \in named : \A j \in named : i <= j
        ELSE IF default # {} THEN CHOOSE i \in default : \A j \in default : j <= i
        ELSE NoRoute

\* "@local" is the host the development processes run on.
LocalBackendHost(has) == IF "container" \in has THEN "host.docker.internal" ELSE "127.0.0.1"

Down == "down"      \* the page that says the upstream is down

UpstreamFor(b, has) ==
    CASE b.kind = "address" ->
            IF ~ b.spec \/ b.pooled THEN Down
            ELSE IF b.host = "@local" THEN LocalBackendHost(has) ELSE b.host
      [] b.kind = "supervised" -> IF "starter" \in has /\ b.spec THEN "Ensure(process)" ELSE Down
      [] b.kind = "docker" -> IF "docker" \in has /\ b.spec THEN "Ensure(relay)" ELSE Down
      [] OTHER -> Down      \* "service" is for the cluster's ingress

\* handler, for an allocation that matches the host.
Serve(routes, port, has) ==
    LET i == RouteFor(routes, port)
    IN  IF i = NoRoute THEN "unknown host" ELSE UpstreamFor(routes[i].backend, has)
=============================================================================
