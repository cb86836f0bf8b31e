----------------------------- MODULE ManifestFile -----------------------------
(***************************************************************************)
(* What a project's gerrymander.yaml comes to (internal/manifest): which   *)
(* files are accepted, the claims they ask for, and the identities their   *)
(* catalog bundle has.  Services are kept in a Go map, so every walk over  *)
(* them takes them in an order of its own.                                 *)
(*                                                                         *)
(* A service has hostnames (sequences of DNS labels), a backend, which is  *)
(* the set of the fields it fills in, the ports it listens on, and routes, *)
(* each with a backend and a port; 0 is 443 and 80. A backend's address or *)
(* command is not told apart, but for "bad_address", an address whose port *)
(* is no number. For the catalog a service may state ids, publish and      *)
(* select a capability version, and state the URL to launch.               *)
(*                                                                         *)
(* Beside each service stands what the daemon answers when it is asked for *)
(* the ports of pools (resolvePort): refused has the routes it is refused  *)
(* one for, 0 the shorthand backend.  The answers are those of a moment,   *)
(* whatever the order of asking.                                           *)
(***************************************************************************)
EXTENDS Naming, Upstream

Backends == {"address", "bad_address", "port_pool", "supervised", "docker"}
Addresses == {"address", "bad_address"}

\* How many backends Parse counts: a port pool only if it is not the port of another.
CountOf(backend, others) ==
    Cardinality(backend \ {"port_pool"})
    + (IF "port_pool" \in backend /\ backend \cap others = {} THEN 1 ELSE 0)

\* A shorthand backend, or routes with one each, never both. Beside a Docker backend
\* a port pool counts in the shorthand form, and does not in a route.
OneBackend(svc) ==
    IF svc.routes = <<>> THEN CountOf(svc.backend, Addresses \cup {"supervised"}) = 1
    ELSE /\ CountOf(svc.backend, Addresses \cup {"supervised"}) = 0
         /\ \A i \in DOMAIN svc.routes :
               CountOf(svc.routes[i].backend, Addresses \cup {"supervised", "docker"}) = 1

Routed(m) == {k \in DOMAIN m.services : ~ m.services[k].catalogOnly}

\* ManagesRoutes: a file of metadata only leaves the routes alone.
ManagesRoutes(m) == Routed(m) # {} \/ (DOMAIN m.services = {} /\ DOMAIN m.resources = {})

Parse(m) ==
    /\ m.project # ""
    /\ m.workspace # "" => ~ m.atSign
    /\ ManagesRoutes(m) => m.zone # <<>>
    /\ \A k \in DOMAIN m.services :
          LET svc == m.services[k]
          IN  IF svc.catalogOnly
              THEN svc.hostnames = <<>> /\ svc.backend = {} /\ svc.routes = <<>> /\ svc.listen = <<>>
              ELSE svc.hostnames # <<>> /\ OneBackend(svc)

-----------------------------------------------------------------------------
(* Identities and the catalog bundle (manifest/catalog.go).  A derived id   *)
(* is the tuple of its parts, a digest like a concatenation of them.        *)

Stated(id, derived) == IF id # "" THEN <<id>> ELSE derived

RoutingProject(m) == IF m.workspace = "" THEN <<m.project>> ELSE <<m.project, m.workspace>>
OwnerRef(m, k) == <<RoutingProject(m), k>>
ApplicationID(m) == Stated(m.appId, <<"app", m.project>>)
ServiceID(m, k) == Stated(m.services[k].id, <<"service", ApplicationID(m), k>>)
Environment(m) == IF m.environment = "" THEN "development" ELSE m.environment

SlipIdWithoutWorkspace(m, k) ==
    Stated(m.services[k].deployment,
           <<"deployment", ApplicationID(m), ServiceID(m, k), Environment(m), m.zone>>)

DeploymentID(m, k) ==
    Stated(m.services[k].deployment,
           <<"deployment", ApplicationID(m), ServiceID(m, k), Environment(m), m.workspace, m.zone>>)

ResourceID(m, k) ==
    Stated(m.resources[k].id, <<"resource", ApplicationID(m), k, Environment(m), m.workspace>>)

NoLaunch == <<>>
SlipLaunchesFirst(svc) == IF svc.hostnames = <<>> THEN NoLaunch ELSE svc.hostnames[1]

\* Only an exact hostname can be the default of the launch URL.
LaunchURL(svc) ==
    LET exact == {i \in DOMAIN svc.hostnames : ~ IsWild(svc.hostnames[i])}
    IN  IF svc.launch # NoLaunch THEN svc.launch
        ELSE IF exact = {} THEN NoLaunch
        ELSE svc.hostnames[CHOOSE i \in exact : \A j \in exact : i <= j]

\* A resource uses services by their keys in the file; any other word is taken for an id.
Uses(m, k) == {IF u \in DOMAIN m.services THEN ServiceID(m, u) ELSE <<u>> : u \in m.resources[k].uses}

\* The rows of the bundle by their kind and their key in the file.
Rows(m) == {<<"application", "">>}
           \cup ({"service", "deployment"} \X DOMAIN m.services)
           \cup ({"capability"} \X {k \in DOMAIN m.services : m.services[k].version # ""})
           \cup ({"resource"} \X DOMAIN m.resources)

CatalogBundle(m) ==
    [e \in Rows(m) |->
        LET k == e[2]
        IN  CASE e[1] = "application" -> [id |-> ApplicationID(m), project |-> m.project]
              [] e[1] = "service"     -> [id |-> ServiceID(m, k), key |-> k]
              [] e[1] = "capability"  -> [id |-> <<"capability", ServiceID(m, k), m.services[k].version>>]
              [] e[1] = "deployment"  -> [id |-> DeploymentID(m, k), service |-> ServiceID(m, k),
                                          workspace |-> m.workspace, owner |-> OwnerRef(m, k),
                                          hostnames |-> m.services[k].hostnames,
                                          launch |-> LaunchURL(m.services[k])]
              [] e[1] = "resource"    -> [id |-> ResourceID(m, k), workspace |-> m.workspace,
                                          uses |-> Uses(m, k)]]

\* What Bundle.Validate has left to refuse: an id stated twice, and a resource of no
\* service of the file.
ValidBundle(B) ==
    /\ \A e, f \in DOMAIN B : B[e].id = B[f].id => e = f
    /\ \A e \in DOMAIN B : e[1] = "resource" =>
          B[e].uses \subseteq {B[f].id : f \in {g \in DOMAIN B : g[1] = "service"}}

-----------------------------------------------------------------------------
(* Claims. *)

Filled(kind, host) == [kind |-> kind, spec |-> TRUE, host |-> host, pooled |-> FALSE]
Unfilled == [kind |-> "", spec |-> FALSE, host |-> "", pooled |-> FALSE]

SlipLeavesPool(backend, refused) ==
    IF "docker" \in backend THEN Filled("docker", "")
    ELSE IF "bad_address" \in backend THEN Unfilled
    ELSE IF "address" \in backend THEN Filled("address", "given")
    ELSE IF "supervised" \in backend THEN Filled("supervised", "")
    ELSE IF "port_pool" \in backend THEN [Filled("address", "@local") EXCEPT !.pooled = TRUE]
    ELSE Unfilled

\* backendFrom: the first of what is filled in, Unfilled for an error. The port of a pool
\* is claimed now, unless something before it is filled in.
BackendFrom(backend, refused) ==
    IF "docker" \in backend THEN Filled("docker", "")
    ELSE IF "bad_address" \in backend THEN Unfilled
    ELSE IF "address" \in backend THEN Filled("address", "given")
    ELSE IF "supervised" \in backend THEN Filled("supervised", "")
    ELSE IF "port_pool" \in backend /\ ~ refused THEN Filled("address", "@local")
    ELSE Unfilled

\* A shorthand backend answers on all of listen, or on the default ports.
Listens(svc) == IF svc.listen = <<>> THEN <<0>> ELSE svc.listen
RoutesOf(svc) ==
    IF svc.routes # <<>>
    THEN [i \in DOMAIN svc.routes |->
             [listen |-> svc.routes[i].listen,
              backend |-> BackendFrom(svc.routes[i].backend, i \in svc.refused)]]
    ELSE [i \in DOMAIN Listens(svc) |->
             [listen |-> Listens(svc)[i], backend |-> BackendFrom(svc.backend, 0 \in svc.refused)]]

LabelFor(m, host) == LabelForZone(Base(host), m.zone)
Labels(m, k) == {LabelFor(m, m.services[k].hostnames[i]) : i \in DOMAIN m.services[k].hostnames}

\* "x" and "*.x" are one claim.
ClaimFor(m, k, label) ==
    [label |-> label, owner |-> OwnerRef(m, k), service |-> k, routes |-> RoutesOf(m.services[k]),
     wildcard |-> \E i \in DOMAIN m.services[k].hostnames :
                     /\ LabelFor(m, m.services[k].hostnames[i]) = label
                     /\ IsWild(m.services[k].hostnames[i])]

SlipSameServiceOnly(m, claims, k) == FALSE

\* claimedLabels: a label another service of the file has claimed before.
Collides(m, claims, k) == \E c \in claims : c.label \in Labels(m, k)

Failed == [failed |-> TRUE, claims |-> {}, granted |-> {}]

\* A port was claimed for a route on the way: no route up to it failed.
PortGranted(routes) ==
    \E i \in DOMAIN routes : /\ routes[i].backend.host = "@local"
                             /\ \A j \in 1..i : routes[j].backend # Unfilled

\* One service of the walk.  granted: the owners a port was claimed for on the way,
\* which a later failure does not give back.
ClaimService(m, done, k) ==
    LET routes == RoutesOf(m.services[k])
        backends == {routes[i].backend : i \in DOMAIN routes}
        granted == done.granted \cup {o \in {OwnerRef(m, k)} : PortGranted(routes)}
    IN  IF done.failed \/ m.services[k].catalogOnly THEN done
        ELSE IF Unfilled \in backends \/ Invalid \in Labels(m, k) \/ Collides(m, done.claims, k)
        THEN [Failed EXCEPT !.granted = granted]
        ELSE [failed |-> FALSE, granted |-> granted,
              claims |-> done.claims \cup {ClaimFor(m, k, l) : l \in Labels(m, k)}]

\* Claims, the services taken in the given order.
Claims(m, order) ==
    LET walk[i \in 0 .. Len(order)] ==
            IF i = 0 THEN [failed |-> FALSE, claims |-> {}, granted |-> {}]
            ELSE ClaimService(m, walk[i - 1], order[i])
    IN  walk[Len(order)]
=============================================================================
