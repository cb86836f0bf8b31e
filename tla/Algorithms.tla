------------------------------ MODULE Algorithms ------------------------------
(***************************************************************************)
(* The algorithms of Naming, Rules and ManifestFile asked one question at  *)
(* a time, each of its own kind of input: a label before it is claimed, a  *)
(* hostname among zones, the routes of a zone, a manifest.  The properties *)
(* compare an answer with a definition of what it should be, or with what  *)
(* another part of the program answers to the same question.               *)
(***************************************************************************)
EXTENDS Integers, Rules, ManifestFile

CONSTANTS RawLabels, Tables_, Policies,   \* labels as written, allocations, policies
          Hosts, ZoneLists,               \* hostnames, registered zones in some order
          Zone, RouteSets,                \* routes of a cluster
          Manifests, Orders               \* files, the orders of walking their services

\* A hostname is made of DNS labels, which have a length and no "@" in them; zones have
\* labels.  A label as written is what its dots leave of it.  A suggestion, being a word in
\* normal form with some letters more, is in normal form or refused, and different suffixes
\* make different words.
ASSUME HostsAssumption ==
    /\ \A host \in Hosts : host \in Seq(STRING) /\ \A i \in DOMAIN host : host[i] # "@"
    /\ \A zones \in ZoneLists :
          /\ zones \in Seq(Seq(STRING) \ {<<>>})
          /\ \A i \in DOMAIN zones : \A j \in DOMAIN zones[i] : Len(zones[i][j]) \in Nat \ {0}
ASSUME LabelsAssumption == RawLabels \subseteq Seq(STRING)
ASSUME SuggestAssumption ==
    \A raw \in RawLabels :
       LET c == Suggest(Normalize(raw, "tenant"))
       IN  \A i \in DOMAIN c : /\ Canonical(c[i]) \in {c[i], Bad}
                               /\ \A j \in DOMAIN c : c[i] = c[j] => i = j

SeqSet(s) == {s[i] : i \in DOMAIN s}

\* The file as it is read, and the orders a Go map may be walked in: each key once.
RouteSpec == [listen : Int, backend : SUBSET Backends]
Service == [hostnames : Seq(Seq(STRING)), backend : SUBSET Backends, routes : Seq(RouteSpec),
            listen : Seq(Int), catalogOnly : BOOLEAN, refused : SUBSET Nat, id : STRING,
            deployment : STRING, version : STRING, launch : Seq(STRING)]
File(m) == [project : STRING, atSign : BOOLEAN, workspace : STRING, zone : Seq(STRING), appId : STRING,
            environment : STRING, services : {m.services}, resources : {m.resources}]
OrdersOf(m) == {o \in Orders : SeqSet(o) = DOMAIN m.services}

ASSUME FilesAssumption ==
    /\ \A m \in Manifests :
          /\ m \in File(m) /\ m.services \in [DOMAIN m.services -> Service]
          /\ \A k \in DOMAIN m.services : \A h \in SeqSet(m.services[k].hostnames) : "@" \notin SeqSet(h)
          /\ OrdersOf(m) # {}
    /\ \A o \in Orders : o \in Seq(STRING) /\ \A i, j \in DOMAIN o : o[i] = o[j] => i = j

VARIABLE asked

Nothing == [what |-> "nothing"]

AInit == asked = Nothing

AskLabel(raw, table, policy) ==
    asked' = [what |-> "label", raw |-> raw, table |-> table, policy |-> policy]
AskHost(host, zones) == asked' = [what |-> "host", host |-> host, zones |-> zones]
AskRoutes(routes)    == asked' = [what |-> "routes", routes |-> routes]
AskFile(m)           == asked' = [what |-> "file", file |-> m]

Ask ==
    /\ asked = Nothing
    /\ \/ \E raw \in RawLabels, table \in Tables_, policy \in Policies : AskLabel(raw, table, policy)
       \/ \E host \in Hosts, zones \in ZoneLists : AskHost(host, zones)
       \/ \E routes \in RouteSets : AskRoutes(routes)
       \/ \E m \in Manifests : AskFile(m)

ANext == Ask \/ (asked # Nothing /\ asked' = Nothing)

ASpec == AInit /\ [][ANext]_asked

-----------------------------------------------------------------------------
(* Properties. *)

\* "Can a tenant claim this label here?" (CheckAvailability) is answered as a claim made
\* at that moment would be, reason for reason; every suggestion could be claimed too; and
\* the label it answers with is in normal form, so that asking again changes nothing
\* (Normalize "must be idempotent").  Only a released row, which an interrupted release
\* leaves, is said to be available and is not.
AvailabilityAgrees ==
    asked.what = "label" =>
        LET says == Availability(asked.raw, asked.table, asked.policy)
            claim == ClaimReason(asked.raw, asked.table, asked.policy)
            label == Normalize(asked.raw, "tenant")
        IN  /\ \/ says.reason = claim
               \/ label \in DOMAIN asked.table /\ asked.table[label].state = "released"
            /\ says.suggestions # <<>> => says.reason # ""
            /\ Len(says.suggestions) = Cardinality(SeqSet(says.suggestions))
            /\ \A s \in SeqSet(says.suggestions) : ClaimReason(s, asked.table, asked.policy) = ""
            /\ label # Invalid => Availability(label, asked.table, asked.policy) = says
            /\ \A kind \in {"tenant", "platform"} :
                  LET n == Normalize(asked.raw, kind)
                  IN  n # Invalid => Normalize(n, kind) = n

\* A hostname has one home among the registered zones, the most specific one, in whatever
\* order the store lists them (splitByZones); there it has the label the observer and
\* manifests would give it, and is itself again as FQDN; and the DNS server answers for
\* exactly the hostnames that have one.
HostsHaveOneHome ==
    asked.what = "host" =>
        LET host == asked.host
            home == SplitByZones(host, asked.zones)
            above == {z \in SeqSet(asked.zones) : LabelForZone(host, z) # Invalid}
        IN  /\ (home = NoHome) = (above = {})
            /\ Matches(host, asked.zones) = (above # {})
            /\ (Handle(host, "A", asked.zones, "v4") = "NXDOMAIN") = (above = {})
            /\ above # {} =>
                  /\ home.zone \in above
                  /\ home.label = LabelForZone(host, home.zone)
                  /\ FQDN(home.label, home.zone) = host
                  /\ \A z \in above : Len(z) <= Len(home.zone)

\* Where Traefik would send a request for host: the routes of the greatest priority
\* among those that match it.
Candidates(host, routes) ==
    {r \in routes : \E p \in ParseMatch(r.rule) : p = Exact(host) \/ (p = CatchAll(Zone) /\ InClass(host, Zone))}
Winners(host, routes) ==
    {r \in Candidates(host, routes) :
        \A q \in Candidates(host, routes) : EffectivePriority(q) <= EffectivePriority(r)}

\* When the shadow check has nothing to say of a routed host, no catch-all can take its
\* traffic, by priority or in a tie.  The check passes over routes of one object, so a
\* catch-all beside the host's route in the same IngressRoute is not found.
SilentMeansServed ==
    asked.what = "routes" =>
        \A r \in asked.routes : \A h \in HostsIn(r, Zone) :
            (~ \E c \in ShadowCheck(Zone, asked.routes) : c.host = h) =>
                \A w \in Winners(h, asked.routes) :
                    \/ h \in HostsIn(w, Zone)
                    \/ \E q \in asked.routes : q.name = w.name /\ h \in HostsIn(q, Zone)

\* Two workspaces of one project have nothing in common: no owner of a hostname and, but
\* for ids the file states itself, no deployment and no resource (RoutingProject,
\* DeploymentID, CatalogBundle).
WorkspacesApart(m) ==
    LET n == [m EXCEPT !.workspace = IF m.workspace = "" THEN "other" ELSE ""]
        B == CatalogBundle(m)
        C == CatalogBundle(n)
    IN  /\ \A j, k \in DOMAIN m.services : OwnerRef(m, j) # OwnerRef(n, k)
        /\ \A e \in DOMAIN B, f \in DOMAIN C :
              (e[1] \in {"deployment", "resource"} /\ B[e].id = C[f].id) => Len(B[e].id) = 1

\* The catalog launches what the registry serves: a deployment belongs to the owner of
\* the claims of its service, those claims are for its hostnames and no others, and the
\* URL it launches by default is a hostname, and no wildcard, of one of them.
LaunchesClaimed(m, claims) ==
    LET B == CatalogBundle(m)
    IN  \A e \in DOMAIN B : (e[1] = "deployment" /\ ~ m.services[e[2]].catalogOnly) =>
           LET mine == {c \in claims : c.owner = B[e].owner}
           IN  /\ {FQDN(c.label, m.zone) : c \in mine} = {Base(h) : h \in SeqSet(B[e].hostnames)}
               /\ m.services[e[2]].launch = NoLaunch =>
                     \/ \E c \in mine : FQDN(c.label, m.zone) = B[e].launch
                     \/ B[e].launch = NoLaunch /\ \A h \in SeqSet(B[e].hostnames) : IsWild(h)

\* The proxy answers on every port the service declares, and on no other, with one of
\* its backends; only what needs a supervisor or docker is down where there is none.
PortsOf(svc) ==
    LET listens == IF svc.routes # <<>> THEN {svc.routes[i].listen : i \in DOMAIN svc.routes}
                   ELSE SeqSet(Listens(svc))
    IN  (listens \ {0}) \cup (IF 0 \in listens THEN DefaultPorts ELSE {})
Needs(fields) == (fields \cap {"docker"}) \cup (IF "supervised" \in fields THEN {"starter"} ELSE {})

Tried(svc) == PortsOf(svc) \cup DefaultPorts \cup {5173}

ServedAsDeclared(svc, c) ==
    \A port \in Tried(svc), has \in SUBSET {"starter", "docker", "container"} :
        LET answer == Serve(c.routes, port, has)
        IN  /\ (answer = "unknown host") = (port \notin PortsOf(svc))
            /\ answer = Down =>
                  \E f \in {svc.backend} \cup {svc.routes[i].backend : i \in DOMAIN svc.routes} :
                     ~ Needs(f) \subseteq has

\* The backends of a service as the file has them, with the daemon's answers.
BackendsOf(svc) ==
    IF svc.routes = <<>> THEN {[fields |-> svc.backend, refused |-> 0 \in svc.refused]}
    ELSE {[fields |-> svc.routes[i].backend, refused |-> i \in svc.refused] : i \in DOMAIN svc.routes}

\* A backend there is nothing to serve from: an address that cannot be read, or nothing
\* but a pool the daemon has no port of.
NoUpstream(b) == "bad_address" \in b.fields \/ (b.fields = {"port_pool"} /\ b.refused)

\* What becomes of a file does not depend on the order the map of its services is walked
\* in, the daemon's answers for ports being what they are.  A file Parse accepts fails
\* for an address that cannot be read, a port it is refused, a hostname outside its zone
\* or a label that two services ask for, and for nothing else; otherwise every hostname
\* of every routed service has the one claim of that service for its label, the proxy
\* serves it on the ports declared, the catalog launches what is claimed, and none of it
\* is of another workspace.  The bundle is refused only for ids the file states or
\* services it does not have.
ClaimsCover ==
    (asked.what = "file" /\ Parse(asked.file)) =>
        LET m == asked.file
            got == Claims(m, CHOOSE o \in OrdersOf(m) : TRUE)
        IN  /\ WorkspacesApart(m)
            /\ \/ ValidBundle(CatalogBundle(m))
               \/ \E k \in DOMAIN m.services : m.services[k].id # "" \/ m.services[k].deployment # ""
               \/ \E k \in DOMAIN m.resources : \/ m.resources[k].id # ""
                                               \/ ~ m.resources[k].uses \subseteq DOMAIN m.services
            /\ \A o \in OrdersOf(m) : Claims(m, o).failed = got.failed /\ Claims(m, o).claims = got.claims
            /\ got.failed =
                  \/ \E k \in Routed(m) : \E b \in BackendsOf(m.services[k]) : NoUpstream(b)
                  \/ \E k \in Routed(m) : Invalid \in Labels(m, k)
                  \/ \E j, k \in Routed(m) : j # k /\ Labels(m, j) \cap Labels(m, k) # {}
            /\ ~ got.failed =>
                  /\ LaunchesClaimed(m, got.claims)
                  /\ \A k \in Routed(m) : \A h \in SeqSet(m.services[k].hostnames) :
                        \E c \in got.claims :
                           /\ c.service = k /\ FQDN(c.label, m.zone) = Base(h)
                           /\ IsWild(h) => c.wildcard
                           /\ \A d \in got.claims : FQDN(d.label, m.zone) = Base(h) => d = c
                  /\ \A c \in got.claims : ServedAsDeclared(m.services[c.service], c)

=============================================================================
