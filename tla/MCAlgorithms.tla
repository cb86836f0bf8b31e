----------------------------- MODULE MCAlgorithms -----------------------------
(* Inputs for Algorithms: a few of every case the code tells apart. *)
EXTENDS Algorithms, TLC

MCOdd == [p \in {"App", "-x", "a_b", "*", "@", "", "@-app", "@-hq", "@-team", "get@", "@-2"} |->
             IF p = "App" THEN "app" ELSE "bad"]

Parts == {"app", "App", "-x", "a", "test", "*", "rt"}
MCRawLabels == {<<>>, <<"@">>, <<"appendix">>, <<"*", "app", "rt">>}
               \cup {<<p>> : p \in Parts} \cup {<<p, q>> : p, q \in Parts}

Held(kind, state) == [kind |-> kind, state |-> state]
MCTables == {<<>>, <<"app">> :> Held("tenant", "active"),
             <<"app">> :> Held("platform", "pending"),
             <<"app">> :> Held("tenant", "released"),
             <<"app">> :> Held("tenant", "active") @@ <<"app-hq">> :> Held("tenant", "released"),
             <<"test">> :> Held("tenant", "active") @@ <<"test-app">> :> Held("tenant", "active")
                @@ <<"gettest">> :> Held("tenant", "active") @@ <<"test-hq">> :> Held("tenant", "active")}

Policy(kinds, blocked, min, max, unmatched) ==
    [kinds |-> kinds, blocked |-> blocked, min |-> min, max |-> max, unmatched |-> unmatched]
MCPolicies == {Policy({}, {<<"test">>}, 2, 8, {}), Policy({}, {}, 0, 4, {<<"app-2">>}),
               Policy({"platform"}, {}, 2, 8, {})}

\* One zone with fewer labels than another may have the longer name.
ZoneNames == {<<"test">>, <<"olsyn", "test">>, <<"dev", "olsyn", "test">>, <<"example">>}
MCZoneLists == UNION {{f \in [1 .. n -> ZoneNames] : \A i, j \in 1 .. n : f[i] = f[j] => i = j} : n \in 0 .. 4}
MCHosts == {<<>>} \cup ZoneNames
           \cup {<<l>> \o z : l \in {"a", "*", "dev"}, z \in ZoneNames}
           \cup {<<"*", "a">> \o z : z \in ZoneNames} \cup {<<"mytest">>, <<"atest", "example">>}

MCZone == <<"z">>
Rules_ == {<<<<"Host", {<<"a", "z">>}>>>>, <<<<"Host", {<<"a", "z">>, <<"b", "z">>}>>, <<"PathPrefix", {}>>>>,
           <<<<"HostRegexp", {<<"z">>}>>>>, <<<<"Host", {<<"z">>}>>, <<"HostRegexp", {<<"z">>}>>>>,
           <<<<"Host", {<<"a", "b", "z">>}>>, <<"HostRegexp", {<<>>}>>>>}
Routes == [name : {"x", "y"}, rule : Rules_, priority : {0, 5}, length : {4, 6}]
MCRouteSets == {{r, s, t} : r, s, t \in Routes}

H(l) == l \o <<"z">>
Svc(hosts, backend, routes, listen) ==
    [hostnames |-> hosts, backend |-> backend, routes |-> routes, listen |-> listen,
     catalogOnly |-> FALSE, refused |-> {}, id |-> "", deployment |-> "", version |-> "", launch |-> <<>>]
HostLists == {<<>>, <<H(<<"a">>)>>, <<H(<<"*", "a">>), H(<<"a">>)>>, <<H(<<"*", "a">>), H(<<"b">>)>>,
              <<H(<<>>)>>, <<H(<<"*">>)>>, <<<<"a", "y">>>>}
BackendSets == {{}, {"port_pool"}, {"address"}, {"address", "port_pool"}, {"docker", "port_pool"},
                {"supervised", "port_pool"}, {"bad_address", "port_pool"}}
OnPort(p, b) == [listen |-> p, backend |-> b]
Services == {Svc(h, b, <<>>, l) : h \in HostLists, b \in BackendSets, l \in {<<>>, <<5173, 80>>}}
            \cup {Svc(h, b, <<OnPort(0, {"address"}), OnPort(5173, r)>>, <<>>) :
                     h \in HostLists, b \in {{}, {"port_pool"}}, r \in BackendSets}
            \cup {[Svc(h, {}, <<>>, <<>>) EXCEPT !.catalogOnly = TRUE, !.deployment = "mine"] :
                     h \in {<<>>, <<H(<<"a">>)>>}}
            \cup {[Svc(<<H(<<"b">>)>>, {"port_pool"}, <<>>, <<>>) EXCEPT !.id = i, !.version = v, !.launch = <<"c">>] :
                     i \in {"", "mine"}, v \in {"", "v1"}}
            \cup {[Svc(<<H(<<l>>)>>, b, <<>>, <<>>) EXCEPT !.refused = {0}] :
                     l \in {"a", "b"}, b \in {{"port_pool"}, {"address", "port_pool"}, {"supervised", "port_pool"}}}
            \cup {[Svc(<<H(<<"a">>)>>, {}, <<OnPort(0, {"port_pool"}), OnPort(5173, b)>>, <<>>) EXCEPT !.refused = r] :
                     b \in {{"port_pool"}, {"docker", "port_pool"}}, r \in {{0}, {1}, {2}}}
Few == {s \in Services : s.backend \in {{"port_pool"}, {}} /\ s.listen = <<>> /\
                         (s.routes # <<>> => s.routes[2].backend = {"docker", "port_pool"})}
Using(id, keys) == [id |-> id, uses |-> keys]
MCResources == {"db" :> Using("", {"web"}) @@ "web" :> Using("", {"api"}),
                "db" :> Using("", {"web", "gone"}), "db" :> Using("mine", {})}
FileOf(services, workspace, zone, resources) ==
    [project |-> "p", atSign |-> FALSE, workspace |-> workspace, zone |-> zone, appId |-> "",
     environment |-> "", services |-> services, resources |-> resources]
MCManifests == {FileOf("web" :> s @@ "api" :> t, w, <<"z">>, <<>>) : s \in Services, t \in Few, w \in {"", "w"}}
               \cup {FileOf("web" :> s @@ "api" :> t, "w", <<"z">>, r) : s \in Few, t \in Few, r \in MCResources}
               \cup {FileOf(<<>>, "", z, r) : z \in {<<>>, <<"z">>}, r \in {<<>>, "db" :> Using("", {})}}
MCOrders == {<<>>, <<"web", "api">>, <<"api", "web">>}
=============================================================================
