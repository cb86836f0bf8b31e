------------------------------ MODULE MCManifest ------------------------------
EXTENDS Manifest, Sequences, TLC

CONSTANTS none, p1, p2,
          a, b, b_      \* b_ is b, written otherwise

App1 == <<"application", "atlas">>
App2 == <<"application", "other">>
Web  == <<"service", "web">>
Www  == <<"service", "www">>
Job  == <<"service", "job">>

AppRow(project, logo) == [project |-> project, says |-> 0, logo |-> logo]
ServiceRow(app, key) == [app |-> app, key |-> key, says |-> 0, logo |-> none]
Version(app, s, v, says) == [app |-> app, service |-> s, version |-> v, says |-> says]
Deployed(app, s, scope, v) ==
    [app |-> app, service |-> s, scope |-> scope, selects |-> v, life |-> "registered", says |-> 0]

WebV1(says) == <<"capability", "web/v1">> :> Version(App1, Web, "v1", says)
WebDep(scope, v) == <<"deployment", "web@" \o scope>> :> Deployed(App1, Web, scope, v)
Atlas == App1 :> AppRow("atlas", none) @@ Web :> ServiceRow(App1, "web")

\* Of the project's files: two services, one of them in a later version, another
\* workspace. Of other publishers: a version changed in place under a new logo, an
\* application that selects a version it has not published, a second service with one key.
Both  == Atlas @@ WebV1(1) @@ WebDep("dev", "v1") @@ Job :> ServiceRow(App1, "job")
         @@ <<"deployment", "job@dev">> :> Deployed(App1, Job, "dev", none)
Later == Atlas @@ WebV1(1) @@ WebDep("dev", "v1")
Alice == Atlas @@ WebDep("alice", none)
Edited == App1 :> AppRow("atlas", "logo") @@ Atlas @@ WebV1(2)
Other == App2 :> AppRow("other", none) @@ Www :> ServiceRow(App2, "web")
         @@ <<"deployment", "www@dev">> :> Deployed(App2, Www, "dev", "v1")
Twin  == Atlas @@ Www :> ServiceRow(App1, "web")

MCBundles == {Edited, Other, Twin}

AFile(project, scope, bundle, claims) ==
    [project |-> project, scope |-> scope, bundle |-> bundle, claims |-> claims,
     prune |-> TRUE, manages |-> TRUE, deploys |-> TRUE]
For(owner, spec) == [owner |-> owner, spec |-> spec]
MCFiles == "atlas"   :> AFile("atlas", "dev", Both, a :> For("atlas/web", 1) @@ b :> For("atlas/job", 1)) @@
           "atlas-2" :> AFile("atlas", "dev", Later, a :> For("atlas/job", 2)) @@
           "alice"   :> AFile("atlas@alice", "alice", Alice, b_ :> For("atlas@alice/web", 1))

MCLabels == {a, b}
MCNorm == a :> a @@ b :> b @@ b_ :> b
MCClients == {p1, p2}
Symmetry == Permutations(MCClients)
=============================================================================
