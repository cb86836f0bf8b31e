------------------------------- MODULE Manifest -------------------------------
(***************************************************************************)
(* POST /v1/manifest/apply (internal/api/manifest.go): clients upload a    *)
(* project's file, and the daemon claims its hostnames or updates those    *)
(* it has, releases the others of the project, publishes the catalog       *)
(* bundle and deactivates deployments that left the file. Each statement   *)
(* or transaction is a step; other applies, the API and failures come in   *)
(* between.                                                                *)
(*                                                                         *)
(* A file is what Parse, Claims and CatalogBundle make of the YAML: the    *)
(* hostnames of one zone with the owner and spec each is claimed for       *)
(* (Claims is in ManifestFile), and the bundle. Left out: granting ports   *)
(* (Ports) and creating the zone, which come before the first claim and    *)
(* may only fail; the read before the two statements of Release            *)
(* (Registry); the notification at the end (RouteTable).                   *)
(***************************************************************************)
EXTENDS Catalog

CONSTANTS Files,        \* by the name of the file and its version
          Clients,      \* requests in progress
          Labels,       \* normal labels
          Norm,         \* core.Normalize, a function from labels as they are written
          MaxApplies, MaxUpsets     \* bounds: applies; requests by others and failures

ASSUME NormAssumption == /\ Labels \subseteq DOMAIN Norm
                         /\ \A l \in DOMAIN Norm : Norm[l] \in Labels
                         /\ \A l \in Labels : Norm[l] = l
ASSUME FilesAssumption ==
    /\ Nothing \notin DOMAIN Files
    /\ \A f \in DOMAIN Files : /\ WellFormed(Files[f].bundle)
                               /\ DOMAIN Files[f].claims \subseteq DOMAIN Norm
                               /\ {Files[f].prune, Files[f].manages, Files[f].deploys} \subseteq BOOLEAN
                               /\ \A k \in Of(Files[f].bundle, "deployment") :
                                     Files[f].bundle[k].scope = Files[f].scope
\* An owner is a project and a service (OwnerRef), so no two projects share one.
ASSUME OwnersAssumption ==
    \A f, g \in DOMAIN Files : \A v \in DOMAIN Files[f].claims, w \in DOMAIN Files[g].claims :
        Files[f].claims[v].owner = Files[g].claims[w].owner => Files[f].project = Files[g].project
ASSUME ClientsAssumption == Nothing \notin Clients
ASSUME BoundsAssumption == MaxApplies \in Nat /\ MaxUpsets \in Nat

VARIABLES
    engine,     \* the database behind the store
    rows,       \* allocations of the zone
    apply,      \* what each client's request is at
    steady,     \* history: labels and catalog keys nobody else touched since it began
    applies, upsets

vars == <<entries, assets, engine, rows, apply, steady, applies, upsets>>

Projects == {Files[f].project : f \in DOMAIN Files}
ClaimsOf(f) == {Files[f].claims[w] : w \in DOMAIN Files[f].claims}
Claimed  == UNION {ClaimsOf(f) : f \in DOMAIN Files}
Owners   == {c.owner : c \in Claimed}
Specs    == {c.spec : c \in Claimed}
CatalogKeys == UNION {DOMAIN b : b \in Bundles \cup {Files[f].bundle : f \in DOMAIN Files}}
Scopes   == {Files[f].scope : f \in DOMAIN Files}

\* Owners of API claims: the projects' own names may be used by them too.
Row == [label : Labels, source : {"manifest", "api"}, project : Projects \cup {Nothing},
        owner : Owners \cup {Nothing}, spec : Specs \cup {Nothing}, state : {"active", "released"}]

Replies == {"none", "ok", "conflict", "taken", "error"}

\* todo: hostnames still to claim; at, id, state: the hostname in hand and the row found;
\* gone: rows to release, half: one released and not yet deleted, missed: hostnames whose
\* release failed (the answer does not name them as pruned); off: deployments.
Apply == [step : {"idle", "claim", "look", "update", "list", "prune", "publish", "scope", "off"},
          file : DOMAIN Files \cup {Nothing}, todo : SUBSET DOMAIN Norm, at : DOMAIN Norm \cup {Nothing},
          id : Nat, state : {"active", "released"}, gone : SUBSET Nat, half : Nat,
          missed : SUBSET Labels, off : SUBSET CatalogKeys, reply : Replies]
Idle == [step |-> "idle", file |-> Nothing, todo |-> {}, at |-> Nothing, id |-> 0,
         state |-> "active", gone |-> {}, half |-> 0, missed |-> {}, off |-> {}, reply |-> "none"]

TypeOK ==
    /\ WellFormed(entries) /\ DOMAIN entries \subseteq CatalogKeys
    /\ assets \subseteq Assets
    /\ engine \in {"sqlite", "postgres"}
    /\ DOMAIN rows \subseteq Nat \ {0} /\ \A i \in DOMAIN rows : rows[i] \in Row
    /\ \A i, j \in DOMAIN rows : rows[i].label = rows[j].label => i = j
    /\ apply \in [Clients -> Apply]
    /\ steady \in [Clients -> SUBSET (Labels \cup CatalogKeys)]
    /\ applies \in 0..MaxApplies /\ upsets \in 0..MaxUpsets

Init ==
    /\ entries = [k \in {} |-> Nothing] /\ assets \in SUBSET Assets    \* uploaded earlier
    /\ engine \in {"sqlite", "postgres"}
    /\ rows = [i \in {} |-> Nothing]
    /\ apply = [p \in Clients |-> Idle]
    /\ steady = [p \in Clients |-> {}]
    /\ applies = 0 /\ upsets = 0

Find(l) == {i \in DOMAIN rows : rows[i].label = l}

\* Ids somebody may still use; Postgres never gives one twice, which is all that matters.
Remembered == UNION {{apply[p].id, apply[p].half} \cup apply[p].gone : p \in Clients}
NewId == IF engine = "sqlite" THEN MaxPlusOne(DOMAIN rows)
         ELSE MaxPlusOne(DOMAIN rows \cup Remembered)

Insert(r) == rows' = IF Find(r.label) = {} THEN Put(rows, NewId, r) ELSE rows

\* What somebody touches is no longer steady for the others. Two tools that apply one
\* file at a time should not disturb each other: what one of them touches stays steady
\* for the other as long as it is steady for the one (and an id is no other row's).
Touched(p, T) == steady' = [q \in Clients |->
    IF q = p THEN steady[q]
    ELSE IF p \in Clients /\ engine = "postgres" /\ apply[p].file = apply[q].file THEN steady[q] \ (T \ steady[p])
    ELSE steady[q] \ T]
Nobody == Nothing

File(p) == Files[apply[p].file]
Step(p, a) == apply' = [apply EXCEPT ![p] = a]
Replied(a, r) == [Idle EXCEPT !.file = a.file, !.missed = a.missed, !.reply = r]
Reply(p, r) == Step(p, Replied(apply[p], r))

Upset == upsets < MaxUpsets /\ upsets' = upsets + 1

-----------------------------------------------------------------------------
(* handleManifestApply. *)

\* Parse, CatalogBundle and CheckCatalog come before any change.
Begin(p, f) ==
    /\ apply[p].step = "idle" /\ applies < MaxApplies
    /\ applies' = applies + 1
    /\ Step(p, IF Accepts(Files[f].bundle)
               THEN [Idle EXCEPT !.step = "claim", !.file = f, !.todo = DOMAIN Files[f].claims]
               ELSE [Idle EXCEPT !.file = f, !.reply = "conflict"])
    /\ steady' = [steady EXCEPT ![p] = Labels \cup CatalogKeys]
    /\ UNCHANGED <<entries, assets, engine, rows, upsets>>

\* The request is cancelled, the daemon stops, or a statement fails whose error ends the
\* handler: all of them but the look at a taken hostname and the releases.
Fails(p) ==
    /\ apply[p].step # "idle" /\ Upset
    /\ Reply(p, "error")
    /\ UNCHANGED <<entries, assets, engine, rows, steady, applies>>

Asked(p, w) == [label |-> Norm[w], source |-> "manifest", project |-> File(p).project,
                owner |-> File(p).claims[w].owner, spec |-> File(p).claims[w].spec,
                state |-> "active"]

\* The file's hostnames are claimed in no particular order.
Claim(p, w) ==
    /\ apply[p].step = "claim" /\ w \in apply[p].todo
    /\ Insert(Asked(p, w))
    /\ Step(p, [apply[p] EXCEPT !.todo = @ \ {w},
                                !.step = IF Find(Norm[w]) = {} THEN "claim" ELSE "look",
                                !.at = IF Find(Norm[w]) = {} THEN Nothing ELSE w])
    /\ Touched(p, {Norm[w]})
    /\ UNCHANGED <<entries, assets, engine, applies, upsets>>

SlipOwnerOnly(p, i) == rows[i].owner = File(p).claims[apply[p].at].owner

\* A row is the manifest's own by its owner, or as a manifest's row of the same project:
\* a hostname may move from one of its services to another.
Owns(p, i) ==
    \/ rows[i].owner = File(p).claims[apply[p].at].owner
    \/ rows[i].source = "manifest" /\ rows[i].project = File(p).project

\* The taken hostname is looked up as it is written in the file.
Look(p) ==
    /\ apply[p].step = "look"
    /\ \/ /\ Find(apply[p].at) = {}
          /\ Reply(p, "taken")
       \/ \E i \in Find(apply[p].at) :
            IF Owns(p, i)
            THEN Step(p, [apply[p] EXCEPT !.step = "update", !.id = i, !.state = rows[i].state])
            ELSE Reply(p, "taken")
    /\ UNCHANGED <<entries, assets, engine, rows, steady, applies, upsets>>

\* Any error of that lookup is answered like a hostname of somebody else.
LookFails(p) ==
    /\ apply[p].step = "look" /\ Upset
    /\ Reply(p, "taken")
    /\ UNCHANGED <<entries, assets, engine, rows, steady, applies>>

SlipSpecOnly(p, row) == [row EXCEPT !.spec = File(p).claims[apply[p].at].spec]

\* UpdateAllocation writes the copy back, its state included.
Changed(p, row) ==
    [row EXCEPT !.project = File(p).project, !.owner = File(p).claims[apply[p].at].owner,
                !.spec = File(p).claims[apply[p].at].spec, !.state = apply[p].state]

\* To whatever row has the id by now.
Update(p) ==
    /\ apply[p].step = "update"
    /\ LET i == apply[p].id
       IN  IF i \in DOMAIN rows
           THEN /\ rows' = [rows EXCEPT ![i] = Changed(p, rows[i])]
                /\ Touched(p, {rows[i].label})
           ELSE UNCHANGED <<rows, steady>>
    /\ Step(p, [apply[p] EXCEPT !.step = "claim", !.at = Nothing, !.id = 0, !.state = "active"])
    /\ UNCHANGED <<entries, assets, engine, applies, upsets>>

\* A slip: keep is filled with FQDNs, and labels are looked up in it.
SlipKeepsFqdns(p, i) == TRUE

\* keep has the hostnames as they are written.
Unwanted(p, i) == rows[i].label \notin DOMAIN File(p).claims

\* Prunes: file.prune is the request's flag.
ListOwned(p) ==
    /\ apply[p].step = "claim" /\ apply[p].todo = {}
    /\ LET G == {i \in DOMAIN rows : /\ File(p).manages /\ File(p).prune
                                     /\ rows[i].project = File(p).project
                                     /\ rows[i].state # "released"
                                     /\ rows[i].source = "manifest" /\ Unwanted(p, i)}
       IN  Step(p, [apply[p] EXCEPT !.step = IF G = {} THEN "publish" ELSE "prune", !.gone = G])
    /\ UNCHANGED <<entries, assets, engine, rows, steady, applies, upsets>>

\* a is done with row i; M are the labels it could not release.
Past(a, i, M) == [a EXCEPT !.gone = @ \ {i}, !.half = 0, !.missed = @ \cup M,
                           !.step = IF a.gone \subseteq {i} THEN "publish" ELSE "prune"]

\* Release marks the row and deletes it, by id. A row that is gone is no error here.
MarkReleased(p, i) ==
    /\ apply[p].step = "prune" /\ apply[p].half = 0 /\ i \in apply[p].gone
    /\ IF i \in DOMAIN rows
       THEN /\ rows' = [rows EXCEPT ![i].state = "released"]
            /\ Touched(p, {rows[i].label})
            /\ Step(p, [apply[p] EXCEPT !.gone = @ \ {i}, !.half = i])
       ELSE /\ Step(p, Past(apply[p], i, {}))
            /\ UNCHANGED <<rows, steady>>
    /\ UNCHANGED <<entries, assets, engine, applies, upsets>>

DeleteReleased(p) ==
    /\ apply[p].half # 0
    /\ rows' = Drop(rows, {apply[p].half})
    /\ Touched(p, {rows[i].label : i \in DOMAIN rows \cap {apply[p].half}})
    /\ Step(p, Past(apply[p], apply[p].half, {}))
    /\ UNCHANGED <<entries, assets, engine, applies, upsets>>

\* The error of a release, of either half, is dropped: the handler goes on to the next.
ReleaseFails(p) ==
    /\ apply[p].step = "prune" /\ Upset
    /\ IF apply[p].half # 0 THEN Step(p, Past(apply[p], apply[p].half, {}))
       ELSE \E i \in apply[p].gone :
              Step(p, Past(apply[p], i, {rows[j].label : j \in DOMAIN rows \cap {i}}))
    /\ UNCHANGED <<entries, assets, engine, rows, steady, applies>>

Publish(p) ==
    /\ apply[p].step = "publish"
    /\ ApplyCatalog(File(p).bundle)
    /\ IF ~Accepts(File(p).bundle) THEN Reply(p, "conflict")
       ELSE IF File(p).deploys /\ File(p).prune THEN Step(p, [apply[p] EXCEPT !.step = "scope"])
       ELSE Reply(p, "ok")
    /\ Touched(p, DOMAIN File(p).bundle)
    /\ UNCHANGED <<assets, engine, rows, applies, upsets>>

SlipAnyScope(p, k) == entries[k].app = App(File(p).bundle) /\ k \notin DOMAIN File(p).bundle

\* Deployments of the file's application and scope that the file does not have.
Stray(p, k) == /\ entries[k].app = App(File(p).bundle)
               /\ entries[k].scope = File(p).scope
               /\ k \notin DOMAIN File(p).bundle

ListDeployments(p) ==
    /\ apply[p].step = "scope"
    /\ LET D == {k \in Of(entries, "deployment") : Stray(p, k)}
       IN  IF D = {} THEN Reply(p, "ok") ELSE Step(p, [apply[p] EXCEPT !.step = "off", !.off = D])
    /\ UNCHANGED <<entries, assets, engine, rows, steady, applies, upsets>>

Deactivate(p, k) ==
    /\ apply[p].step = "off" /\ k \in apply[p].off
    /\ DeactivateCatalogDeployment(k)
    /\ IF apply[p].off = {k} THEN Reply(p, "ok") ELSE Step(p, [apply[p] EXCEPT !.off = @ \ {k}])
    /\ Touched(p, {k})
    /\ UNCHANGED <<assets, engine, rows, applies, upsets>>

-----------------------------------------------------------------------------
(* Other requests. *)

ApiClaim(l) ==
    /\ Upset /\ Find(l) = {}
    /\ \E o \in Owners \cup {Nothing} :
          Insert([label |-> l, source |-> "api", project |-> Nothing, owner |-> o,
                  spec |-> Nothing, state |-> "active"])
    /\ Touched(Nobody, {l})
    /\ UNCHANGED <<entries, assets, engine, apply, applies>>

\* Both halves of a release with nothing in between, or the first alone; the other may
\* follow on its own, or never.
ApiRelease(i) ==
    /\ Upset
    /\ rows' = Drop(rows, {i}) \/ rows' = [rows EXCEPT ![i].state = "released"]
    /\ Touched(Nobody, {rows[i].label})
    /\ UNCHANGED <<entries, assets, engine, apply, applies>>

ApiRename(i, l) ==
    /\ Upset /\ Find(l) = {}
    /\ rows' = [rows EXCEPT ![i].label = l]
    /\ Touched(Nobody, {l, rows[i].label})
    /\ UNCHANGED <<entries, assets, engine, apply, applies>>

ApiPublish(b) ==
    /\ Upset
    /\ ApplyCatalog(b)
    /\ Touched(Nobody, DOMAIN b)
    /\ UNCHANGED <<assets, engine, rows, apply, applies>>

ApiDeactivate(k) ==
    /\ Upset
    /\ DeactivateCatalogDeployment(k)
    /\ Touched(Nobody, {k})
    /\ UNCHANGED <<assets, engine, rows, apply, applies>>

UploadAsset(a) ==
    /\ Upset /\ a \notin assets
    /\ PutCatalogAsset(a)
    /\ UNCHANGED <<entries, engine, rows, apply, steady, applies>>

-----------------------------------------------------------------------------
Handler(p) ==
    \/ \E f \in DOMAIN Files : Begin(p, f)
    \/ \E w \in apply[p].todo : Claim(p, w)
    \/ Look(p) \/ Update(p) \/ ListOwned(p)
    \/ \E i \in apply[p].gone : MarkReleased(p, i)
    \/ DeleteReleased(p)
    \/ Publish(p) \/ ListDeployments(p)
    \/ \E k \in apply[p].off : Deactivate(p, k)
    \/ Fails(p) \/ LookFails(p) \/ ReleaseFails(p)

Others ==
    \/ \E l \in Labels : ApiClaim(l)
    \/ \E i \in DOMAIN rows : ApiRelease(i) \/ \E l \in Labels : ApiRename(i, l)
    \/ \E b \in Bundles : ApiPublish(b)
    \/ \E k \in Of(entries, "deployment") : ApiDeactivate(k)
    \/ \E a \in Assets : UploadAsset(a)

Next == Others \/ \E p \in Clients : Handler(p)

Spec == Init /\ [][Next]_vars

-----------------------------------------------------------------------------
(* Properties. *)

\* Every reference in the catalog leads somewhere: the version a deployment selects is
\* one its own application has published, a logo is imported, no two services of an
\* application share a key; so Access never leaves out a deployment that selects a
\* version (docs/catalog.md:142). Each of several publishers names only what it likes.
CatalogWhole ==
    /\ \A k \in DOMAIN entries : Logo(entries[k]) \in assets \cup {Nothing}
    /\ \A j, k \in Of(entries, "service") :
          entries[j].app = entries[k].app /\ entries[j].key = entries[k].key => j = k
    /\ \A k \in Of(entries, "deployment") : entries[k].selects # Nothing =>
          \E c \in Of(entries, "capability") :
             /\ entries[c].service = entries[k].service
             /\ entries[c].version = entries[k].selects
             /\ entries[c].app = entries[k].app
    /\ \A s \in Scopes : Access(s) = Selecting(s)

\* What is published stays: an identity is never removed or given to something else, a
\* capability version never says anything new, whoever publishes when (types.go:37).
IdentitiesStay ==
    [][\A k \in DOMAIN entries :
         /\ k \in DOMAIN entries'
         /\ Kind(k) = "capability" => entries'[k] = entries[k]
         /\ \A f \in {"project", "app", "key", "service", "scope"} \cap DOMAIN entries[k] :
               entries'[k][f] = entries[k][f]]_vars

Acts(p) == apply'[p] # apply[p] /\ apply[p].step # "idle"
OwnRow(p, i) == \/ rows[i].source = "manifest" /\ rows[i].project = File(p).project
                \/ \E w \in DOMAIN File(p).claims : rows[i].owner = File(p).claims[w].owner

\* With ids that are never given twice an apply changes only rows of its own project or
\* owners, and only deployments of its own application and scope: "declaring a workspace
\* does not let it take another workspace's hostname" (docs/catalog.md:115).
OnlyOwn ==
    [][\A p \in Clients : Acts(p) =>
        /\ engine = "postgres" => \A i \in DOMAIN rows :
              ~OwnRow(p, i) => i \in DOMAIN rows' /\ rows'[i] = rows[i]
        /\ \A k \in Of(entries, "deployment") : entries'[k] # entries[k] =>
              entries[k].app = App(File(p).bundle) /\ entries[k].scope = File(p).scope]_vars

\* A hostname the file declares is served all through an apply of it, unless somebody
\* else touches it: it is changed in place and never released to be claimed again.
ServedThroughout ==
    [][\A p \in Clients : \A i \in DOMAIN rows :
        /\ Acts(p)
        /\ rows[i].label \in DOMAIN File(p).claims \cap steady[p]
        /\ rows[i].state = "active"
        => i \in DOMAIN rows' /\ rows'[i].state = "active"]_vars

Declared(p, w) == Norm[w] = w /\ w \in steady[p]

\* The registry and the catalog say what the file of p says, as far as nobody touched it.
\* (A hostname not written in its normal form is claimed and released by every apply.)
Conforms(p) ==
    /\ \A w \in DOMAIN File(p).claims : Declared(p, w) =>
          \E i \in Find(w) : /\ rows[i].project = File(p).project
                             /\ rows[i].owner = File(p).claims[w].owner
                             /\ rows[i].spec = File(p).claims[w].spec
    /\ File(p).prune /\ File(p).manages =>
          \A i \in DOMAIN rows :
             /\ rows[i].label \in steady[p] \ {Norm[w] : w \in DOMAIN File(p).claims}
             /\ rows[i].label \notin apply[p].missed
             /\ rows[i].source = "manifest" /\ rows[i].project = File(p).project
             => rows[i].state = "released"
    /\ \A k \in DOMAIN File(p).bundle \cap steady[p] : k \in DOMAIN entries /\ entries[k] = File(p).bundle[k]
    /\ File(p).prune /\ File(p).deploys =>
          \A k \in Of(entries, "deployment") \cap steady[p] : Stray(p, k) => entries[k].life = "inactive"

\* An apply that is answered with success has done all of it, whatever interrupted and
\* overlapping applies left behind or did meanwhile ("an interrupted or conflicting apply
\* can require a retry", docs/catalog.md:128): all but the releases that failed, of which
\* it only says nothing.
SuccessConforms == \A p \in Clients : apply[p].reply = "ok" => Conforms(p)

\* An apply is refused as taken only when somebody else has one of its hostnames, when
\* somebody has interfered, or when the very lookup of the hostname fails: what an
\* interrupted apply left never blocks its retry.
RefusedForCause ==
    [][\A p \in Clients :
         /\ Acts(p) /\ ~LookFails(p)
         /\ apply'[p].reply = "taken" /\ Declared(p, apply[p].at)
         => \E i \in Find(apply[p].at) : rows[i].source = "api" \/ rows[i].project # File(p).project]_vars

\* The same line taken at its word: when a retry has been answered with success and no
\* other apply is under way, the hostnames of the file are served. But a release that was
\* interrupted between its two statements has left a released row, which the retry
\* updates and leaves released.
RetryServes ==
    (\A p \in Clients : apply[p].step = "idle") =>
       \A p \in Clients : apply[p].reply = "ok" =>
          \A w \in DOMAIN File(p).claims : Declared(p, w) =>
             \A i \in Find(w) : rows[i].state = "active"
=============================================================================
