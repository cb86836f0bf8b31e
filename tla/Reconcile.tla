------------------------------- MODULE Reconcile -------------------------------
(***************************************************************************)
(* The writers that make something outside follow the registry: Traefik    *)
(* and Gateway API routes (internal/actuate), Cloudflare records           *)
(* (internal/dnssync), Nginx Proxy Manager hosts (internal/npmsync) and an *)
(* nginx include file (internal/nginxsync). Each pass lists the registry,  *)
(* looks at the target, and writes the difference one request at a time,   *)
(* while users change both sides and requests fail.                        *)
(*                                                                         *)
(* A target keeps one object per key. What an object says is the backend   *)
(* it sends to; wildcards, priorities, annotations and the zone's settings *)
(* go with the allocation and are not told apart. Left out: namespaces (a  *)
(* backend that moves to another is a removal and a creation), managed     *)
(* objects beyond the one page that is listed.                             *)
(***************************************************************************)
EXTENDS Integers, Sequences

CONSTANTS LabelCount,   \* labels, numbered in the order they are listed
          Keys,         \* names of objects at the target
          Backends,     \* what an allocation may send to, a record with its kind
          Shapes,       \* the sequences of backends an allocation may have
          Nothing,      \* no allocation, no object, no wish
          MaxUpsets     \* bound: changes by users, failed requests, restarts

ASSUME KeysAssumption == Keys # {}
ASSUME LabelsAssumption == LabelCount \in Nat
ASSUME BackendsAssumption == \A b \in Backends : b.kind \in {"service", "address"}
ASSUME ShapesAssumption == Shapes \subseteq Seq(Backends)
ASSUME NothingAssumption == Nothing \notin Backends /\ Nothing \notin Shapes
ASSUME UpsetsAssumption == MaxUpsets \in Nat

VARIABLES
    target,     \* the writer under study
    key,        \* RouteName, or the FQDN: the object of each label
    allocs,     \* the active allocations
    objects,    \* the target's objects
    token,      \* npm: the bearer token
    wanted,     \* the pass: desired, or the rendered file
    listed,     \* the pass: existing
    todo,       \* the pass: keys it has still to write
    stale,      \* keys whose object changed since it was listed
    replaced,   \* keys whose object was made anew since it was listed
    file,       \* nginx: the include file
    loaded,     \* nginx: the file as of the last reload
    step,
    steady,     \* history: labels and objects nobody touched since the pass began
    upsets

Labels == 1..LabelCount

vars == <<target, key, allocs, objects, token, wanted, listed, todo, stale, replaced,
          file, loaded, step, steady, upsets>>

Cluster  == {"traefik", "gateway"}
Services == {"cloudflare", "npm"}
Targets  == Cluster \cup Services \cup {"nginx"}

\* What a zone's Cloudflare records say: its Target.
Record == [kind |-> "record", to |-> 0]

\* extra: fields gerry does not manage, set by a user (certificate, enabled).
\* scheme: npm's forward_scheme, when a user changed it; gerry sends it and never looks.
Object == [marked : BOOLEAN, says : Backends \cup {Record}, extra : BOOLEAN, scheme : BOOLEAN]
ASSUME NoObjectAssumption == Nothing \notin Object

Wishes == [Keys -> Backends \cup {Record, Nothing}]
NoWish == [k \in Keys |-> Nothing]
\* torn: the write broke off before the marker was whole; part: it broke off after.
File   == [begins : {"absent", "foreign", "torn", "part", "marker"}, says : Wishes]
Other(how) == [begins |-> how, says |-> NoWish]
Rendered(w) == [begins |-> "marker", says |-> w]

TypeOK ==
    /\ target \in Targets
    /\ key \in [Labels -> Keys]
    /\ allocs \in [Labels -> Shapes \cup {Nothing}]
    /\ objects \in [Keys -> Object \cup {Nothing}]
    /\ token \in {"none", "good", "expired"}
    /\ wanted \in Wishes
    /\ listed \in [Keys -> Object \cup {Nothing}]
    /\ todo \subseteq Keys /\ stale \subseteq Keys /\ replaced \subseteq stale
    /\ file \in File /\ loaded \in File
    /\ step \in {"idle", "list", "write", "compare", "truncate", "fill", "reload"}
    /\ steady \subseteq Keys
    /\ upsets \in 0..MaxUpsets

Init ==
    /\ target \in Targets
    /\ key \in [Labels -> Keys]
    \* Only object names lose characters; an FQDN is its own key.
    /\ target \notin Cluster => \A l, m \in Labels : key[l] = key[m] => l = m
    /\ allocs = [l \in Labels |-> Nothing]
    /\ objects = [k \in Keys |-> Nothing]
    /\ token = "none"
    /\ wanted = NoWish
    /\ listed = [k \in Keys |-> Nothing]
    /\ todo = {} /\ stale = {} /\ replaced = {}
    /\ file = Other("absent") /\ loaded = Other("absent")
    /\ step = "idle"
    /\ steady = {}
    /\ upsets = 0

Upset == upsets < MaxUpsets /\ upsets' = upsets + 1

-----------------------------------------------------------------------------
(* What the registry asks for. *)

\* Traefik: the first route with a service behind it.
TraefikWants(s) ==
    LET I == {i \in DOMAIN s : s[i].kind = "service"}
    IN  IF I = {} THEN Nothing ELSE s[CHOOSE i \in I : \A j \in I : i <= j]

\* The gateway and the nginx writers look at the first route only.
FirstIf(s, kind) == IF s # <<>> /\ s[1].kind = kind THEN s[1] ELSE Nothing

GatewayWants(s) == FirstIf(s, "service")
NpmWants(s)     == FirstIf(s, "address")
NginxWants(s)   == FirstIf(s, "address")

\* Cloudflare gives every active allocation the zone's own record.
CloudflareWants(s) == Record

Desired(s) ==
    CASE s = Nothing -> Nothing
      [] s # Nothing /\ target = "traefik"    -> TraefikWants(s)
      [] s # Nothing /\ target = "gateway"    -> GatewayWants(s)
      [] s # Nothing /\ target = "cloudflare" -> CloudflareWants(s)
      [] s # Nothing /\ target = "npm"        -> NpmWants(s)
      [] s # Nothing /\ target = "nginx"      -> NginxWants(s)

\* Of several allocations with one object name the one listed last is in the map.
Wish(k) == LET L == {l \in Labels : key[l] = k /\ Desired(allocs[l]) # Nothing}
           IN  IF L = {} THEN Nothing
               ELSE Desired(allocs[CHOOSE l \in L : \A m \in L : m <= l])

-----------------------------------------------------------------------------
(* A pass over objects. *)

Works == target # "nginx"

Rest == UNCHANGED <<target, key, allocs, file, loaded>>

\* The pass returns: its maps are gone.
Return ==
    /\ step' = "idle"
    /\ wanted' = NoWish /\ listed' = [k \in Keys |-> Nothing] /\ todo' = {}
    /\ stale' = {} /\ replaced' = {} /\ steady' = {}

ListRegistry ==
    /\ Works /\ step = "idle"
    /\ wanted' = [k \in Keys |-> Wish(k)]
    /\ step' = "list"
    /\ steady' = Keys
    /\ UNCHANGED <<objects, token, listed, todo, stale, replaced, upsets>> /\ Rest

\* npm: a request logs in without a token, and once more when it is refused with 401.
LogsIn == token # "good"

\* The target answers; it accepts any token that has not expired.
Answers ==
    IF target = "npm" THEN /\ LogsIn \/ token = "good"
                           /\ token' = "good"
                      ELSE UNCHANGED token

SlipAllListed(k) == objects[k] # Nothing

\* The label selector, the comment parameter, the prefix of advanced_config.
Managed(k) == objects[k] # Nothing /\ objects[k].marked

SlipKeepsReleased(k, o) == wanted[k] # Nothing /\ o.says # wanted[k]
SlipComparesExtra(k, o) == o.says # wanted[k] \/ o.extra

\* specEqual, DeepEqual, hostChanged: fields gerry does not manage are not compared, and
\* hostChanged leaves out one that gerry does manage, forward_scheme.
Differs(k, o) == o.says # wanted[k]

\* What the loops will write: objects nobody wants or that differ, and the missing.
Work(L) == {k \in Keys : IF L[k] = Nothing THEN wanted[k] # Nothing ELSE Differs(k, L[k])}

ListTarget ==
    /\ step = "list" /\ Answers
    /\ LET L == [k \in Keys |-> IF Managed(k) THEN objects[k] ELSE Nothing]
       IN  IF Work(L) = {} THEN Return
           ELSE /\ listed' = L
                /\ todo' = Work(L)
                /\ step' = "write"
                /\ UNCHANGED <<wanted, stale, replaced, steady>>
    /\ UNCHANGED <<objects, upsets>> /\ Rest

\* An error of either list ends the pass, of nginx's file or reload too, and so does
\* the end of the process.
PassFails ==
    /\ step # "idle" /\ Upset
    /\ token' \in {token, "none"}
    /\ Return
    /\ UNCHANGED objects /\ Rest

\* The write of k has been answered, one way or the other: errors are only logged.
Wrote(k) ==
    IF todo = {k} THEN Return
    ELSE /\ todo' = todo \ {k}
         /\ UNCHANGED <<wanted, listed, stale, replaced, step, steady>>

\* Objects that are there come before those that are missing.
NextWrite(k) ==
    /\ step = "write" /\ k \in todo
    /\ listed[k] = Nothing => \A j \in todo : listed[j] = Nothing

\* The target knows an object by its name, or by the id that was listed.
SameObject(k) == objects[k] # Nothing /\ (target \in Cluster \/ k \notin replaced)

Remove(k) ==
    /\ NextWrite(k) /\ listed[k] # Nothing /\ wanted[k] = Nothing
    /\ Answers
    /\ objects' = IF SameObject(k) THEN [objects EXCEPT ![k] = Nothing] ELSE objects
    /\ Wrote(k)
    /\ UNCHANGED upsets /\ Rest

\* The cluster refuses an update whose resourceVersion is not the current one.
Unchanged(k) == target \in Cluster => k \notin stale

\* npm and Cloudflare are sent the managed fields only, the cluster a whole object.
\* The whole of advanced_config, which begins with the mark, is a managed field.
SlipWholeUpdate(k) == [marked |-> TRUE, says |-> wanted[k], extra |-> FALSE, scheme |-> FALSE]
Updated(k) == [marked |-> TRUE, says |-> wanted[k],
               extra |-> target \in Services /\ objects[k].extra, scheme |-> FALSE]

Repair(k) ==
    /\ NextWrite(k) /\ listed[k] # Nothing /\ wanted[k] # Nothing
    /\ Answers
    /\ objects' = IF SameObject(k) /\ Unchanged(k) THEN [objects EXCEPT ![k] = Updated(k)]
                  ELSE objects
    /\ Wrote(k)
    /\ UNCHANGED upsets /\ Rest

Made(marked, b) == [marked |-> marked, says |-> b, extra |-> FALSE, scheme |-> FALSE]

\* A name or domain that is taken is refused.
Create(k) ==
    /\ NextWrite(k) /\ listed[k] = Nothing
    /\ Answers
    /\ objects' = IF objects[k] = Nothing
                  THEN [objects EXCEPT ![k] = Made(TRUE, wanted[k])]
                  ELSE objects
    /\ Wrote(k)
    /\ UNCHANGED upsets /\ Rest

\* A request that fails is given up until the next pass. (One that was carried out
\* before its answer was lost is a success: the loop does not care.)
WriteFails(k) ==
    /\ NextWrite(k) /\ Upset
    /\ Wrote(k)
    /\ UNCHANGED <<objects, token>> /\ Rest

-----------------------------------------------------------------------------
(* A pass over nginx's file. *)

FileRest == UNCHANGED <<target, key, allocs, objects, token, upsets>>

Render ==
    /\ ~Works /\ step = "idle"
    /\ wanted' = [k \in Keys |-> Wish(k)]
    /\ step' = "compare"
    /\ UNCHANGED <<file, loaded, listed, todo, stale, replaced, steady>> /\ FileRest

\* A file that does not begin with the marker, were it empty, is not gerry's.
Refused(f) == f.begins \in {"foreign", "torn"}

SlipSteadyOnce(f) == f.begins = "marker"
SteadyState(f) == f = Rendered(wanted)

Compare ==
    /\ step = "compare"
    /\ IF Refused(file) \/ SteadyState(file) THEN Return
       ELSE step' = "truncate" /\ UNCHANGED <<wanted, listed, todo, stale, replaced, steady>>
    /\ UNCHANGED <<file, loaded>> /\ FileRest

\* os.WriteFile empties the file and then fills it: when the disk is full or the process
\* ends, the file is left empty, or with a part that has the marker or has not.
Truncate ==
    /\ step = "truncate"
    /\ file' = Other("torn") /\ step' = "fill"
    /\ UNCHANGED <<loaded, wanted, listed, todo, stale, replaced, steady>> /\ FileRest

FillPart ==
    /\ step = "fill" /\ file.begins # "part"
    /\ file' = Other("part")
    /\ UNCHANGED <<loaded, wanted, listed, todo, stale, replaced, step, steady>> /\ FileRest

Fill ==
    /\ step = "fill"
    /\ file' = Rendered(wanted) /\ step' = "reload"
    /\ UNCHANGED <<loaded, wanted, listed, todo, stale, replaced, steady>> /\ FileRest

Reload ==
    /\ step = "reload"
    /\ loaded' = file
    /\ Return
    /\ UNCHANGED file /\ FileRest

-----------------------------------------------------------------------------
(* Everyone else. *)

Quiet == UNCHANGED <<target, key, wanted, listed, todo, step>>

\* Claims, releases and patches by the API.
ChangeAlloc(l) ==
    /\ Upset
    /\ \E s \in (Shapes \cup {Nothing}) \ {allocs[l]} : allocs' = [allocs EXCEPT ![l] = s]
    /\ steady' = steady \ {key[l]}
    /\ UNCHANGED <<objects, token, stale, replaced, file, loaded>> /\ Quiet

\* A user edits an object: what it says, its scheme, a field of his own, the mark.
EditObject(k) ==
    /\ Works /\ Upset /\ objects[k] # Nothing
    /\ \E o \in Object \ {objects[k]} :
          /\ o.scheme => target = "npm"
          /\ objects' = [objects EXCEPT ![k] = o]
    /\ stale' = IF step = "write" THEN stale \cup {k} ELSE stale
    /\ steady' = steady \ {k}
    /\ UNCHANGED <<allocs, token, replaced, file, loaded>> /\ Quiet

\* A user makes an object of his own, also in the place of another.
MakeObject(k) ==
    /\ Works /\ Upset
    /\ \E b \in Backends : objects' = [objects EXCEPT ![k] = Made(FALSE, b)]
    /\ stale' = IF step = "write" THEN stale \cup {k} ELSE stale
    /\ replaced' = IF step = "write" THEN replaced \cup {k} ELSE replaced
    /\ steady' = steady \ {k}
    /\ UNCHANGED <<allocs, token, file, loaded>> /\ Quiet

DeleteObject(k) ==
    /\ Works /\ Upset /\ objects[k] # Nothing
    /\ objects' = [objects EXCEPT ![k] = Nothing]
    /\ stale' = IF step = "write" THEN stale \cup {k} ELSE stale
    /\ replaced' = IF step = "write" THEN replaced \cup {k} ELSE replaced
    /\ steady' = steady \ {k}
    /\ UNCHANGED <<allocs, token, file, loaded>> /\ Quiet

ExpireToken ==
    /\ Upset /\ token = "good"
    /\ token' = "expired"
    /\ UNCHANGED <<allocs, objects, stale, replaced, file, loaded, steady>> /\ Quiet

\* A user writes the file himself, takes it away, or puts the marker back.
EditFile ==
    /\ ~Works /\ Upset
    /\ file' \in {Other("absent"), Other("foreign"), Rendered(NoWish)} \ {file}
    /\ stale' = IF step = "idle" THEN stale ELSE Keys
    /\ UNCHANGED <<allocs, objects, token, replaced, loaded, steady>> /\ Quiet

-----------------------------------------------------------------------------
Objects == ListRegistry \/ ListTarget \/ \E k \in Keys : Remove(k) \/ Repair(k) \/ Create(k)

\* The four Reconcile functions share their shape, not their code.
TraefikPass    == target = "traefik" /\ Objects
GatewayPass    == target = "gateway" /\ Objects
CloudflarePass == target = "cloudflare" /\ Objects
NpmPass        == target = "npm" /\ Objects
NginxPass      == Render \/ Compare \/ Truncate \/ FillPart \/ Fill \/ Reload

Pass == TraefikPass \/ GatewayPass \/ CloudflarePass \/ NpmPass \/ NginxPass

Users ==
    \/ \E l \in Labels : ChangeAlloc(l)
    \/ \E k \in Keys : EditObject(k) \/ MakeObject(k) \/ DeleteObject(k)
    \/ ExpireToken \/ EditFile

Next ==
    \/ Pass
    \/ PassFails
    \/ \E k \in Keys : WriteFails(k)
    \/ Users

Spec == Init /\ [][Next]_vars

\* Run repeats the pass at every tick; requests are answered when nothing is upset.
FairSpec == Spec /\ WF_vars(Pass)

-----------------------------------------------------------------------------
(* Properties. *)

\* The pass is about to write k, or has just done so.
Handles(k) == step = "write" /\ k \in todo /\ k \notin todo'

\* A pass writes to no object without gerry's mark, and to no file without it, but in
\* these cases, which the code cannot tell: the user acted after the pass had listed, and
\* then only by a request that names the object as listed. An object put in the place of
\* a listed host or record has an id of its own and stays; the cluster refuses an update
\* of what has changed, but not a removal by name (actuate/traefik.go:5, :180; nginx.go:6).
UnmarkedUntouched ==
    [][/\ \A k \in Keys : Handles(k) /\ objects[k] # Nothing /\ objects'[k] # objects[k] =>
            /\ ~objects[k].marked => k \in stale
            /\ target \in Services => k \notin replaced
            /\ target \in Cluster /\ objects'[k] # Nothing => k \notin stale
       /\ step = "truncate" /\ file.begins = "foreign" /\ file' # file => stale # {}]_vars

\* A pass leaves alone what says what the registry has said since the pass began,
\* whatever else users have set on it: the writers never fight a user over fields they
\* do not manage, nor write without need (hostChanged, specEqual).
AgreedStays ==
    [][\A k \in steady : Handles(k) /\ objects[k] # Nothing /\ objects[k].marked
            /\ objects[k].says = Wish(k) => objects'[k] = objects[k]]_vars

\* A certificate or access list a user has set survives every repair of its host or
\* record (npm.go:275), although the pass read the object before it was set. (Text that a
\* user adds to advanced_config does not: it is compared and sent with the mark.)
UserFieldsSurvive ==
    [][\A k \in Keys : Handles(k) /\ target \in Services /\ wanted[k] # Nothing
            /\ objects[k] # Nothing /\ objects[k].extra
        => objects'[k] # Nothing /\ objects'[k].extra]_vars

\* Every managed object says what it should, in the fields that are compared, and
\* nothing is missing.
Agrees ==
    \A k \in Keys : /\ Managed(k) => objects[k].says = Wish(k)
                    /\ Wish(k) # Nothing => objects[k] # Nothing

\* The file renders the registry, unless it is a user's, or was left without its marker by
\* a write that broke off: gerry takes that one for a user's from then on.
FileFollows == file.begins \in {"foreign", "torn"} \/ file = Rendered([k \in Keys |-> Wish(k)])

\* Once users and failures leave it alone the target says what the registry says: an
\* expired npm token, a refused update, objects mixed up behind a pass or a file cut
\* short after its marker are made good by later passes. Three things never are: a file
\* cut short before its marker was whole, which every pass refuses (nginx.go:102-105); an
\* npm host of which only the scheme was changed (hostChanged); and what nginx has loaded
\* when a reload failed, for the next pass finds the file as it should be.
Converges == <>[](IF Works THEN Agrees ELSE FileFollows)
=============================================================================
