------------------------------- MODULE LabelSync -------------------------------
(***************************************************************************)
(* Two reconcilers that feed one registry beside its API: the Docker       *)
(* watcher claims a hostname for every container with a label              *)
(* (internal/dockerlabels/watcher.go), the CRD ingester one for every      *)
(* HostnameReservation (internal/crdingest/ingest.go), and both release    *)
(* what they own when its object is gone. Each statement of a pass is a    *)
(* step of its own, but for a read by id and the write right after it.     *)
(*                                                                         *)
(* Labels are those of one zone. An object writes its label as it likes; a *)
(* spelling is looked up as it is written and normalized by the claim.     *)
(* ref stands for what is compared with the object: the docker backend, or *)
(* owner and spec. Left out: log messages and the map that limits them,    *)
(* zones that do not exist (splitByZones is in Algorithms), more than one  *)
(* page of reservations, holds and the states that PATCH writes.           *)
(***************************************************************************)
EXTENDS Tables, FiniteSets

CONSTANTS Containers, Reservations,
          Standing,     \* bound: those that may be there when the daemon starts
          Labels,       \* normal labels
          Spellings,    \* labels as they may be written
          Norm,         \* core.Normalize, a function from Spellings to Labels
          Nothing,      \* an object that is not there; the backend of an API claim
          MaxUpsets     \* bound: changes of objects, API requests, failures, restarts

ASSUME SpellingsAssumption ==
    /\ Labels \subseteq Spellings
    /\ Norm \in [Spellings -> Labels]
    /\ \A l \in Labels : Norm[l] = l
ASSUME ObjectsAssumption == Containers \cap Reservations = {}
ASSUME NothingAssumption == Nothing \notin Spellings /\ Nothing \notin Containers \cup Reservations
ASSUME UpsetsAssumption == MaxUpsets \in Nat

VARIABLES
    engine,     \* the database behind the store
    rows,       \* allocations
    objects,    \* how each container or reservation that is there writes its label
    pass,       \* the pass of each reconciler
    freeing,    \* rows the API has set to released and has still to delete
    cuts,       \* history: rows that a release cut in two has left behind
    steady,     \* history: objects of each nobody touched since its pass began
    upsets

vars == <<engine, rows, objects, pass, freeing, cuts, steady, upsets>>

Sources == {"docker-label", "crd"}
Objects == Containers \cup Reservations
Of(s)   == IF s = "docker-label" THEN Containers ELSE Reservations

States == {"active", "released"}
Row == [label : Labels, by : Sources \cup {"api"}, ref : Objects \cup {Nothing}, state : States]

\* seen: the objects of the snapshot; todo: those it has still to look at; at, id, was:
\* the object in hand, the row it found, and its state; gone: ids of rows to release.
\* blind: to claim without knowing what there is; free: to delete the row set to released.
Pass == [step : {"idle", "each", "update", "claim", "blind", "drop", "free"},
         seen : [Objects -> Spellings \cup {Nothing}], todo : SUBSET Objects,
         at : Objects \cup {Nothing}, id : Nat, was : States, gone : SUBSET Nat]
Idle == [step |-> "idle", seen |-> [o \in Objects |-> Nothing], todo |-> {},
         at |-> Nothing, id |-> 0, was |-> "active", gone |-> {}]

TypeOK ==
    /\ engine \in {"sqlite", "postgres"}
    /\ DOMAIN rows \subseteq Nat \ {0} /\ \A i \in DOMAIN rows : rows[i] \in Row
    /\ \A i, j \in DOMAIN rows : rows[i].label = rows[j].label => i = j
    /\ objects \in [Objects -> Spellings \cup {Nothing}]
    /\ pass \in [Sources -> Pass]
    /\ freeing \subseteq Nat /\ cuts \subseteq Nat
    /\ steady \in [Sources -> SUBSET Objects]
    /\ upsets \in 0..MaxUpsets

Init ==
    /\ engine \in {"sqlite", "postgres"}
    /\ rows = [i \in {} |-> Nothing]
    /\ objects \in [Objects -> Spellings \cup {Nothing}]
    /\ \A o \in Objects : objects[o] # Nothing => o \in Standing
    /\ pass = [s \in Sources |-> Idle]
    /\ freeing = {} /\ cuts = {}
    /\ steady = [s \in Sources |-> {}]
    /\ upsets = 0

Upset == upsets < MaxUpsets /\ upsets' = upsets + 1

\* Ids somebody may still use.
Remembered == {pass[s].id : s \in Sources} \cup freeing \cup UNION {pass[s].gone : s \in Sources}

\* Postgres never gives an id twice. Ids matter to those who hold them only, so the
\* model may take any that nobody holds.
NewId == IF engine = "sqlite" THEN MaxPlusOne(DOMAIN rows)
         ELSE CHOOSE i \in 1..(Cardinality(DOMAIN rows \cup Remembered) + 1) :
                  i \notin DOMAIN rows \cup Remembered

Find(l) == {i \in DOMAIN rows : rows[i].label = l}
Insert(r) == rows' = IF Find(r.label) = {} THEN Put(rows, NewId, r) ELSE rows

\* Release reads the row and sets it to released; the DELETE by id is another statement.
SetReleased(i) == rows' = [rows EXCEPT ![i].state = "released"]
Free(i) == rows' = Drop(rows, {i}) /\ cuts' = cuts \ {i}

\* Nobody comes back for a row whose release was cut after its first statement.
LeftBehind(i) == cuts' = cuts \cup ({i} \cap DOMAIN rows)

-----------------------------------------------------------------------------
(* A pass. *)

Step(s, p) == pass' = [pass EXCEPT ![s] = p]

\* docker ps and inspect, or the list of reservations: what is running.
Snapshot(s) ==
    /\ pass[s].step = "idle"
    /\ LET seen == [o \in Objects |-> IF o \in Of(s) THEN objects[o] ELSE Nothing]
       IN  Step(s, [Idle EXCEPT !.step = "each", !.seen = seen,
                                !.todo = {o \in Objects : seen[o] # Nothing}])
    /\ steady' = [steady EXCEPT ![s] = Of(s)]
    /\ UNCHANGED <<engine, rows, objects, freeing, cuts, upsets>>

SlipEmptyOnError == [Idle EXCEPT !.step = "each"]

\* An error ends the pass: nothing is released on the strength of a list that failed.
OnError == Idle

\* A failed snapshot, list of zones or list of our allocations; a restart at any time.
PassFails(s) ==
    /\ Upset
    /\ Step(s, OnError)
    /\ IF pass[s].step = "free" THEN LeftBehind(pass[s].id) ELSE UNCHANGED cuts
    /\ UNCHANGED <<engine, rows, objects, freeing, steady>>

SlipTakesAny(s, i) == TRUE

\* What another owner holds is not touched.
Ours(s, i) == rows[i].by = s

SlipAnyBackend(i, o) == TRUE

\* backendMatches, specChanged.
Matches(i, o) == rows[i].ref = o

\* The object's label as written is looked up; the row found is kept for later.
Look(s, o) ==
    /\ pass[s].step = "each" /\ o \in pass[s].todo
    /\ LET I == Find(pass[s].seen[o])
           p == [pass[s] EXCEPT !.todo = @ \ {o}]
       IN  IF I = {} THEN Step(s, [p EXCEPT !.step = "claim", !.at = o])
           ELSE \E i \in I :
                  IF Ours(s, i) /\ ~Matches(i, o)
                  THEN Step(s, [p EXCEPT !.step = "update", !.at = o, !.id = i,
                                         !.was = rows[i].state])
                  ELSE Step(s, p)
    /\ UNCHANGED <<engine, rows, objects, freeing, cuts, steady, upsets>>

\* An error of the lookup, whatever it is, is taken for a label that is free.
LookFails(s, o) ==
    /\ pass[s].step = "each" /\ o \in pass[s].todo /\ Upset
    /\ Step(s, [pass[s] EXCEPT !.todo = @ \ {o}, !.step = "blind", !.at = o])
    /\ UNCHANGED <<engine, rows, objects, freeing, cuts, steady>>

Turn(s) == Step(s, [pass[s] EXCEPT !.step = "each", !.at = Nothing, !.id = 0, !.was = "active"])

\* UpdateAllocation writes owner, spec and state of the copy, to whatever row has the id
\* now: a row that was released when it was read is so again.
Update(s) ==
    /\ pass[s].step = "update"
    /\ rows' = IF pass[s].id \in DOMAIN rows
               THEN [rows EXCEPT ![pass[s].id] = [@ EXCEPT !.by = s, !.ref = pass[s].at,
                                                           !.state = pass[s].was]]
               ELSE rows
    /\ Turn(s)
    /\ UNCHANGED <<engine, objects, freeing, cuts, steady, upsets>>

\* A claim for a label that was taken meanwhile is refused.
Claim(s) ==
    /\ pass[s].step \in {"claim", "blind"}
    /\ Insert([label |-> Norm[pass[s].seen[pass[s].at]], by |-> s, ref |-> pass[s].at,
               state |-> "active"])
    /\ Turn(s)
    /\ UNCHANGED <<engine, objects, freeing, cuts, steady, upsets>>

\* desired: labels as the objects write them.
Wanted(s, i) == \E o \in Of(s) : pass[s].seen[o] = rows[i].label

\* On to the rows G, all that is left to release.
Onward(s, G) == Step(s, IF G = {} THEN Idle ELSE [Idle EXCEPT !.step = "drop", !.gone = G])

\* All objects looked at: the rows to release are listed, those set to released left out.
ListOurs(s) ==
    /\ pass[s].step = "each" /\ pass[s].todo = {}
    /\ Onward(s, {i \in DOMAIN rows : /\ rows[i].by = s /\ rows[i].state # "released"
                                     /\ ~Wanted(s, i)})
    /\ UNCHANGED <<engine, rows, objects, freeing, cuts, steady, upsets>>

\* Release by id, of whatever row has it now; one that is gone is passed over.
Release(s, i) ==
    /\ pass[s].step = "drop" /\ i \in pass[s].gone
    /\ IF i \in DOMAIN rows
       THEN /\ SetReleased(i)
            /\ Step(s, [pass[s] EXCEPT !.step = "free", !.id = i, !.gone = @ \ {i}])
       ELSE Onward(s, pass[s].gone \ {i}) /\ UNCHANGED rows
    /\ UNCHANGED <<engine, objects, freeing, cuts, steady, upsets>>

ReleaseFrees(s) ==
    /\ pass[s].step = "free"
    /\ Free(pass[s].id)
    /\ Onward(s, pass[s].gone)
    /\ UNCHANGED <<engine, objects, freeing, steady, upsets>>

\* An update, a claim or a release that fails is given up and the pass goes on.
StatementFails(s) ==
    /\ Upset
    /\ \/ pass[s].step \in {"update", "claim", "blind"} /\ Turn(s) /\ UNCHANGED cuts
       \/ /\ pass[s].step = "drop" /\ UNCHANGED cuts
          /\ \E i \in pass[s].gone : Onward(s, pass[s].gone \ {i})
       \/ /\ pass[s].step = "free" /\ LeftBehind(pass[s].id)
          /\ Onward(s, pass[s].gone)
    /\ UNCHANGED <<engine, rows, objects, freeing, steady>>

-----------------------------------------------------------------------------
(* Containers, reservations and the API. *)

Touched(O) == steady' = [s \in Sources |-> steady[s] \ O]
Writing(l) == {o \in Objects : objects[o] # Nothing /\ Norm[objects[o]] = l}
Rivals(w)  == IF w = Nothing THEN {} ELSE Writing(Norm[w])

\* A container starts, stops or is replaced; a reservation is applied or deleted.
ChangeObject(o) ==
    /\ Upset
    /\ \E w \in (Spellings \cup {Nothing}) \ {objects[o]} :
         /\ objects' = [objects EXCEPT ![o] = w]
         /\ Touched({o} \cup Rivals(objects[o]) \cup Rivals(w))
    /\ UNCHANGED <<engine, rows, pass, freeing, cuts>>

ApiClaim(l) ==
    /\ Upset /\ Find(l) = {}
    /\ Insert([label |-> l, by |-> "api", ref |-> Nothing, state |-> "active"])
    /\ Touched(Writing(l))
    /\ UNCHANGED <<engine, objects, pass, freeing, cuts>>

ApiRelease(i) ==
    /\ Upset /\ i \notin freeing
    /\ SetReleased(i) /\ freeing' = freeing \cup {i}
    /\ Touched(Writing(rows[i].label))
    /\ UNCHANGED <<engine, objects, pass, cuts>>

ApiFrees(i) ==
    /\ i \in freeing /\ freeing' = freeing \ {i}
    /\ Free(i)
    /\ IF i \in DOMAIN rows THEN Touched(Writing(rows[i].label)) ELSE UNCHANGED steady
    /\ UNCHANGED <<engine, objects, pass, upsets>>

\* The caller goes away between the two statements, the second fails, or the daemon ends.
ApiCut(i) ==
    /\ Upset
    /\ i \in freeing /\ freeing' = freeing \ {i}
    /\ LeftBehind(i)
    /\ UNCHANGED <<engine, rows, objects, pass, steady>>

\* PATCH of the routes, or a rename; both leave the owner alone.
ApiEdit(i) ==
    /\ Upset
    /\ \/ rows' = [rows EXCEPT ![i].ref = Nothing] /\ Touched(Writing(rows[i].label))
       \/ \E l \in Labels : /\ Find(l) = {}
                            /\ rows' = [rows EXCEPT ![i].label = l]
                            /\ Touched(Writing(rows[i].label) \cup Writing(l))
    /\ UNCHANGED <<engine, objects, pass, freeing, cuts>>

-----------------------------------------------------------------------------
Sync(s) ==
    \/ Snapshot(s)
    \/ \E o \in Of(s) : Look(s, o)
    \/ Update(s) \/ Claim(s) \/ ListOurs(s)
    \/ (\E i \in pass[s].gone : Release(s, i)) \/ ReleaseFrees(s)

Fails(s) == PassFails(s) \/ StatementFails(s) \/ \E o \in Of(s) : LookFails(s, o)

ApiGoesOn == \E i \in freeing : ApiFrees(i)
Api == \/ \E l \in Labels : ApiClaim(l)
       \/ \E i \in DOMAIN rows : ApiRelease(i) \/ ApiEdit(i)
       \/ ApiGoesOn
       \/ \E i \in freeing : ApiCut(i)

DockerSync == Sync("docker-label")
CrdSync    == Sync("crd")

Next ==
    \/ DockerSync \/ CrdSync
    \/ \E s \in Sources : Fails(s)
    \/ \E o \in Objects : ChangeObject(o)
    \/ Api

Spec == Init /\ [][Next]_vars

\* Both tickers keep starting passes, and a pass goes on; so does a handler of the API.
FairSpec == Spec /\ WF_vars(DockerSync) /\ WF_vars(CrdSync) /\ WF_vars(ApiGoesOn)

-----------------------------------------------------------------------------
(* Properties. *)

\* With ids that are never given twice a reconciler changes or releases only what it
\* owns (watcher.go:12, ingest.go:6), although every write goes by an id read earlier.
OthersUntouched ==
    [][\A s \in Sources : engine = "postgres" /\ pass'[s] # pass[s] =>
         \A i \in DOMAIN rows : rows[i].by # s => i \in DOMAIN rows' /\ rows'[i] = rows[i]]_vars

\* Everybody writes labels in their normal form. (A label written otherwise is claimed
\* by every pass and released by the same pass, which looks for it as it is written.)
Normal == \A o \in Objects : objects[o] \in Labels \cup {Nothing}

\* No other object of the source asks for the label of this one.
Plain(s, o) == /\ o \in Of(s) /\ objects[o] \in Labels
               /\ Writing(objects[o]) \cap Of(s) = {o}

\* Row i is the hostname of o.
Hostname(s, i, o) == rows[i].label = objects[o] /\ rows[i].by = s /\ rows[i].ref = o

\* A container that runs, a reservation that stands all through a pass does not lose its
\* hostname by it, whatever fails on the way.
LiveKept ==
    [][\A s \in Sources : pass'[s] # pass[s] =>
         \A i \in DOMAIN rows : \A o \in steady[s] : Plain(s, o) /\ Hostname(s, i, o)
               => i \in DOMAIN rows' /\ rows'[i] = rows[i]]_vars

\* A released row nobody will delete: what a release that was cut has left or, where ids
\* are given twice, what a copy of a released row was written to.
Leftover(i) == rows[i].state = "released" /\ (i \in cuts \/ engine = "sqlite")

\* Once all is quiet each plain object has its hostname and is served, unless somebody else
\* holds it, and a reconciler holds no hostname that no object of its asks for. Leftovers
\* stay for ever: a pass takes one under its object's label for the object's hostname
\* ("steady state", watcher.go:188), does not serve it, and lists none for release.
Settled ==
    \A s \in Sources :
       /\ \A o \in Of(s) : Plain(s, o) =>
             \E i \in Find(objects[o]) : rows[i].by = s =>
                rows[i].ref = o /\ (rows[i].state = "active" \/ Leftover(i))
       /\ \A i \in DOMAIN rows : rows[i].by = s =>
             \/ Leftover(i)
             \/ rows[i].state = "active" /\ \E o \in Of(s) : o \in Writing(rows[i].label)
Converges == <>[](Normal => Settled)
=============================================================================
