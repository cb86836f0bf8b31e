----------------------------- MODULE Observation -----------------------------
(***************************************************************************)
(* The Kubernetes observer, internal/observe/k8s.go, and the retirement of *)
(* what it imported, internal/store/observation.go, for the hosts of one   *)
(* zone: every cycle lists two kinds of cluster routes, imports the hosts  *)
(* it finds and, in one transaction, retires those it has missed for long. *)
(* The cluster, the API and the clock move between any two of its steps.   *)
(* AutoRegister and RetireMissing are on.                                  *)
(*                                                                         *)
(* A point in time is its age: a set holding the number of clock ticks     *)
(* since then, or the empty set for no such time (nil, a zero time).       *)
(* Left out: owners and labels of the rows, conflicts, metrics; the pages  *)
(* of a list (a list that changes between pages is a failed scan).         *)
(***************************************************************************)
EXTENDS Integers, FiniteSets

CONSTANTS Hosts,
          Nothing,      \* "no row"
          Interval,     \* o.Interval, in clock ticks
          Grace,        \* o.MissingGracePeriod
          MaxUpsets     \* bound: changes of the cluster, API requests, failed scans,
                        \* restarts, late cycles and times the clock is set back

ASSUME PeriodsAssumption == Interval \in Nat \ {0} /\ Grace \in Nat \ {0}
ASSUME UpsetsAssumption == MaxUpsets \in Nat

\* Ages beyond OldAge are alike: older than the grace period and than any gap, from
\* a cycle that has lasted as long as one can.
Longest == IF 2 * Interval > Grace THEN 2 * Interval ELSE Grace
OldAge  == Longest + 1 + Interval + 2 * MaxUpsets
Ages    == -MaxUpsets .. OldAge
Times   == {{}} \cup {{a} : a \in Ages}

MinScans == 3

VARIABLES
    routed,    \* how the cluster serves each host
    rows,      \* the allocation of each host
    scan,      \* the cycle under way
    last,      \* o.lastSuccess
    patch,     \* an API handler between its read and its write of a row
    timer,     \* ticks since the last cycle began
    gone,      \* history: the unbroken run of scans that did not see a host
    steady,    \* history: hosts served alike since the cycle under way began
    edited,    \* history: hosts whose row a PATCH has written
    upsets     \* how much of MaxUpsets has happened

vars == <<routed, rows, scan, last, patch, timer, gone, steady, edited, upsets>>

Routes == {"none", "route", "managed", "ingress"}

\* observed: active, source observed, kind platform, no routes of its own;
\* excluded: imported, but suspended or given routes; claimed: any other.
\* missing and count are MissingSince and MissingObservations, set together.
Row == {r \in [source : {"observed", "excluded", "claimed"}, missing : Times, count : 0..MinScans] :
            r.missing = {} <=> r.count = 0}
ASSUME NothingAssumption == Nothing \notin Row

\* found: hosts in the lists; own: those not served by gerry's own routes only;
\* at: the time the cycle took for now.
Scan == [step : {"idle", "ingresses", "import", "apply"},
         found : SUBSET Hosts, own : SUBSET Hosts, at : Times, reset : BOOLEAN]

NoScan  == [step |-> "idle", found |-> {}, own |-> {}, at |-> {}, reset |-> FALSE]
NoPatch == [on |-> Nothing, row |-> Nothing]
Seen    == [scans |-> 0, since |-> {}, latest |-> {}]

TypeOK ==
    /\ routed \in [Hosts -> Routes]
    /\ rows \in [Hosts -> Row \cup {Nothing}]
    /\ scan \in Scan
    /\ last \in Times
    /\ patch \in [on : Hosts \cup {Nothing}, row : Row \cup {Nothing}]
    /\ timer \in 0..OldAge
    /\ gone \in [Hosts -> [scans : 0..MinScans, since : Times, latest : Times]]
    /\ steady \subseteq Hosts /\ edited \subseteq Hosts
    /\ upsets \in 0..MaxUpsets

Init ==
    /\ routed \in [Hosts -> {"none", "ingress"}]
    /\ rows = [h \in Hosts |-> Nothing]
    /\ scan = NoScan
    /\ last = {}
    /\ patch = NoPatch
    /\ timer = 0
    /\ gone = [h \in Hosts |-> Seen]
    /\ steady = {} /\ edited = {}
    /\ upsets = 0

-----------------------------------------------------------------------------
(* Time. *)

Upset == upsets < MaxUpsets /\ upsets' = upsets + 1

Moved(t, d) == {IF a + d > OldAge THEN OldAge ELSE a + d : a \in t}

\* The clock moves by d ticks: every age does.
Clock(d) ==
    /\ last' = Moved(last, d)
    /\ scan' = [scan EXCEPT !.at = Moved(@, d)]
    /\ rows' = [h \in Hosts |-> IF rows[h] = Nothing THEN Nothing
                               ELSE [rows[h] EXCEPT !.missing = Moved(@, d)]]
    /\ patch' = IF patch.row = Nothing THEN patch
                ELSE [patch EXCEPT !.row.missing = Moved(@, d)]
    /\ gone' = [h \in Hosts |-> [gone[h] EXCEPT !.since = Moved(@, d),
                                                  !.latest = Moved(@, d)]]

\* The observer's ticker starts a cycle every Interval; that a cycle is late, or
\* takes long, is an upset.
Tick ==
    /\ \/ timer < Interval /\ UNCHANGED upsets
       \/ timer >= Interval /\ Upset
    /\ timer' = timer + 1
    /\ Clock(1)
    /\ UNCHANGED <<routed, steady, edited>>

SetBack ==
    /\ Upset
    /\ Clock(-1)
    /\ UNCHANGED <<routed, timer, steady, edited>>

\* The time from s to t, and whether t lies at most d after s.
Between(s, t) == s - t
Within(s, t, d) == \E a \in s, b \in t : 0 <= Between(a, b) /\ Between(a, b) <= d

-----------------------------------------------------------------------------
(* The cycle. *)

\* Sync: the first list, the IngressRoutes of the cluster and those gerry wrote.
\* A cycle may follow another at once: the ticker keeps a tick for a slow one.
ListRoutes ==
    /\ scan.step = "idle"
    /\ scan' = [NoScan EXCEPT !.step = "ingresses",
                              !.found = {h \in Hosts : routed[h] \in {"route", "managed"}},
                              !.own = {h \in Hosts : routed[h] = "route"}]
    /\ timer' = 0
    /\ steady' = Hosts
    /\ UNCHANGED <<routed, rows, last, patch, gone, edited, upsets>>

SlipSecondOnly(H) == H

\* FetchRoutes appends the hosts of the second list to those of the first.
BothLists(H) == scan.found \cup H

\* The second list; the first is not looked at again.
ListIngresses ==
    /\ scan.step = "ingresses"
    /\ LET H == {h \in Hosts : routed[h] = "ingress"}
       IN  scan' = [scan EXCEPT !.step = "import", !.found = BothLists(H), !.own = @ \cup H,
                                !.at = {0}]
    /\ UNCHANGED <<routed, rows, last, patch, timer, gone, steady, edited, upsets>>

SlipForgetsGaps(at) == last = {}

\* resetMissing: no successful cycle before, a gap of more than two intervals, or
\* a clock that went backwards.
ResetMissing(at) == ~ Within(last, at, 2 * Interval)

Imported == [source |-> "observed", missing |-> {}, count |-> 0]

\* The hosts without an allocation are imported; a claim that was faster is fine.
Import ==
    /\ scan.step = "import"
    /\ rows' = [h \in Hosts |-> IF h \in scan.own /\ rows[h] = Nothing THEN Imported
                               ELSE rows[h]]
    /\ edited' = edited \ {h \in scan.own : rows[h] = Nothing}
    /\ scan' = [scan EXCEPT !.step = "apply", !.reset = ResetMissing(scan.at)]
    /\ UNCHANGED <<routed, last, patch, timer, gone, steady, upsets>>

SlipForgetsNil(r) == scan.reset

\* MissingSince and MissingObservations of a row the scan did not find.
Fresh(r)    == scan.reset \/ r.missing = {} \/ \E a \in r.missing, b \in scan.at : Between(a, b) < 0
Missing(r)  == IF Fresh(r) THEN scan.at ELSE r.missing
Count(r)    == IF Fresh(r) THEN 1 ELSE IF r.count < MinScans THEN r.count + 1 ELSE MinScans

SlipAnyGrace(r) == Count(r) >= MinScans
SlipSinceLast(r) == /\ Count(r) >= MinScans
                    /\ \E a \in last, b \in scan.at : Between(a, b) >= Grace

\* Missed often enough and for long enough.
Overdue(r) == /\ Count(r) >= MinScans
              /\ \E a \in Missing(r), b \in scan.at : Between(a, b) >= Grace

\* What the transaction makes of the allocation of a host: found, retired, or
\* still awaiting its retirement.
Reconciled(h) ==
    LET r == rows[h]
    IN  IF r = Nothing \/ r.source # "observed" THEN r
        ELSE IF h \in scan.found THEN [r EXCEPT !.missing = {}, !.count = 0]
        ELSE IF Overdue(r) THEN Nothing
        ELSE [r EXCEPT !.missing = Missing(r), !.count = Count(r)]

\* What the scans have seen of a host, whatever the rows say of it: the run of
\* scans without it, which a failed scan, a restart or a gap breaks.
Absences(h) ==
    LET g == gone[h]
    IN  IF h \in scan.found THEN [Seen EXCEPT !.latest = scan.at]
        ELSE IF g.scans > 0 /\ Within(g.latest, scan.at, 2 * Interval)
        THEN [scans |-> IF g.scans < MinScans THEN g.scans + 1 ELSE MinScans,
              since |-> g.since, latest |-> scan.at]
        ELSE [scans |-> 1, since |-> scan.at, latest |-> scan.at]

\* The allocation of a host is gone: a handler that read it will update nothing.
Dropped(H) == patch' = IF patch.on \in H THEN NoPatch ELSE patch

\* ReconcileObservations for the zone, then the end of the cycle.
Apply ==
    /\ scan.step = "apply"
    /\ rows' = [h \in Hosts |-> Reconciled(h)]
    /\ gone' = [h \in Hosts |-> Absences(h)]
    /\ Dropped({h \in Hosts : Reconciled(h) = Nothing})
    /\ last' = scan.at
    /\ scan' = NoScan
    /\ UNCHANGED <<routed, timer, steady, edited, upsets>>

SlipKeepsLast == last

\* What a failed cycle leaves of lastSuccess.
AfterFailure == {}

Failed ==
    /\ Upset
    /\ scan' = NoScan
    /\ gone' = [h \in Hosts |-> Seen]

\* A list or a write fails, perhaps in the middle of the imports, or in a later
\* zone when this zone's transaction has committed already.
ScanFails ==
    /\ scan.step # "idle"
    /\ Failed
    /\ last' = AfterFailure
    /\ \/ UNCHANGED <<rows, patch, edited>>
       \/ \E H \in SUBSET {h \in scan.own : rows[h] = Nothing} :
             /\ scan.step = "import"
             /\ rows' = [h \in Hosts |-> IF h \in H THEN Imported ELSE rows[h]]
             /\ edited' = edited \ H
             /\ patch' = patch
       \/ /\ scan.step = "apply"
          /\ rows' = [h \in Hosts |-> Reconciled(h)]
          /\ Dropped({h \in Hosts : Reconciled(h) = Nothing})
          /\ edited' = edited
    /\ UNCHANGED <<routed, timer, steady>>

\* The process stops and starts again: the rows remain.
Restart ==
    /\ Failed
    /\ last' = {}
    /\ patch' = NoPatch
    /\ UNCHANGED <<routed, rows, timer, steady, edited>>

-----------------------------------------------------------------------------
(* The cluster and the API. *)

ChangeRoute(h) ==
    /\ Upset
    /\ \E r \in Routes \ {routed[h]} : routed' = [routed EXCEPT ![h] = r]
    /\ steady' = steady \ {h}
    /\ UNCHANGED <<rows, scan, last, patch, timer, gone, edited>>

Request ==
    /\ Upset
    /\ UNCHANGED <<routed, scan, last, timer, gone, steady>>

\* POST /v1/claims
Claim(h) ==
    /\ Request
    /\ rows[h] = Nothing
    /\ rows' = [rows EXCEPT ![h] = [source |-> "claimed", missing |-> {}, count |-> 0]]
    /\ edited' = edited \ {h}
    /\ UNCHANGED patch

\* DELETE /v1/allocations/{id}
Release(h) ==
    /\ Request
    /\ rows[h] # Nothing
    /\ rows' = [rows EXCEPT ![h] = Nothing]
    /\ Dropped({h})
    /\ UNCHANGED edited

\* PATCH /v1/allocations/{id} of an imported row: the handler reads it ...
PatchRead(h) ==
    /\ Request
    /\ patch = NoPatch
    /\ rows[h] # Nothing
    /\ rows[h].source # "claimed"
    /\ patch' = [on |-> h, row |-> rows[h]]
    /\ UNCHANGED <<rows, edited>>

\* ... and writes the whole row: suspended, given routes, neither or no more.
PatchWrite ==
    /\ patch # NoPatch
    /\ \E to \in {"observed", "excluded"} :
          rows' = [rows EXCEPT ![patch.on] = [patch.row EXCEPT !.source = to]]
    /\ edited' = edited \cup {patch.on}
    /\ patch' = NoPatch
    /\ UNCHANGED <<routed, scan, last, timer, gone, steady, upsets>>

-----------------------------------------------------------------------------
Cycle == ListRoutes \/ ListIngresses \/ Import \/ Apply

Next ==
    \/ Tick \/ SetBack
    \/ Cycle \/ ScanFails \/ Restart
    \/ \E h \in Hosts : ChangeRoute(h) \/ Claim(h) \/ Release(h) \/ PatchRead(h)
    \/ PatchWrite

Spec == Init /\ [][Next]_vars

\* Time passes, and the observer's goroutine runs.
FairSpec == Spec /\ WF_vars(Tick) /\ WF_vars(Cycle)

-----------------------------------------------------------------------------
(* Properties. *)

\* The observer removes the row of h in this step.
Retires(h) == /\ scan.step = "apply" /\ scan'.step = "idle"
              /\ rows[h] # Nothing /\ rows'[h] = Nothing

\* The last MinScans scans, an unbroken run, did not see the host, the first of
\* them at least the grace period ago.
LongGone(h) ==
    LET g == Absences(h)
    IN  g.scans >= MinScans /\ \E a \in g.since, b \in scan.at : Between(a, b) >= Grace

\* A row no PATCH has written is retired only after three successful scans in a
\* row without its host, over at least the grace period; a failed scan, a restart,
\* a gap or a clock that is set back starts the run again (store/observation.go:73-78,
\* observe/k8s.go:258 and 288).
RetiresOnlyMissing == [][\A h \in Hosts : Retires(h) => h \in edited \/ LongGone(h)]_vars

\* A host that the cluster serves all through a cycle, by whichever of the two
\* kinds of route and even by one gerry wrote, is not retired by that cycle, in
\* spite of the two lists being read one after the other (observe/k8s.go:176-244).
ServedStays == [][\A h \in Hosts : Retires(h) => h \notin steady \/ routed[h] = "none"]_vars

\* When the cluster, the API and the clock leave it in peace, the observer has in
\* the end a row for every host the cluster serves by itself, and none of its own
\* for a host that nothing serves (observe/k8s.go:399-415).
Converges ==
    <>[] \A h \in Hosts :
          /\ routed[h] \in {"route", "ingress"} => rows[h] # Nothing
          /\ routed[h] = "none" /\ rows[h] # Nothing => rows[h].source # "observed"
=============================================================================
