----------------------------- MODULE RouteTable -----------------------------
(***************************************************************************)
(* The embedded proxy's route table, internal/proxy/table.go: how it is    *)
(* rebuilt from the store and how a request is resolved against it.  The   *)
(* ticker of Watch and every API handler that calls RequestRebuild after a *)
(* mutation rebuild on their own: each lists the active allocations first  *)
(* and installs the sorted entries later, under the table's lock.          *)
(*                                                                         *)
(* A DNS name is the sequence of its labels.  Of an allocation the table   *)
(* looks at the name, the wildcard flag and the listen ports of its routes *)
(* (0 for the default route).  The zone names kept for error pages are     *)
(* left out.  The usual names begin with a T, so that the proofs about the *)
(* daemon's workers can extend this module beside others.                  *)
(***************************************************************************)
EXTENDS Naturals, Sequences, SequencesExt

CONSTANTS Handlers,      \* API request goroutines
          Allocs,        \* allocations that may exist, and of each of them
          Name,          \*   its name,
          Wild,          \*   the wildcard flag of its spec,
          Listen,        \*   the listen ports of its routes
          NoAlloc,       \* "no allocation"
          Star,          \* the label "*"
          DnsLabels,     \* all other labels
          RequestHosts,  \* what requests ask for:
          Ports,         \*   names without stars, and ports
          MaxMutations,  \* bound: changes of the store
          MaxErrors      \* bound: failing list queries

ASSUME AllocsAssumption ==
    /\ Star \notin DnsLabels /\ NoAlloc \notin Allocs /\ IsFiniteSet(Allocs)
    /\ Name \in [Allocs -> Seq(DnsLabels \cup {Star}) \ {<<>>, <<Star>>}]
    /\ \A a \in Allocs : \A i \in 2..Len(Name[a]) : Name[a][i] # Star
    /\ Wild \in [Allocs -> BOOLEAN]
    /\ Listen \in [Allocs -> SUBSET Nat]
ASSUME RequestsAssumption == RequestHosts \subseteq Seq(DnsLabels)
ASSUME RouteBoundsAssumption == MaxMutations \in Nat /\ MaxErrors \in Nat

VARIABLES
    states,     \* allocation -> "absent", "pending" or "active"
    table,      \* the sorted entries that Resolve goes by
    rebuild,    \* what each rebuilder is in the middle of
    mutations,  \* changes of the store so far
    errors      \* failed list queries so far

tvars == <<states, table, rebuild, mutations, errors>>

Watcher    == "Watch"
Rebuilders == Handlers \cup {Watcher}

States == {"absent", "pending", "active"}

Entries == [fqdn : Seq(DnsLabels), wildcard : BOOLEAN, alloc : Allocs]

\* on: the allocation the handler changed; list: what ListAllocations returned.
Resting == [step |-> "idle", on |-> NoAlloc, list |-> {}]
Rebuild == [step : {"idle", "list", "install"}, on : Allocs \cup {NoAlloc},
            list : SUBSET Allocs]

TTypeOK ==
    /\ states \in [Allocs -> States]
    /\ table \in Seq(Entries)
    /\ rebuild \in [Rebuilders -> Rebuild]
    /\ mutations \in 0..MaxMutations
    /\ errors \in 0..MaxErrors

-----------------------------------------------------------------------------
(* Rebuild. *)

SlipKeepsStar(a) ==
    {[fqdn |-> Name[a], wildcard |-> Head(Name[a]) = Star \/ Wild[a], alloc |-> a]}

\* The entries of one allocation: a "*." label is a wildcard on what follows it;
\* any other is an exact entry, and a wildcard one too if the spec says so.
EntriesOf(a) ==
    IF Listen[a] = {} THEN {}
    ELSE IF Head(Name[a]) = Star
    THEN {[fqdn |-> Tail(Name[a]), wildcard |-> TRUE, alloc |-> a]}
    ELSE {[fqdn |-> Name[a], wildcard |-> w, alloc |-> a] : w \in {FALSE, Wild[a]}}

SlipShallowFirst(e, f) ==
    IF e.wildcard # f.wildcard THEN ~ e.wildcard ELSE Len(e.fqdn) < Len(f.fqdn)

\* Exact before wildcard; deeper before shallower.
Before(e, f) ==
    IF e.wildcard # f.wildcard THEN ~ e.wildcard ELSE Len(e.fqdn) > Len(f.fqdn)

\* The tables that a list of allocations may be turned into: sort.Slice is not stable,
\* and entries that tie come in any order.
TablesOf(list) ==
    LET E == UNION {EntriesOf(a) : a \in list}
    IN  {t \in Bijection(1..Cardinality(E), E) :
            \A i, j \in DOMAIN t : i < j => ~ Before(t[j], t[i])}

-----------------------------------------------------------------------------
(* Resolve. *)

Matches(e, host) ==
    IF e.wildcard THEN IsStrictSuffix(e.fqdn, host) ELSE host = e.fqdn

\* routeFor: the routes of an allocation that serve a port, the default route
\* only on 443 and 80 and only if no route names the port.
RouteFor(a, port) ==
    IF port \in Listen[a] THEN {port}
    ELSE IF port \in {443, 80} THEN Listen[a] \cap {0} ELSE {}

Serves(e, host, port) == Matches(e, host) /\ RouteFor(e.alloc, port) # {}

NoTarget == [alloc |-> "none", route |-> "none"]

\* The scan: the first entry that matches and has a route for the port.
Resolve(entries, host, port) ==
    LET hits == {i \in DOMAIN entries : Serves(entries[i], host, port)}
    IN  IF hits = {} THEN NoTarget
        ELSE LET a == entries[CHOOSE i \in hits : \A j \in hits : i <= j].alloc
             IN  [alloc |-> a, route |-> CHOOSE r \in RouteFor(a, port) : TRUE]

-----------------------------------------------------------------------------
SlipListsHolds == {a \in Allocs : states[a] # "absent"}

\* ListAllocations with the filter of Rebuild: pending holds do not route.
Listed == {a \in Allocs : states[a] = "active"}

\* The daemon starts on any database, and Run rebuilds once before it listens.
TInit ==
    /\ states \in [Allocs -> {"absent", "active"}]
    /\ table \in TablesOf(Listed)
    /\ rebuild = [p \in Rebuilders |-> Resting]
    /\ mutations = 0 /\ errors = 0

\* A handler changes the store (claim, hold, commit, PATCH of the state, release)
\* and then calls RequestRebuild.
Mutate(h, a, st) ==
    /\ rebuild[h] = Resting
    /\ mutations < MaxMutations
    /\ states[a] # st
    /\ states' = [states EXCEPT ![a] = st]
    /\ mutations' = mutations + 1
    /\ rebuild' = [rebuild EXCEPT ![h] = [Resting EXCEPT !.step = "list", !.on = a]]
    /\ UNCHANGED <<table, errors>>

\* The ticker of Watch fires.
WatchTick ==
    /\ rebuild[Watcher] = Resting
    /\ rebuild' = [rebuild EXCEPT ![Watcher].step = "list"]
    /\ UNCHANGED <<states, table, mutations, errors>>

List(p) ==
    /\ rebuild[p].step = "list"
    /\ rebuild' = [rebuild EXCEPT ![p].step = "install", ![p].list = Listed]
    /\ UNCHANGED <<states, table, mutations, errors>>

\* The list query fails: the table stays as it is, nobody is told.
ListFails(p) ==
    /\ rebuild[p].step = "list"
    /\ errors < MaxErrors
    /\ errors' = errors + 1
    /\ rebuild' = [rebuild EXCEPT ![p] = Resting]
    /\ UNCHANGED <<states, table, mutations>>

\* The lock is taken and the entries replaced, whoever installed in between; the
\* handler's request is answered.
Install(p) ==
    /\ rebuild[p].step = "install"
    /\ table' \in TablesOf(rebuild[p].list)
    /\ rebuild' = [rebuild EXCEPT ![p] = Resting]
    /\ UNCHANGED <<states, mutations, errors>>

RebuildStep(p) == List(p) \/ ListFails(p) \/ Install(p)

TNext ==
    \/ \E h \in Handlers, a \in Allocs, st \in States : Mutate(h, a, st)
    \/ WatchTick
    \/ \E p \in Rebuilders : List(p) \/ ListFails(p) \/ Install(p)

TSpec == TInit /\ [][TNext]_tvars

\* The ticker does not stop and a rebuild that was begun runs to its end.
TFairSpec == TSpec /\ WF_tvars(WatchTick) /\ \A p \in Rebuilders : WF_tvars(RebuildStep(p))

-----------------------------------------------------------------------------
(* Properties. *)

\* The allocations that should serve a request, by definition: the ones of that
\* very name with a route for the port if there are any, else those with a route
\* whose wildcard is the longest above the host.
Below(host, name) == \E i \in 2..Len(host) : SubSeq(host, i, Len(host)) = name

Base(a) == IF Head(Name[a]) = Star THEN Tail(Name[a]) ELSE Name[a]

Best(S, host, port) ==
    LET able  == {a \in S : RouteFor(a, port) # {}}
        exact == {a \in able : Name[a] = host}
        wild  == {a \in able : /\ Head(Name[a]) = Star \/ Wild[a]
                               /\ Below(host, Base(a))}
    IN  IF exact # {} THEN exact
        ELSE {a \in wild : \A b \in wild : Len(Base(b)) <= Len(Base(a))}

Routed == {table[i].alloc : i \in DOMAIN table}

\* In every table a rebuild may leave, scanning the sorted entries and skipping those
\* without a route for the port finds the most specific allocation able to serve the
\* request, and finds one whenever there is one.
MostSpecific ==
    TTypeOK /\ \A host \in RequestHosts, port \in Ports :
        LET best   == Best(Routed, host, port)
            target == Resolve(table, host, port)
        IN  IF best = {} THEN target = NoTarget ELSE target.alloc \in best

\* Once the store stops changing the table comes to hold the active allocations
\* that have routes, holds excluded, and stays so, whatever order the concurrent
\* rebuilds installed their lists in.
CatchesUp == <>[](Routed = {a \in Allocs : states[a] = "active" /\ Listen[a] # {}})
=============================================================================
