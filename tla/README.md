# Gerrymander in TLA+

Gerrymander is a registry of hostnames and ports (`gerry serve`) with what hangs
on it: an HTTP API, an embedded proxy that routes to what is registered, a
supervisor that starts backends on demand, a catalog of what projects publish,
and loops that keep clusters, DNS and other proxies in step with the registry.
This directory models the parts whose correctness depends on the order in which
goroutines run, on failures half-way, or on several parts giving the same answer
to one question. TLC checks the models on small instances; TLAPS proves the main
safety properties for every size.

Run one check with `tlc -config Ports.cfg MCPorts`, a proof with
`tlapm ClaimsProofs.tla`. `PROJECT.json` lists every run, its properties, for each
of them a mutation of the model that it detects, the source lines behind each
definition, the hazards, the finding and the theorems.

## 1. Inventory

Paths are relative to `src/internal` unless they begin with `src/`.

### Registry: `store/alloc.go`, `service/alloc.go`, `api/server.go`, `core`
* **State.** Tables `zones` and `allocations` (`UNIQUE (zone_id, label)`, foreign
  key to the zone). SQLite ids are `INTEGER PRIMARY KEY` without AUTOINCREMENT;
  the migrations rewrite them to BIGSERIAL for Postgres.
* **Operations.** Create and delete a zone; claim or hold a label; commit, renew,
  patch, rename, release by id; list and availability; a reaper every 30 s.
* **Interaction.** Every HTTP request is a goroutine of its own and every operation
  is several SQL statements, nowhere in a transaction. After a mutation the
  handler calls `OnMutation`, which rebuilds the proxy's routes before the answer.
  Manifests, the CRD ingest, the Docker watcher and the observer use the same
  service from goroutines of their own.
* **Hard.** Whole-row writes from copies read earlier; ids that are reused; checks
  made one statement before the write they guard; cancelled requests; the reaper.
* **Correct when** labels are unique in a zone; no allocation outlives its zone; the
  FQDN is the label in the zone; the policy holds; an owner token changes only its
  owner's rows; holds end.

### Claims, idempotency keys and tokens: `api/server.go`, `service/alloc.go`, `store/tokens.go`
* **State.** `idempotency_keys` (key to stored response), `tokens` with a unique name.
* **Operations.** `POST /v1/claims`: token check, recall of the key, hostname, port,
  storing of the response. Tokens are created, looked up once per request, revoked.
* **Hard.** The four parts of a claim share no transaction; clients repeat requests,
  also side by side; a revocation races the requests it should stop.
* **Correct when** replays of a key agree, a client that repeats a held claim gets it
  in the end, and a revoked token stays out.

### Ports: `service/ports.go`, `store/ports.go`
* **State.** `port_allocations` with unique `(pool, value)` and `(pool, owner)`.
* **Operations.** Claim (sticky, else first free value of the range that passes a
  bind test), release, mark as occupied.
* **Hard.** Racing claims for one owner or one value on stale snapshots, processes
  that come and go on the host, the pool at its limit; the bind test listens on the value
  for a moment, which another claim's test takes for a process.
* **Correct when** values are unique, grants sticky and in the pool, exhaustion is
  said only for values that were held or under test, and claims end.

### Supervisor: `supervise/supervisor.go`
* **State.** Per backend: state, `cmd`, the `ready` channel, recent failures, under a
  mutex that is released while the command starts and while health is probed.
* **Operations.** Ensure (from the proxy), Start, Stop, StopAll (API, shutdown), idle
  sweep; per start one health-gate and one Wait goroutine.
* **Hard.** Goroutines of an older start acting on the state of a newer one; a health
  probe that is old when its result is used.
* **Correct when** running means alive or about to be, starting ends, and waiting
  requests are answered.

### Proxy: `proxy/table.go`, `proxy/proxy.go`
* **State.** A sorted list of entries under a read-write lock.
* **Operations.** Rebuild from the store (at start, by a ticker every 2 s, by every API
  mutation), resolve host and port, choose the route and the upstream (asking the
  supervisor or the Docker relay for an address), forward.
* **Hard.** Concurrent rebuilds: list without the lock, install with it. Routes for the
  default ports beside routes for named ones; references to pools not yet resolved.
* **Correct when** the most specific able allocation is found, the table follows the
  store, and what a manifest declares is what is served.

### Observer: `observe/k8s.go`, `observe/traefik.go`, `store/observation.go`
* **State.** The time of the last successful cycle, in memory; in each imported row,
  when its absence began and how many cycles have counted it.
* **Operations.** Every interval: list IngressRoutes, list Ingresses, parse their rules,
  check for shadowed hosts, import the hosts without an allocation, and in one
  transaction update or retire the imported rows.
* **Hard.** Two lists that are not one snapshot; failures, restarts, gaps and clock
  steps that must void the count; catch-alls that tie with host routes.
* **Correct when** a host is retired only after an unbroken absence, a served host stays,
  the registry in the end agrees with the cluster, and silence means no host is
  shadowed.

### Writers to the outside: `actuate/`, `dnssync/`, `npmsync/`, `nginxsync/`
* **State.** None of their own but marks on the objects they write (an annotation, a
  comment, a header line) and, for Nginx Proxy Manager, a login token.
* **Operations.** At every tick: list the registry, list the target, create, update and
  delete the difference one request at a time; nginx: render, compare, write, reload.
* **Hard.** Lists that are old when the write comes, users who edit the same objects,
  failures half-way, a token that expires, a write of the file that breaks off.
* **Correct when** what is not gerry's is left alone, what agrees is not written again,
  users' own fields survive, and the target follows the registry.

### Docker label watcher and CRD ingest: `dockerlabels/watcher.go`, `crdingest/ingest.go`
* **State.** None; what they own is recognised by its source in the registry.
* **Operations.** List containers or HostnameReservations, find the zone and label of
  each, claim, update, and release what no object asks for.
* **Hard.** Release by ids read earlier, in two statements; failed lists and lookups; both
  beside the API.
* **Correct when** others' allocations are left alone, a live object keeps its hostname,
  and the registry settles on what the objects ask for.

### Manifests and catalog: `manifest/`, `api/manifest.go`, `api/catalog.go`, `store/catalog.go`, `src/catalog`
* **State.** `catalog_entries` and `catalog_assets`.
* **Operations.** Parse a file, derive its claims and its catalog bundle; apply: claim or
  update each hostname, prune, publish the bundle in one transaction, deactivate
  deployments that left. Publish, read, deactivate, upload logos.
* **Hard.** Partial failure of an apply and its retry; two versions applied at once;
  publishers whose bundles refer to one another's rows; Go maps walked in any order.
* **Correct when** success means all of it is done, nothing of others is touched,
  hostnames are served throughout, identities and versions never change, every
  reference leads somewhere, and the parts of a file agree.

### Names: `core/normalize.go`, `core/policy.go`, `dnsserver/dns.go`
* **State.** None. Pure functions from labels and hostnames.
* **Hard.** The same question is answered in several places in different words:
  availability and claim, the zone of a hostname in four parts of the program.
* **Correct when** the answers agree.

### Left out
The Docker relay, the Kubernetes and HTTP clients, the MCP server, configuration,
certificates and error pages, the command line and the daemon's wiring, the
desktop application, client libraries and deployment files: see section 7.

### How they interact
Handlers, tickers and reconcilers meet in the store, whose statements are the
atomic steps. The API tells the proxy to rebuild; the proxy asks the supervisor for
an address. Facts taken from the wiring in `src/cmd/gerry/main.go`: the daemon opens
SQLite (line 160; `store.Open` itself also takes Postgres), rebuilds the proxy
synchronously on mutations (lines 391 and 401), and nothing calls `Ports.Release`
in production.

## 2. Modules

| Module | Models | Extends / refines |
|---|---|---|
| `Tables` | rows by id, SQLite's choice of the next id | |
| `Namespace` | abstract: hostnames held by one owner at a time | |
| `Registry` | zones, allocations, handlers, reaper, clock | `Tables`; implements `Namespace` |
| `Ports` | port claims | `Tables` |
| `Claims` | the claim handler around both, its retries, keys and tokens | `Tables` |
| `Supervisor` | one supervised backend | |
| `RouteTable` | rebuilds and lookups of the proxy | |
| `Observation` | the observer's cycles and retirement | |
| `Reconcile` | the passes of the five writers to the outside | |
| `LabelSync` | Docker watcher and CRD ingest on one registry, beside the API | `Tables` |
| `Catalog` | catalog rows, validation, publication, deactivation | `Tables` |
| `Manifest` | applies over registry and catalog | `Catalog` |
| `Naming` | normalization, policy, availability, suggestions, homes of hostnames, DNS answers | |
| `Rules` | Traefik rules and the shadow check | `Naming` |
| `Upstream` | choice of route and upstream in the proxy | |
| `ManifestFile` | parsing, claims, identities and bundle of a file | `Naming`, `Upstream` |
| `Algorithms` | one question at a time to the four before it | `Rules`, `ManifestFile` |
| `...Proofs` | theorems: `Registry`, `Claims`, `Reconcile`, `LabelSync` and `Manifest` have one each | the module it names |
| `PortsAlgorithmsProofs` | theorems on the port pool and on the algorithms | `Ports`, `Algorithms` |
| `WorkersProofs` | theorems on the three parts that work by themselves | `Supervisor`, `Observation`, `RouteTable` |
| `TablesProofs` | lemmas on the table operators, on least members and on step-by-step constructions | `Tables` |
| `MC...` | finite instances | |

Definitions named `Slip...` are plausible programming mistakes. They are used
by no specification; each stands before the definition it would replace and shows
that some property notices. In `Supervisor`, `RouteTable` and `Algorithms` the usual names have a letter
in front (`SInit`, `TSpec`, `ASpec`, ...), so that one module of proofs can extend several of them. Nothing is declared
RECURSIVE: what the code does in a loop is a function on the positions of a sequence, or the set of the
positions that qualify and the least of them.

How the modules divide the work: `Registry` and `Ports` have every statement of the
two stores; `Claims`, `LabelSync` and `Manifest`, which are clients of those, keep of a
row only what they look at and take a claim, an update and each half of a release
for one step, which is what the database does with the statement that decides it. Only
the releases that other users of the API make in `Manifest` are coarser: both halves at
once, or the first alone, and then anybody may come in between.
What two parts must agree on as functions is in the algorithm modules, so that the
state machines need no strings.

## 3. How state and actions correspond to the code

### Registry
One SQL statement is one action. A handler is a record in `job[h]`: the operation,
the step it is at, the credential, the id and label of the request, and the copy
of the row that it will write back. `Begin` is `auth` with `canTouchAllocation`;
`...Read` is the `GetAllocation` at the head of an operation together with the
checks made on it; `...Write` is `UpdateAllocation`, `RenameAllocation` or
`DeleteAllocation`. `UpdateAllocation` writes state, expiry and owner from the copy
and leaves label and FQDN, as the statement does. `NewId` is the one place where
SQLite and Postgres differ. `Cancel` stops a handler before its next statement.
`gen`, `born` and `patched` are history: the first two tell apart two rows that had the
same id, the last says that a PATCH made the row pending. PATCH writes any state
unchecked (`server.go:526`); which ones is a bound of the runs.

Not distinguished: spec, labels, project, status (carried along by whole-row writes
without being looked at), the lookup by which `RenameAllocation` prepares its
event, the zone read of a rename (it can only fail, which `Cancel` covers), and a
claim's second lookup after a conflict (it chooses the wording of the refusal).

`Namespace` sees only who holds each hostname. A claim is a grant, a rename a move
within the zone, release and reaper give up; nothing else changes it. The mapping
is `Holder` in `Registry`.

### Claims
`job[h]` is `handleClaim` between its statements: `Arrive` is the token check, `Replay`
and `RecallMisses` are `RecallIdempotent`, `Insert`, `Taken` and `CutInsert` the hostname
part, `PortClaim` and `PortFails` the port part, `Remember` the storing of the response.
`StatementFails` is an error of any of these without a cancelled context; the handler drops
that of the recall and that of the storing, and answers 201 all the same. `Commit` and the two halves
`Release` and `ReleaseFrees` are what others do to an allocation; `ReleaseCut` is a release that ends between its halves.
A handler whose context was cancelled (`cut`) goes on and has its later statements
fail, as in the code, where some of those failures are dropped and some answered.
`Crash` loses the handlers and keeps the tables. `told` is what clients know.

### Ports
`claim[c]` is the goroutine of a claim: the snapshot of used values and the value the
walk has reached. `ClaimSticky`, `ClaimUsed`, `ClaimWalk`, `ClaimInsert`,
`ClaimRecheck` and `ClaimMark` are the statements of `Ports.Claim` in order.
`bound` is what processes of the host listen on. The bind test is not a look at it: it
opens a listener and closes it again (`StickyTest` and `StickyClose`, `ClaimWalk` and `ClaimClose`), and in
between another claim's test of the value fails (`UnderTest`). `ClaimRecheckFails` is an error of the
lookup after a lost race, which the code takes for "no grant". `answered` and
`missed` are history variables for `Sticky` and `NoFalseExhaustion`.

### Supervisor
Each section under `p.mu` is one action. Starts are numbered; start *n* has channel
*n*, process *n*, gate *n* and Wait goroutine *n*, and `p.cmd` and `p.ready` are the
numbers they point to. `Launch` and `Attach` are apart because the mutex is not held
between `cmd.Start` and `p.cmd = cmd`; `GateBegin` is apart because the gate reads
`p.ready` when it first runs. `GateLooks`, `GateProbed` and `GateHealthy` are the loop of the
gate: a look at the state with the lock, a probe without it, and the re-check with it, by which
time the process that answered may have ended and the state may be that of a newer start. `Close` of a closed channel panics, which ends the
daemon and leaves the processes. The failure window is a nondeterministic
forgetting in `RecordFailure`; a gate's deadline and the backoff of a parked backend
may pass at any time. Any number of requests may wait on a channel; waiting
changes nothing, so requests are not named.

### RouteTable and Upstream
A DNS name is a sequence of labels. `Mutate` is any handler that changes the
store and then calls `RequestRebuild`; `List` and `Install` are the two halves of
`Rebuild`; `TablesOf` is every arrangement of a list's entries without an inversion, which is
what `sort.Slice`, an unstable sort, may produce. Lookups are
compared with `Best`, a definition of "most specific" that knows nothing of
sorting or scanning. Names do not change: a rename, for the table, is a release
and a claim. `Upstream` is what follows a lookup, `routeFor` and `upstreamFor`, as
operators; forwarding is left out.

### Observation
A time is its age in clock ticks, a set that is empty for "never"; ages beyond
`OldAge` are alike. `ListRoutes`, `ListIngresses`, `Import` and `Apply` are the steps of
`Sync` between which others can act: the two requests to the cluster, the row-by-row
import, and `ReconcileObservations`, whose transaction is atomic because the SQLite
store has a single connection (which also makes its `updated_at` guards true).
`ScanFails` includes a failure in the middle of the imports and one of a later zone
after this zone's commit. `PatchRead` and `PatchWrite` are `handlePatchAllocation` around
the copy it writes back. `gone`, `steady` and `edited` are history: what the scans saw of
each host whatever the rows say, which routes moved during a cycle, and which rows a
PATCH has written. A rename of an imported row, which takes its count along, is left
out, and so are rows with owners that differ.

### Reconcile
`target` is the writer under study: Traefik, Gateway API, Cloudflare, Nginx Proxy Manager
or the nginx file. The four with objects share the shape of their `Reconcile`:
`ListRegistry` computes `desired` (`wanted`), `ListTarget` filters by mark and finds the
differences, then `Remove`, `Repair` and `Create` are one request each. Where they
differ there is an operator each: which routes they want (`TraefikWants`, ...), whether
an object is known by name or by listed id (`SameObject`), whether an update is refused
when the object has changed (`Unchanged`), which fields it sends (`Updated`), the login
(`Answers`). For nginx `Render`, `Compare`, `Truncate`, `Fill` and `Reload` are the steps of
a pass; `Truncate`, `FillPart` and `Fill` are apart because `os.WriteFile` empties the file and fills
it bit by bit: what a full disk or a crash leaves is empty, has the marker, or has not. What a writer sends and
what it compares are two things: `hostChanged` does not look at the scheme of a proxy host (`scheme`). `stale` and
`replaced` say what a user did to an object after it was listed, which is what resource
versions and ids tell the server.

### LabelSync
`pass[s]` is the sync of the watcher or the ingest: the snapshot, the object in hand with the
id it found, the ids to release. The two share their shape and run side by side on
one set of rows, with users of the API between any two statements. A spelling is looked up
as it is written and normalized by the claim, as in the code. A row has a state: `Release` (or
`ApiRelease`) sets it to released and `ReleaseFrees` (`ApiFrees`) deletes it; `cuts` is history, the rows that
releases cut in two have left. `LookFails` is an error of the lookup by label, which both loops take for "not there";
`StatementFails` one of a write, after which they go on.

### Catalog and Manifest
A row of the catalog keeps the fields some rule looks at. `Accepts` is `CheckCatalog` and the
checks of `ApplyCatalog`, `Published` what the transaction stores. In `Manifest` `Begin` is
everything before the first write (parse, bundle, preflight); `Claim`, `Look` and `Update` are
one hostname; `ListOwned`, `MarkReleased` and `DeleteReleased` the pruning; `Publish`, `ListDeployments`
and `Deactivate` the catalog's part. Failures are of three kinds: `Fails` ends the handler before any
of its statements with an error, `LookFails` ends it with "taken", which is how any error of that lookup is
answered, and `ReleaseFails` is dropped: the prune goes on, and `missed` keeps the label it did not release.
`steady` is history: the labels and catalog keys nobody else touched since the apply began,
which is what its answer may speak for.

### Algorithms
`Naming`, `Rules`, `Upstream` and `ManifestFile` are operators, one per function, with the
source's names. DNS names are sequences of labels; what Unicode does to one DNS label is a
table (`Odd`). A backend may have an address that cannot be read, and the daemon may refuse it a port (`refused`): then
`Claims` fails. The DNS server's zones are those of its own configuration (`src/cmd/gerry/main.go:343`), not the
registered ones; `HostsHaveOneHome` compares the parts on equal lists. `ClaimService` is one round of the loop in `Claims`, `Claims` the rounds in a
given order; `Service` and `File` are the types a file is read into. `Algorithms` has one variable, the question asked,
and its invariants compare the answers of two parts, or an answer with a definition of what it should be.

## 4. Runs

| Run | Instance | Shows |
|---|---|---|
| `registry_sqlite` | 2 handlers, 1 zone name, 2 labels (1 blocked), 1 owner, SQLite ids, 2 claims, PATCH of state to suspended and to pending, clock to 3 | `UniqueName`, `ZoneLive`, `FqdnFollowsLabel`; `HoldsEnd` |
| `registry_postgres` | 2 interchangeable handlers, 2 zone names, 2 labels, 2 owners with tokens, sequence ids, 2 claims | `PolicyHeld`, `OwnerScope`; implements `Namespace` |
| `ports` | 2 claimers, 3 owners, range 2..4 without 3, a foreign process on 2, 1 release | `UniqueValue`, `Sticky`, `NoFalseExhaustion`; `ClaimsEnd` |
| `claims` | 2 handlers, a held claim with port and one under a token without, both with key; 1 failure, cancellation or crash; commits and releases at will | `ReplaysAgree`, `HeldRetriesConverge`, `RevocationBites` |
| `supervisor` | 3 starts, crash threshold 2 | `RunningIsAlive`; `StartingEnds`, `ReadyCloses` |
| `routes` | ticker and 2 handlers, 3 allocations, 2 changes, 1 failed query | `MostSpecific`; `CatchesUp` |
| `observer` | 1 host, interval 1, grace period 2, 4 upsets | `RetiresOnlyMissing`, `ServedStays`, `Converges` |
| `reconcile` | each of 5 targets, 2 allocations on 2 keys or on one, 3 upsets | `UnmarkedUntouched`, `AgreedStays`, `UserFieldsSurvive`, `Converges` |
| `label_sync` | 2 containers, 1 of them there from the start, 1 reservation, 2 labels and a second spelling, both databases, 3 upsets | `OthersUntouched`, `LiveKept`, `Converges` |
| `manifest` | 2 clients, 2 applies of 3 files (two versions, another workspace), 3 foreign bundles, both databases, 1 upset | `CatalogWhole`, `SuccessConforms`, `IdentitiesStay`, `OnlyOwn`, `ServedThroughout`, `RefusedForCause` |
| `manifest_retry` | 1 client, 3 applies, 1 upset | `RetryServes` is violated |
| `algorithms` | some 28,000 questions | `AvailabilityAgrees`, `HostsHaveOneHome`, `SilentMeansServed`, `ClaimsCover` |

An *upset* is whatever nobody scheduled: a request by somebody else, an edit by a user, a
failure, a restart, a clock step. Upsets are bounded in number and free in kind and moment.

**Why the bounds are enough.** Two handlers give every pairwise race; a third actor
(reaper, clock, other allocation) is always present besides. Two claims are what id
reuse takes (one row deleted, one inserted under its id) and what a conflict takes.
The clock reaches 3 so that a hold of one tick expires and is reaped, and so that a
renewal moves the expiry. PATCH may write any state; "suspended" stands for those no operation treats
specially, "pending" makes a row look like a hold. In `ports` there are more owners than values, so the pool
runs out with claims in flight; the range contains an avoided value and ends with
a usable one; both claimers may have the one other value under test. In `claims` two tries of one request can overlap and one fault can fall between any two
statements; what a fault leaves behind is there for the rest of the run, and commits, releases (cut or not),
the reaper and repeated tries are not bounded. One request has a port and the pool has one, so that nobody else is in its way. In `supervisor` three starts let two goroutines of different
older starts act on a newer one; the threshold of 2 (3 in the code) lets a backend
park within them, and what happens beyond it does not depend on its value (the
proofs are for every value). In `routes` the three allocations tie as wildcards,
overlap by depth and differ in the ports they serve; two changes are needed for a
list to be outdated while a newer one is installed. In `observer` hosts do not affect
one another, so one is enough; four upsets allow a departure, a return and two faults
or edits in between, in any mixture, and a grace period that differs from the
interval tells elapsed time from the number of scans. In `reconcile` one upset makes a wish,
one changes the object or the registry behind the pass that serves it, one more fails a write or a pass;
keys may coincide, so that two allocations fight for one object name; a shape has a service behind an address, on which
the writers differ. In `label_sync` three upsets are an object that comes, goes or is respelled while
another claims its label and a list fails, or a release that is begun, cut in two and followed by the return of its object. In `manifest` the files move a hostname between
services, drop one, and spell one otherwise; two applies are what a retry or a conflict
takes, one upset what a retry needs to have been caused by. The foreign bundles change a version in place, share a
key and refer to another application's version. The questions of `algorithms` take a few inputs of every
case the code tells apart, in all combinations of two services, four nested zones in every order,
and sets of up to three routes.

**Deadlock** is checked except where the bound itself stops the instance: in
`registry_postgres` when all zones are deleted and the bound on zone ids is reached, in
`supervisor` after a panic or the last start, in the manifest runs after the last apply and upset.

**Fairness.** Goroutines that can take a step take it, because the Go scheduler and the
database drive them: handler steps, walks of a claim, starts and gates, rebuilds,
passes. Tickers do not stop: the reaper, `Watch`, the observer's cycles, the passes of
the writers and of both syncs, the clock. In `Claims` each request is repeated by its client
until it has a 201; this is strong fairness because the model has two handlers for all requests where the
server starts a goroutine for each, so that a request is never really kept out. A release that was
begun goes on, unless it is cut. Nothing
else is fair: no client has to commit or release, no process has to exit, nobody has
to call Stop, and a query may fail. `HoldsEnd` is claimed only for holds that end before
the clock's bound, and not for a row without expiry that a PATCH made pending; `StartingEnds` and `ReadyCloses` hold without fairness of exits because the
gate has a deadline. `ReadyCloses` excepts a newer start replacing the channel:
requests that wait on a replaced channel may indeed wait for ever (see the hazard at
`supervisor.go:223`), and both liveness properties except the panic. The `Converges`
properties say what holds when the bounded upsets are over; they hold from whatever state those left.

## 5. What the runs show

Uniqueness, zones and FQDNs withstand every interleaving, because the database's
constraints are evaluated in the same statement as the write. With ids that are never
given twice, writes by an id read earlier never reach another owner's row, in the API,
the syncs and the applies alike. The supervisor and the proxy's table keep their
promises under overlapping starts and rebuilds; the pool does under overlapping claims, but that two bind tests of one value
may cost one of the claims that value. The observer retires only what is
gone. The writers to the outside respect marks and users' fields, and they and the
two syncs settle once they are left alone, but for what an interrupted write or release has left (below). An apply that is answered with success has done all of
its file, except for releases that failed; a retry is never refused for what an earlier try left, unless its lookup of the hostname fails. Replays agree; a revoked token stays out.
The parts that look at one label, hostname, route set or manifest agree with one another.

### The finding
`RetryServes`: Release is an UPDATE to `released` and a DELETE. A manifest apply that is cut between
the two while it prunes leaves a released row with the label. When the label is back in the file, the next
apply finds the row, takes it for its own, and `UpdateAllocation` writes it
back with its state: the apply is answered with success and the hostname is neither active nor
served. `docs/catalog.md:128` promises that a retry repairs an interrupted apply.

### Known departures
Seen while reading and modelling, with no run that expects a violation. The models have the behaviour
where they have the code; no property denies it, and where a property comes close to denying it, its comment names the exception.

* **A release cut in two.** Release is an UPDATE to `released` and a DELETE (`service/alloc.go:314-326`). When the second does
  not come, because the request is cancelled, a statement fails or the daemon stops, the row stays with its label: the reaper takes pending rows
  only. What follows differs by who meets the row. A claim is refused for ever, so a held claim that is repeated never gets its 201
  (`HeldRetriesConverge` says so). Watcher and ingest take the row for the hostname of its object when that comes back,
  "steady state" (`watcher.go:178-188`, `ingest.go:100-116`), although nothing is served, and never list it for release, since
  `ListOurs` leaves released rows out (`Leftover` in `LabelSync`); on SQLite the copy of a released row may also be written to a
  row that got its id. An apply updates it and leaves it released (`RetryServes`, above). Its zone cannot be deleted.

* **Registry.** A renew or patch that read a hold before its commit writes it back as pending
  (`service/alloc.go:267`). A PATCH of the state to "pending" is accepted for any row (`server.go:526-529`); one without expiry is
  then a hold that no reaper takes, for `expires_at` is NULL (`store/alloc.go:253`), and that no renewal mends (`Endless` in `Registry`). On SQLite an id is reused as soon as the newest allocation is deleted, and a write
  that was authorized for one row lands on another owner's (`api/server.go:278`). A commit of a hold that was reaped meanwhile is answered with success
  (`service/alloc.go:250`). A PATCH writes back the observer's absence count, so that a host can be retired early.
* **Ports.** The bind test listens on the value for a moment (`service/ports.go:26-34`). Two claims that test one value at once take one
  another for a process: the later one passes the value over, may say that the pool is exhausted while the value stays free,
  or marks its own grant "occupied-foreign". So "Something unmanaged holds it" and "squatted by an unmanaged process" are not always true. A failed
  re-check after a lost race is taken for "no grant" and goes on past a value that may be free.
* **Supervisor.** A late gate may say "running" of a start that has no process yet: it probed a process that has since ended, and finds the state
  `starting` of the next request's start (`supervisor.go:243-248`). If that start's command fails the state is put right. A stop counts as a crash when a request restarts the backend before the
  stopped process has ended (`supervisor.go:205`, `:329`). The health deadline kills the process but never
  parks the backend.
* **Proxy.** A stale rebuild that installs last hides an answered claim until the next tick (`table.go:84`).
* **Claims.** An error while the response is stored under its key is dropped (`server.go:437`): the client has its 201, and a retry is
  refused as taken. A claim without hold whose port part fails is refused as taken by its own
  hostname when it is retried; the comment at `service/alloc.go:112` is true of holds only. A
  replay may name an allocation that has been reaped. On Postgres `LastInsertId` is not
  supported, so a claim answers id 0 and its event has subject 0 (`store/alloc.go:99`). Renewals, commits and releases
  append no events although `docs/tokens.md:42` lists them.
* **Writers.** A write of the nginx file that breaks off before the marker is whole leaves a file that every later pass refuses as a user's
  (`nginx.go:102-105`); one that breaks off later is written anew. The scheme of a Nginx Proxy Manager host is sent and never compared, so that
  a user's change of it alone is never repaired (`npm.go:269-273`). Text a user adds to `advanced_config` is overwritten. A mark that a
  user takes off after the list, or a cluster object put in the place of a listed one and removed by name, is not protected. Object names are made by dropping characters and cutting at 63 (`RouteName`), so two FQDNs
  may share one, and the one listed last wins. After a failed nginx reload the next pass finds the
  file as it should be and does not reload.
* **Syncs.** Any error of the lookup by label is taken for a label that is free, and the claim is tried. A label that is not in normal form is claimed and released by every pass. Two objects of
  one source with one label take it from each other for ever; "stays unfulfilled rather than stealing the name"
  (`crdingest/ingest.go:4`) is not true between two reservations. The ingest does not call `OnMutation`. On SQLite a
  reused id can make a sync release somebody else's claim, against `watcher.go:12`.
* **Manifests.** An error of a release while pruning is dropped and the apply answered with success; the answer only does not list the
  hostname as pruned (`api/manifest.go:138`). Any error of the lookup of a taken hostname, a passing one of the database included, is answered "409 taken"
  (`api/manifest.go:107-110`). Hostnames not in normal form are claimed and pruned by every apply. Ports granted
  before a later failure stay granted, and pruning never releases a port. Applies of two versions side by side
  release each other's hostnames. The preflight may be out of date when the bundle is published; the proxy is not
  told of an apply that fails half-way. A project named `a@b` is the same as workspace `b` of `a`. Two default
  routes in one service: the last wins silently. A wildcard in a file claims the exact host too. Derived ids join their
  parts with `:`, so that a project or key with a colon may make two of them equal.
* **Names.** `CheckAvailability` says that a released row is available, the claim is refused, and the suggestions
  treat it as taken. A container label or manifest hostname `@.zone` has the label `@` in `zone`, which stands for the apex, so that it claims the zone's own
  name (`watcher.go:265`). The shadow check passes over catch-alls in the object of the host's own route.

## 6. Proofs

All proofs hold for any number of handlers, claimers, clients, owners, names, files,
bundles, objects and starts, from the assumptions named beside the constants: bounds are
naturals, sentinels are not members of the sets they are sentinels for, inputs are of
their types. Those that say something of the code:

* `NormAssumption`, `SpellingsAssumption`: normalizing a normal label changes nothing
  (checked of `Normalize` by `AvailabilityAgrees`);
* `FilesAssumption`, `BundlesAssumption`: what a file or publisher sends is well formed, and a file's deployments are of
  its scope (as `CatalogBundle` makes them);
* `OwnersAssumption`: no two projects share an owner, because an owner reference is project and service
  (a project with a slash in its name could break it);
* `AllocsAssumption`, `RequestsAssumption`: a name has labels, `*` is at most its first one and never all of it, and
  requests ask for names without stars (`Normalize` admits a leading `*.` and refuses every other star;
  names end with their zone, and zones have labels; a Host header with a star is no hostname and is left out);
* `HostsAssumption`: zones have labels, these have a length, and no label of a hostname is `@` (no DNS name has one; a
  container label may all the same, see the known departures);
* `LabelsAssumption`, `SuggestAssumption`: a label as written is what its dots leave of it; a word in normal form with `-app`, `get`
  and the like around it is in normal form or refused as too long, and different suffixes make different words
  (strings have no structure in the prover; TLC evaluates both on every label of the run);
* `FilesAssumption` of `Algorithms` (`Manifest` has one of that name for its own files): a file has the types YAML is read into, its
  hostnames have no label `@`, and a walk of a Go map meets each key once.

`PolicyIsHeld`, `OwnersAreScoped` and `RegistryIsNamespace` assume `Engine = "postgres"` in their statement, as `OthersUntouched`,
`OnlyOwn` and `PassAdvances` of `LabelSyncProofs` do in theirs: they need ids that are never given twice, and section 5 says what SQLite does. All others hold of both.

### What is proved

* **`RegistryProofs`**, both engines: `TypeOK`, `UniqueName`, `ZoneLive`, `FqdnFollowsLabel`.
  They are inductive only together with two more facts.
  `IdsBounded`: ids in use lie below a bound, so that the largest exists and the next
  one is fresh. `CopiesSound`: what a handler is about to write is a whole row and
  a claim's FQDN carries its label, since the INSERT happens steps after the row was
  built. Statements are treated by kind (UPDATE, DELETE, INSERT, rename) in
  lemmas about the tables, handlers in lemmas about `job`, and each action combines
  one of each.
* **`RegistryProofs`**, Postgres: `PolicyHeld`, `OwnerScope`, and that the registry implements `Namespace`. The
  further invariant `PInv` has `HandSound` for each handler: the id it is working on was given out
  already, and if its row is still there it is the allocation the handler looked at, with the owner, zone,
  kind and trust it saw; a rename past its check has a label that the zone's policy admits. It is
  inductive since no statement changes those fields of a row that stays (`RowsKept`) and no new row
  takes an id in anybody's hands. `ZonesDistinct` is needed for the refinement: a hostname is a label in a zone *name*, and two
  allocations with one hostname must be in one zone for `UniqueName` to tell them apart. Then every action
  is a grant, a move, a surrender or a stutter of `Holder`.
* **`PortsAlgorithmsProofs`, ports**: `TypeOK`, `UniqueValue`, `Sticky`, `InPool`. The strengthening
  `WalkSound` says that a value reaches the INSERT only after the avoid list was
  consulted; `Sticky` needs that an answer is always read from the row of its owner
  or was just inserted. `NoFalseExhaustion` rests on `MissedSound`: a value that has been free ever
  since the claim began, and that it did not meet under another test, lies ahead of its walk and outside its snapshot, also when the walk resumes after a lost race.
  `ClaimsWindDown` gives each claim a number of steps left, four for each value of the range it has not passed, that every
  step of its own lowers and no step of anybody else touches.
* **`WorkersProofs`, supervisor**: `TypeOK`, `RunningIsAlive`, and `StartingIsDriven`, the safety
  core of `StartingEnds`. `ProcessToCome` is behind `RunningIsAlive`: a backend that is starting or running has a process that
  is not reaped, or a start that will execute its command. The strengthening `TasksSound` says that the channel on
  record is the latest one and a polling gate holds a channel that was made. `ReadyIsDriven` says that the channel on
  record is closed, or its own attempt is on its way to the gate, or its gate polls and holds that very channel: a gate
  reads `p.ready` late, so that an older one may hold a newer channel, but the latest never holds an older one.
* **`WorkersProofs`, observer**: `TypeOK`, `RetiresOnlyMissing`, `ServedStays`, for any periods and any number of
  upsets. Ages are the difficulty: each tick adds one, each step back of the clock takes one off, and a time that is old enough stays
  "old"; so the types say that no age is below minus the number of upsets so far (`NowTimes`), and lemmas
  (`AgeMoves`, `OrderIsKept`) say that comparisons survive ticks. `CountsOK` is the heart: as long as no cycle has failed, the count of a row no PATCH
  has written is at most the number of scans that in fact missed the host in a row, and its
  absence began no earlier than theirs. `ResetOK` says why a gap voids the count, `FoundOK` what the cycle's two lists have of a host
  that did not move between kinds while they were read. `ListsOK` sharpens that to exactly how it is served, and gives
  `CycleAdvances`: a host that stays as it is gets its row, or its row goes, counts one scan more, or waits for nothing but the
  grace period; only a gap or the clock makes it begin anew.
* **`WorkersProofs`, route table**: `MostSpecific` for any set of names, wildcards and ports. The invariant is short (the table is an
  arrangement of the entries of some list, without inversions), the work is in the lemmas: a table has all the entries
  of its list and no others, in order (`TablesAre`), and the first entry of such an arrangement that matches a request is one that `Best`
  allows, whichever order the sort left ties in (`SortedFindsBest`). `SettlesDown` says that the table is up to date once a current list
  was installed, and that a table which is, with no outdated list on its way to it, stays so until the store changes.
* **`ClaimsProofs`**: `TypeOK` with "no handler is at work without a request" and "what is being deleted was released first"; `ReplaysAgree` as an
  action property: the only step that writes `memory` keeps what is there; and `RevocationIsFinal`, that a revoked
  token stays so and no handler begins to serve it, which is what safety has to say of `RevocationBites`. `RetriesFindTheWay` is the
  same for `HeldRetriesConverge`: nobody but those who commit or release the hold puts on a label that only a held claim asks for
  anything but a hold of its owner, which the reaper may take, and a release that gets to its end frees the label again; a port once claimed
  stays its owner's; and every 201 under a key has its response stored, unless the store fails.
* **`ReconcileProofs`**, all five writers: `UnmarkedUntouched`, `AgreedStays`, `UserFieldsSurvive`. The first invariant says what a pass knows of
  objects it is about to write: what it listed was marked, and is as it was listed, or
  somebody touched it since and it is in `stale`; the same for the file between `Compare` and `Truncate`.
  The second, `SteadySound`, adds the other half: what is to be written differed when it was listed, and for an object nobody has
  touched since the pass began the wish is still what the registry says. `PassAdvances` follows from it: of what nobody
  touches, a pass skips only what agrees with the registry, a write that is answered brings agreement, and no step loses it.
* **`LabelSyncProofs`**: `OthersUntouched` on Postgres. The invariant ties ids in a pass's hands to rows: gone, or
  of its own source still, since nobody changes a row's owner but the owner, and no id in hand is given
  to another row. `LiveKept`, on either database, needs in addition that a steady object is in the snapshot as it is and alone with its
  label (`SeenSound`), and that its row is neither listed for release nor updated for another object (`LiveSound`).
  `PassAdvances`, on Postgres, says that an object which stays as it is and asks alone for its label has its hostname when its turn is
  over without a failed lookup or write, unless somebody else holds it, and keeps it to the end of the pass; a released row of its
  reconciler counts where a release was cut or is under way, as it does for the code. `HandSound` is what it needs: a
  claim is on its way only while no row of the reconciler has that label, an update only while the row in hand has it. `FreedSound` accounts for
  every released row, and for every copy of one: a release is under way there or was cut.
* **`ManifestProofs`**: `TypeOK`, `CatalogWhole` and `IdentitiesStay` for any set of files and bundles:
  whatever passes the checks against the table as it is keeps every reference, key and version intact, and
  the deactivation of a deployment takes nothing away that others refer to. `OnlyOwn` rests on a second invariant,
  `OwnInv`: an id an apply will update or release is gone or still a row of its project or owners
  (Postgres), and the deployments it will deactivate are of its application and scope (either database).
  `SuccessConforms`, `ServedThroughout` and `RefusedForCause` rest on a third, `DInv`, on either database: at every step of an apply,
  of what nobody else touched since it began (`steady`), the hostnames it is done with are as the file asks, what it read of a row is
  still so, what it lists to release is not in the file, what it listed and is done with is released or in `missed`, what it published is there. Each conjunct is shown to survive
  the apply's own step, a step of another apply (which takes what it changes out of `steady`) and a step of anybody else.
* **`PortsAlgorithmsProofs`, algorithms**: all four invariants, for every label, table, policy, Unicode mapping, hostname, list of zones, set
  of routes and manifest, and any number of services, hostnames and routes in one. The invariant of the specification (`AInv`) only says
  that what is asked is an input; the work is in lemmas about the operators.
  *`AvailabilityAgrees`*: normalizing a normal label changes nothing (`NormalizeTwice`), and what `FilterAvailable` has
  kept after any number of candidates is free, distinct and at most three (`FilterIsSound`).
  *`HostsHaveOneHome`*: of two zones above one hostname the one with more labels has more bytes (`LongerIsBigger`), because both
  are ends of it; so the longest *string*, which is what the watcher looks for, is the most specific zone.
  *`SilentMeansServed`*: a winner that does not name the host is a catch-all over its class with at least the priority of its route.
  *`ClaimsCover`*: `WalkIsSound` is the loop invariant of `Claims`: after any part of any walk the claims are those of the services met,
  and the walk has failed exactly if one of those has an address that cannot be read, a port refused, a hostname outside the zone or shares a label with another one; what a set
  of services contributes does not depend on their order. `AcceptedIsServed` follows a service that `Parse` accepts through
  `RoutesOf`, `RouteFor` and `UpstreamFor` on every port; `LabelNamesHost`, `EachHostIsClaimed` and `LaunchIsExact` tie labels to hostnames and launch URLs;
  `WorkspacesAreApart`, `IdTellsRow` and `BundleIsValid` say what identities have in common.
* **`TablesProofs`**: a non-empty set of naturals has a least element, a bounded one a largest; the next id is fresh. What holds
  of 0 and carries over from each number to the next holds up to any bound (`UpTo`, for sets of numbers, from
  least elements), and a function defined step by step exists (`IterationExists`).

### What is only model-checked

* All liveness: `HoldsEnd`, `ClaimsEnd`, `HeldRetriesConverge`, `RevocationBites`, `StartingEnds`, `ReadyCloses`,
  `CatchesUp` and the three `Converges`. Liveness under fairness and ENABLED are out of the prover's reach. What is proved of
  all but `HoldsEnd` is the safe half: that the goroutine, the channel or the row in question is never left in a state
  from which no step leads on, and that each step that counts brings the end nearer and none undoes that
  (`ClaimsWindDown`, `RetriesFindTheWay`, `RevocationIsFinal`, `StartingIsDriven`, `ReadyIsDriven`, `SettlesDown`, `CycleAdvances` and
  `PassAdvances`). That the steps are taken is the fairness, which only the runs assume. `HoldsEnd` has no such half: the reaper is
  one statement that deletes whatever has expired.
* `RetryServes`, which is false: the run finds the counterexample.

Every other property of the passing runs, 30 of 40, is stated by a theorem. The library's induction theorems, which
take an operator as a parameter, cannot be used by the provers; where a proof needs induction, over the positions of a sequence, it
goes by sets of numbers and their least elements instead.

## 7. Not modelled

* **Docker relay** (`dockerrelay/`): one cached inspect and run per target, unlocked, on a port taken from `Ports`;
  what it does is the docker command line's.
* **Migrations** (`store/store.go`): every statement is IF NOT EXISTS, so that running one again after a crash
  changes nothing; there is no state to get wrong.
* **Events**: an append-only history read by people; errors of its writes are dropped and
  nothing depends on it.
* **`Prepare`** (`manifest/`): reads logo files on the client and uploads them; `UploadAsset` is what the server sees.
* **Kubernetes client, HTTP client, MCP server, configuration**: requests and parsing around the parts above.
* **Certificates and error pages**: crypto and HTML; certificates are cached by name under one lock.
* **Command line, status, self-update, desktop application, client libraries, deployment files**: flags, output,
  wiring, user interface and thin HTTP clients.
* Within modelled parts: forwarding, TLS and access logs of the proxy; the log ring, idle time as a number and changed
  specs of the supervisor; owners and metrics of the observer; status conditions of reservations; token
  hashing, last-used times and catalog scopes; the HTTP and file formats of all targets; logs and gauges.

What could be added next: more of the proxy's forwarding and of the supervisor's changed specs.
