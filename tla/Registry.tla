------------------------------ MODULE Registry ------------------------------
(***************************************************************************)
(* The hostname registry: the zones and allocations tables of              *)
(* internal/store, the operations of internal/service/alloc.go on them and *)
(* the HTTP handlers of internal/api/server.go that run them, each in a    *)
(* goroutine of its own.  One SQL statement is one atomic step; a handler  *)
(* is several, and between two of them any other handler, the reaper or    *)
(* the clock may move.                                                     *)
(*                                                                         *)
(* Left out, because nothing below tells it apart: spec, labels, project,  *)
(* owner_kind and status of an allocation (opaque data every whole-row     *)
(* write carries along), and the events table, which no handler here reads.*)
(***************************************************************************)
EXTENDS Tables, Naturals

CONSTANTS Handlers,    \* request goroutines
          ZoneNames,   \* zone names clients may create
          Labels,      \* normalized labels
          Blocked,     \* the labels the zone policy refuses to tenants
          Owners,      \* owner_ref values
          Admin,       \* an admin credential (root key, admin token)
          Nobody,      \* "no owner", for the abstract view
          NoRow,       \* "no allocation read"
          Engine,      \* "sqlite" or "postgres": how row ids are assigned
          Requests,    \* the operations by id that clients use
          Creds,       \* the credentials requests by id are made with
          ClaimForms,  \* <<kind, trusted source, hold>> of the claims made
          PatchStates, \* the states admins set by PATCH
          HoldTTL,     \* lifetime of a hold, in clock ticks
          MaxClaims,   \* bound: allocations ever created
          MaxZoneId,   \* bound: zone ids
          MaxTime      \* bound: clock

States == {"pending", "active", "suspended", "releasing", "released", "failed"}
Kinds  == {"tenant", "platform"}
Never  == 0                          \* ExpiresAt == nil; the clock starts at 1

\* gen and patched are history fields.  gen numbers the allocations in order of
\* creation and so tells apart two rows that were given the same id one after the
\* other; patched says that a PATCH made the row pending.
Row == [gen     : Nat,
        zid     : Nat,
        label   : Labels,
        fqdn    : ZoneNames \X Labels,
        kind    : Kinds,
        trusted : BOOLEAN,           \* source # "api"
        owner   : Owners,
        state   : States,
        exp     : Nat,
        patched : BOOLEAN]

ByIdOps == {"patch", "commit", "renew", "rename", "release"}
Ops     == ByIdOps \cup {"none", "claim", "delzone"}
Steps   == {"idle", "read", "write", "delete"}

ASSUME EngineAssumption == Engine \in {"sqlite", "postgres"}
ASSUME BoundsAssumption == /\ HoldTTL \in Nat \ {0}
                           /\ MaxClaims \in Nat /\ MaxZoneId \in Nat /\ MaxTime \in Nat
ASSUME NamesAssumption  == /\ Labels # {} /\ ZoneNames # {}
                           /\ Blocked \subseteq Labels
                           /\ Admin \notin Owners /\ Nobody \notin Owners
                           /\ NoRow \notin Row
ASSUME InputsAssumption == /\ Requests \subseteq ByIdOps
                           /\ Creds \subseteq Owners \cup {Admin}
                           /\ ClaimForms \subseteq Kinds \X BOOLEAN \X BOOLEAN
                           /\ PatchStates \subseteq States

VARIABLES
    zones,      \* zone id -> zone name, on the ids in use
    rows,       \* allocation id -> row, on the ids in use
    zseq,       \* next id of the zones sequence (Postgres only)
    now,        \* the clock the handlers and the reaper read
    job,        \* what each handler goroutine is in the middle of
    born        \* history: number of allocations ever created

vars == <<zones, rows, zseq, now, job, born>>

-----------------------------------------------------------------------------
(* The two tables. *)

\* Operators named Slip... are plausible mistakes in the definition that follows
\* them; they serve only to see that the properties can tell.
SlipReuseIds(D, s) == MaxPlusOne(D)

\* SQLite gives out the largest id in use plus one; Postgres' BIGSERIAL draws from
\* a sequence and never hands an id out twice.
NewId(D, s) == IF Engine = "sqlite" THEN MaxPlusOne(D) ELSE s

SlipIndexSkipsReleased(zid, label) ==
    \E i \in DOMAIN rows : /\ rows[i].zid = zid /\ rows[i].label = label
                          /\ rows[i].state # "released"

\* UNIQUE (zone_id, label)
Taken(zid, label) == \E i \in DOMAIN rows : rows[i].zid = zid /\ rows[i].label = label

\* Policy.Check: lengths, patterns and the blocklist bind tenants only.
PolicyOk(label, kind) == kind = "tenant" => label \notin Blocked

-----------------------------------------------------------------------------
Idle == [op |-> "none", step |-> "idle", cred |-> Admin, id |-> 0, al |-> NoRow,
         zone |-> CHOOSE z \in ZoneNames : TRUE,
         label |-> CHOOSE l \in Labels : TRUE]

Job == [op : Ops, step : Steps, cred : Owners \cup {Admin}, id : Nat,
        al : Row \cup {NoRow}, zone : ZoneNames, label : Labels]

TypeOK ==
    /\ DOMAIN zones \subseteq Nat \ {0}
    /\ zones \in [DOMAIN zones -> ZoneNames]
    /\ DOMAIN rows \subseteq Nat \ {0}
    /\ rows \in [DOMAIN rows -> Row]
    /\ zseq \in Nat \ {0}
    /\ now \in Nat \ {0}
    /\ job \in [Handlers -> Job]
    /\ born \in Nat

Init ==
    /\ zones = [i \in {} |-> {}]
    /\ rows = [i \in {} |-> {}]
    /\ zseq = 1
    /\ now = 1
    /\ job = [h \in Handlers |-> Idle]
    /\ born = 0

Answer(h) == job' = [job EXCEPT ![h] = Idle]      \* the handler responds
Goto(h, j) == job' = [job EXCEPT ![h] = j]

-----------------------------------------------------------------------------
(* Zones. *)

\* handleCreateZone -> EnsureZone: INSERT ... ON CONFLICT (name) DO NOTHING.
CreateZone(h, z) ==
    /\ job[h] = Idle
    /\ ~ \E i \in DOMAIN zones : zones[i] = z
    /\ LET id == NewId(DOMAIN zones, zseq)
       IN  /\ id <= MaxZoneId
           /\ zones' = Put(zones, id, z)
           /\ zseq' = IF Engine = "sqlite" THEN zseq ELSE zseq + 1
    /\ UNCHANGED <<rows, now, job, born>>

\* handleDeleteZone, first statement: the emptiness check, released rows aside.
DeleteZoneCheck(h, z) ==
    /\ job[h] = Idle
    /\ \E i \in DOMAIN zones : zones[i] = z
    /\ ~ \E i \in DOMAIN rows : /\ zones[rows[i].zid] = z
                                /\ rows[i].state # "released"
    /\ Goto(h, [Idle EXCEPT !.op = "delzone", !.step = "write", !.zone = z])
    /\ UNCHANGED <<zones, rows, zseq, now, born>>

SlipNoForeignKey(i) == FALSE

\* DeleteZone: the foreign key of allocations.zone_id refuses to orphan a row.
ReferencedZone(i) == \E r \in DOMAIN rows : rows[r].zid = i

DeleteZone(h) ==
    /\ job[h].op = "delzone"
    /\ LET Z == {i \in DOMAIN zones : zones[i] = job[h].zone /\ ~ ReferencedZone(i)}
       IN  zones' = Drop(zones, Z)
    /\ Answer(h)
    /\ UNCHANGED <<rows, zseq, now, born>>

-----------------------------------------------------------------------------
(* Claim. *)

\* claimHostname up to the INSERT: read the zone, default the kind, normalize,
\* check the policy (trusted sources bypass it), build the allocation.
ClaimPrepare(h, zid, label, kind, trusted, owner, hold) ==
    /\ job[h] = Idle
    /\ zid \in DOMAIN zones
    /\ trusted \/ PolicyOk(label, kind)
    /\ Goto(h, [Idle EXCEPT
           !.op = "claim", !.step = "write", !.zone = zones[zid],
           !.al = [gen |-> 0, zid |-> zid, label |-> label,
                   fqdn |-> <<zones[zid], label>>,
                   kind |-> kind, trusted |-> trusted, owner |-> owner,
                   state |-> IF hold THEN "pending" ELSE "active",
                   exp   |-> IF hold THEN now + HoldTTL ELSE Never,
                   patched |-> FALSE]])
    /\ UNCHANGED <<zones, rows, zseq, now, born>>

\* CreateAllocation: one INSERT, refused by the unique index (the claim answers
\* "taken") or by the foreign key when the zone is gone.
ClaimInsert(h) ==
    /\ job[h].op = "claim"
    /\ LET al == job[h].al
           id == NewId(DOMAIN rows, born + 1)
       IN  \/ /\ al.zid \in DOMAIN zones
              /\ ~ Taken(al.zid, al.label)
              /\ born < MaxClaims
              /\ rows' = Put(rows, id, [al EXCEPT !.gen = born + 1])
              /\ born' = born + 1
           \/ /\ al.zid \notin DOMAIN zones \/ Taken(al.zid, al.label)
              /\ UNCHANGED <<rows, born>>
    /\ Answer(h)
    /\ UNCHANGED <<zones, zseq, now>>

-----------------------------------------------------------------------------
(* Operations on an allocation by id: authorize, read, rewrite. *)

\* auth + canTouchAllocation: an owner token must own the allocation at the time
\* of this lookup; an admin credential passes without one.  A request for an id
\* that is not in use is answered 404 and changes nothing.
Begin(h, op, id, cred, label) ==
    /\ job[h] = Idle
    /\ cred # Admin => id \in DOMAIN rows /\ rows[id].owner = cred
    /\ Goto(h, [Idle EXCEPT !.op = op, !.step = "read", !.cred = cred,
                            !.id = id, !.label = label])
    /\ UNCHANGED <<zones, rows, zseq, now, born>>

Reading(h, op) == job[h].op = op /\ job[h].step = "read"
Writing(h, op) == job[h].op = op /\ job[h].step = "write"

Found(h) == rows[job[h].id]          \* the row GetAllocation returns

\* The lookup at the head of every operation.  When the row exists and passes
\* the operation's check, al is the goroutine's copy of it, already changed
\* (NoRow where nothing of the copy is written back).
Fetch(h, check, al) ==
    /\ \/ /\ job[h].id \in DOMAIN rows
          /\ check
          /\ Goto(h, [job[h] EXCEPT !.step = "write", !.al = al,
                                    !.zone = zones[Found(h).zid]])
       \/ /\ ~ (job[h].id \in DOMAIN rows /\ check)
          /\ Answer(h)
    /\ UNCHANGED <<zones, rows, zseq, now, born>>

SlipUpdateWritesLabel(id, al) ==
    rows' = [i \in DOMAIN rows |->
                IF i # id THEN rows[i]
                ELSE [rows[i] EXCEPT !.state = al.state, !.exp = al.exp,
                                     !.owner = al.owner, !.label = al.label,
                                     !.patched = al.patched]]

\* UpdateAllocation: every mutable column is rewritten from the copy; label and
\* fqdn are not among them.  A row that is gone is no error.
UpdateAllocation(id, al) ==
    rows' = [i \in DOMAIN rows |->
                IF i # id THEN rows[i]
                ELSE [rows[i] EXCEPT !.state = al.state, !.exp = al.exp,
                                     !.owner = al.owner, !.patched = al.patched]]

CommitRead(h) ==
    /\ Reading(h, "commit")
    /\ Fetch(h, Found(h).state = "pending",
                [Found(h) EXCEPT !.state = "active", !.exp = Never, !.patched = FALSE])

CommitWrite(h) ==
    /\ Writing(h, "commit")
    /\ UpdateAllocation(job[h].id, job[h].al)
    /\ Answer(h)
    /\ UNCHANGED <<zones, zseq, now, born>>

RenewRead(h) ==
    /\ Reading(h, "renew")
    /\ Fetch(h, Found(h).state = "pending" /\ Found(h).exp # Never,
                [Found(h) EXCEPT !.exp = now + HoldTTL])

RenewWrite(h) ==
    /\ Writing(h, "renew")
    /\ UpdateAllocation(job[h].id, job[h].al)
    /\ Answer(h)
    /\ UNCHANGED <<zones, zseq, now, born>>

\* handlePatchAllocation: owner tokens may patch spec only (no visible change of
\* the row); an admin may also set the state, to anything, "pending" included.  The
\* expiry stays what it was: a row that had none is then pending for ever, because
\* the reaper takes no pending row without an expiry.
PatchRead(h, st) ==
    /\ Reading(h, "patch")
    /\ job[h].cred = Admin
    /\ Fetch(h, TRUE, [Found(h) EXCEPT !.state = st, !.patched = (st = "pending")])

PatchSpecRead(h) ==
    /\ Reading(h, "patch")
    /\ Fetch(h, TRUE, Found(h))

PatchWrite(h) ==
    /\ Writing(h, "patch")
    /\ UpdateAllocation(job[h].id, job[h].al)
    /\ Answer(h)
    /\ UNCHANGED <<zones, zseq, now, born>>

SlipRenameSkipsPolicy(h) ==
    /\ Reading(h, "rename")
    /\ Fetch(h, job[h].label # Found(h).label, NoRow)

\* Rename up to the UPDATE: the no-op rename and the policy are decided on the
\* copy that was read.
RenameRead(h) ==
    /\ Reading(h, "rename")
    /\ Fetch(h, job[h].label # Found(h).label /\ PolicyOk(job[h].label, Found(h).kind),
                NoRow)

\* RenameAllocation: UPDATE label, fqdn WHERE id, guarded by the unique index.
\* Its own lookup only feeds the event and is merged with the UPDATE.
RenameWrite(h) ==
    /\ Writing(h, "rename")
    /\ LET id == job[h].id
           ok == id \in DOMAIN rows /\ ~ Taken(rows[id].zid, job[h].label)
       IN  rows' = [i \in DOMAIN rows |->
                       IF i = id /\ ok
                       THEN [rows[i] EXCEPT !.label = job[h].label,
                                            !.fqdn = <<job[h].zone, job[h].label>>]
                       ELSE rows[i]]
    /\ Answer(h)
    /\ UNCHANGED <<zones, zseq, now, born>>

ReleaseRead(h) ==
    /\ Reading(h, "release")
    /\ Fetch(h, TRUE, [Found(h) EXCEPT !.state = "released", !.exp = Never,
                                 !.patched = FALSE])

ReleaseWrite(h) ==
    /\ Writing(h, "release")
    /\ UpdateAllocation(job[h].id, job[h].al)
    /\ Goto(h, [job[h] EXCEPT !.step = "delete", !.al = NoRow])
    /\ UNCHANGED <<zones, zseq, now, born>>

\* DeleteAllocation: DELETE WHERE id, whatever row has that id by now.
ReleaseDelete(h) ==
    /\ job[h].op = "release" /\ job[h].step = "delete"
    /\ rows' = Drop(rows, {job[h].id})
    /\ Answer(h)
    /\ UNCHANGED <<zones, zseq, now, born>>

-----------------------------------------------------------------------------
(* The reaper and the clock. *)

SlipExpiresOnTheDot(r) == r.state = "pending" /\ r.exp = now

Expired(r) == r.state = "pending" /\ r.exp # Never /\ r.exp < now

\* RunReaper's tick -> ReapExpiredHolds: one DELETE statement.
Reap ==
    /\ \E i \in DOMAIN rows : Expired(rows[i])
    /\ rows' = Drop(rows, {i \in DOMAIN rows : Expired(rows[i])})
    /\ UNCHANGED <<zones, zseq, now, job, born>>

Tick ==
    /\ now < MaxTime
    /\ now' = now + 1
    /\ UNCHANGED <<zones, rows, zseq, job, born>>

-----------------------------------------------------------------------------
\* The request's context is cancelled (the client hung up, the server shuts down):
\* the statement the handler would run next fails and it answers with an error.
Cancel(h) ==
    /\ job[h] # Idle
    /\ Answer(h)
    /\ UNCHANGED <<zones, rows, zseq, now, born>>

StartOp(h) ==
    \/ \E z \in ZoneNames : CreateZone(h, z) \/ DeleteZoneCheck(h, z)
    \/ \E zid \in DOMAIN zones, label \in Labels, f \in ClaimForms, owner \in Owners :
          ClaimPrepare(h, zid, label, f[1], f[2], owner, f[3])
    \/ \E id \in DOMAIN rows, cred \in Creds :
          \/ \E op \in Requests \ {"rename"} : Begin(h, op, id, cred, Idle.label)
          \/ "rename" \in Requests /\ \E label \in Labels : Begin(h, "rename", id, cred, label)

StepOp(h) ==
    \/ DeleteZone(h)
    \/ ClaimInsert(h)
    \/ CommitRead(h) \/ CommitWrite(h)
    \/ RenewRead(h)  \/ RenewWrite(h)
    \/ PatchSpecRead(h) \/ (\E st \in PatchStates : PatchRead(h, st)) \/ PatchWrite(h)
    \/ RenameRead(h) \/ RenameWrite(h)
    \/ ReleaseRead(h) \/ ReleaseWrite(h) \/ ReleaseDelete(h)

Next ==
    \/ \E h \in Handlers : StartOp(h) \/ StepOp(h) \/ Cancel(h)
    \/ Reap
    \/ Tick

Spec == Init /\ [][Next]_vars

\* The reaper's ticker and the clock never stop.  Nothing is asked of the handlers:
\* one that hangs between two statements does not keep a hold alive.
Fairness == WF_vars(Reap) /\ WF_vars(Tick)
FairSpec == Spec /\ Fairness

-----------------------------------------------------------------------------
(* Properties. *)

\* No two allocations of a zone have the same label, whatever claims and renames
\* race: the unique index behind CreateAllocation and RenameAllocation.
UniqueName ==
    \A i, j \in DOMAIN rows :
        rows[i].zid = rows[j].zid /\ rows[i].label = rows[j].label => i = j

\* handleDeleteZone looks for allocations and deletes the zone in two statements;
\* a claim that lands between them never ends up in a zone that is gone.
ZoneLive == \A i \in DOMAIN rows : rows[i].zid \in DOMAIN zones

\* A whole-row write from a stale copy (commit, renew, patch, release) never
\* undoes or half-undoes a rename: the label inside the stored FQDN is always
\* the allocation's label.
FqdnFollowsLabel == \A i \in DOMAIN rows : rows[i].fqdn[2] = rows[i].label

\* A blocked label is held by a tenant only when a trusted source put it there:
\* neither a claim through the API nor a later rename gets around the policy,
\* although the rename decides on a copy it read earlier.  (Ids never reused.)
PolicyHeld ==
    \A i \in DOMAIN rows :
        rows[i].kind = "tenant" /\ rows[i].label \in Blocked => rows[i].trusted

\* A request made with an owner token changes or deletes that owner's
\* allocations only: what canTouchAllocation checked in an earlier statement
\* still holds when the write lands.  (Ids never reused.)
OwnerScope ==
    [][\A h \in Handlers :
          (job[h].cred # Admin /\ job'[h] # job[h]) =>
             \A i \in DOMAIN rows :
                 rows[i].owner # job[h].cred =>
                     i \in DOMAIN rows' /\ rows'[i] = rows[i]]_vars

\* A hold is not there forever: it is committed, renewed past the end of the clock,
\* patched away, released, or reaped.  A row that is pending without an expiry
\* counts as held, and nothing ends it: whole-row writes from stale copies never
\* make one.  The exception, which the code does have, is the row an admin's PATCH
\* set to "pending" when it had no expiry.
Endless(r) == r.patched /\ r.exp = Never
Held(g) == \E i \in DOMAIN rows : /\ rows[i].gen = g
                                 /\ rows[i].state = "pending"
                                 /\ rows[i].exp < MaxTime
                                 /\ ~ Endless(rows[i])
HoldsEnd == \A g \in 1..MaxClaims : Held(g) ~> ~ Held(g)

\* Seen from outside the registry is a Namespace: hostnames go from free to held
\* and back and move with a rename, and never change hands.
Names == ZoneNames \X Labels
NameOf(i) == <<zones[rows[i].zid], rows[i].label>>
Holder == [n \in Names |->
              IF \E i \in DOMAIN rows : NameOf(i) = n
              THEN rows[CHOOSE i \in DOMAIN rows : NameOf(i) = n].owner
              ELSE Nobody]
Abstract == INSTANCE Namespace WITH Free <- Nobody, holder <- Holder
ImplementsNamespace == Abstract!Spec
=============================================================================
