--------------------------- MODULE RegistryProofs ---------------------------
(***************************************************************************)
(* Safety of Registry, for any number of handlers, zones, labels, owners   *)
(* and ids, and for both ways of assigning row ids.                        *)
(*                                                                         *)
(* Four invariants hold only together: a copy of a row is well typed while *)
(* the zone of the row exists (ZoneLive), a new id is fresh while the ids  *)
(* in use are bounded (IdsBounded), and what an INSERT writes is what the  *)
(* handler prepared several steps earlier (CopiesSound).                   *)
(*                                                                         *)
(* The second half is about ids that are never reused (Postgres): what a   *)
(* handler read in one statement is still true of the row in the next.     *)
(* SQLite may have given the id to another row in between.                 *)
(***************************************************************************)
EXTENDS Registry, TablesProofs

\* The ids in use are bounded: the largest of them exists.
IdsBounded == DOMAIN rows \subseteq 1..born /\ DOMAIN zones \subseteq 1..MaxZoneId

\* A handler that is about to write has a whole row to write, and the row a
\* claim prepared names itself consistently.
CopiesSound ==
    \A h \in Handlers :
        /\ job[h].op = "claim" => job[h].al \in Row /\ job[h].al.fqdn[2] = job[h].al.label
        /\ (job[h].op \in {"patch", "commit", "renew", "release"} /\ job[h].step = "write")
               => job[h].al \in Row

IInv == /\ TypeOK
        /\ IdsBounded
        /\ CopiesSound
        /\ ZoneLive
        /\ UniqueName
        /\ FqdnFollowsLabel

-----------------------------------------------------------------------------
(* Facts about single definitions. *)

\* A goroutine at rest is a well-formed job.
LEMMA IdleIsJob == Idle \in Job /\ Idle.op = "none"
BY NamesAssumption DEF Idle, Job, Ops, Steps

\* What the next id is: positive, within the bound, and not in use.
LEMMA NewIdFresh ==
    ASSUME NEW n \in Nat, NEW D \in SUBSET (1..n), NEW s \in Nat,
           Engine = "postgres" => s = n + 1
    PROVE  NewId(D, s) \in 1..(n + 1) /\ NewId(D, s) \notin D
BY EngineAssumption, MaxPlusOneFresh DEF NewId

\* The whole-row UPDATE leaves ids, zones and names as they are.
LEMMA UpdateKeepsNames ==
    ASSUME TypeOK, NEW id, NEW al \in Row, UpdateAllocation(id, al)
    PROVE  /\ DOMAIN rows' = DOMAIN rows
           /\ rows' \in [DOMAIN rows -> Row]
           /\ \A i \in DOMAIN rows : /\ rows'[i].zid = rows[i].zid
                                     /\ rows'[i].label = rows[i].label
                                     /\ rows'[i].fqdn = rows[i].fqdn
<1>1. rows \in [DOMAIN rows -> Row]
  BY DEF TypeOK
<1> QED
  BY <1>1 DEF UpdateAllocation, Row

\* A handler that moves to another sound stage disturbs no other handler.
LEMMA GotoKeepsCopies ==
    ASSUME IInv, NEW h \in Handlers, NEW j \in Job, Goto(h, j),
           j.op = "claim" => j.al \in Row /\ j.al.fqdn[2] = j.al.label,
           (j.op \in {"patch", "commit", "renew", "release"} /\ j.step = "write")
               => j.al \in Row
    PROVE  job' \in [Handlers -> Job] /\ CopiesSound'
BY DEF IInv, TypeOK, CopiesSound, Goto

\* A handler that responds drops its copy.
LEMMA AnswerKeepsCopies ==
    ASSUME IInv, NEW h \in Handlers, Answer(h)
    PROVE  job' \in [Handlers -> Job] /\ CopiesSound'
<1>1. Goto(h, Idle)
  BY DEF Answer, Goto
<1> QED
  BY <1>1, IdleIsJob, GotoKeepsCopies DEF Idle

\* The lookup at the head of an operation keeps the handlers sound when the copy
\* it keeps is a row (or is not written back, as in a rename).
LEMMA FetchKeepsCopies ==
    ASSUME IInv, NEW h \in Handlers, NEW check, NEW al, Fetch(h, check, al),
           job[h].step = "read", job[h].op \in ByIdOps,
           (job[h].id \in DOMAIN rows /\ check) =>
               al \in Row \/ (al = NoRow /\ job[h].op = "rename")
    PROVE  job' \in [Handlers -> Job] /\ CopiesSound'
<1> DEFINE j == [job[h] EXCEPT !.step = "write", !.al = al, !.zone = zones[Found(h).zid]]
<1>1. CASE job[h].id \in DOMAIN rows /\ check /\ Goto(h, j)
  <2>1. job[h] \in Job /\ zones[Found(h).zid] \in ZoneNames
    BY <1>1 DEF IInv, TypeOK, ZoneLive, Found
  <2>2. j \in Job /\ j.op = job[h].op /\ j.al = al
    BY <2>1, <1>1 DEF Job, Steps
  <2>3. j.op # "claim"
    BY <2>2 DEF ByIdOps
  <2> QED
    BY <1>1, <2>2, <2>3, GotoKeepsCopies
<1>2. CASE Answer(h)
  BY <1>2, AnswerKeepsCopies
<1> QED
  BY <1>1, <1>2 DEF Fetch

-----------------------------------------------------------------------------
(* The handlers' side of the invariant: whatever step a handler takes, what it *)
(* carries in its goroutine stays sound.                                       *)

\* claimHostname prepares a well-formed row whose FQDN carries its label.
LEMMA ClaimPrepareSound ==
    ASSUME IInv, NEW h \in Handlers, NEW zid \in DOMAIN zones, NEW label \in Labels,
           NEW kind \in Kinds, NEW trusted \in BOOLEAN, NEW owner \in Owners,
           NEW hold \in BOOLEAN, ClaimPrepare(h, zid, label, kind, trusted, owner, hold)
    PROVE  job' \in [Handlers -> Job] /\ CopiesSound'
<1> DEFINE al == [gen |-> 0, zid |-> zid, label |-> label,
                  fqdn |-> <<zones[zid], label>>,
                  kind |-> kind, trusted |-> trusted, owner |-> owner,
                  state |-> IF hold THEN "pending" ELSE "active",
                  exp   |-> IF hold THEN now + HoldTTL ELSE Never,
                  patched |-> FALSE]
           j == [Idle EXCEPT !.op = "claim", !.step = "write", !.zone = zones[zid], !.al = al]
<1>1. Goto(h, j)
  BY DEF ClaimPrepare
<1>2. al \in Row /\ al.fqdn[2] = al.label
  <2>1. zones[zid] \in ZoneNames /\ zid \in Nat /\ now \in Nat /\ HoldTTL \in Nat
    BY BoundsAssumption DEF IInv, TypeOK
  <2> QED
    BY <2>1 DEF Row, States, Never
<1>3. j \in Job /\ j.al = al /\ j.op = "claim"
  <2>1. zones[zid] \in ZoneNames
    BY DEF IInv, TypeOK
  <2> HIDE DEF al
  <2> QED
    BY <1>2, <2>1, IdleIsJob DEF Job, Ops, Steps
<1> HIDE DEF al, j
<1> QED
  BY <1>1, <1>2, <1>3, GotoKeepsCopies

\* A request by id that passed the authorization carries no copy yet.
LEMMA BeginSound ==
    ASSUME IInv, NEW h \in Handlers, NEW op \in Requests, NEW id \in DOMAIN rows,
           NEW cred \in Creds, NEW label \in Labels, Begin(h, op, id, cred, label)
    PROVE  job' \in [Handlers -> Job] /\ CopiesSound'
<1> DEFINE j == [Idle EXCEPT !.op = op, !.step = "read", !.cred = cred, !.id = id,
                             !.label = label]
<1>1. Goto(h, j)
  BY DEF Begin
<1>2. j \in Job /\ j.op \in ByIdOps /\ j.step = "read"
  <2>1. id \in Nat /\ op \in ByIdOps /\ cred \in Owners \cup {Admin}
    BY InputsAssumption DEF IInv, TypeOK
  <2> QED
    BY <2>1, IdleIsJob DEF Job, Ops, Steps
<1> HIDE DEF j
<1> QED
  BY <1>1, <1>2, GotoKeepsCopies DEF ByIdOps

\* Between its two statements a release carries the id only.
LEMMA ReleaseWriteSound ==
    ASSUME IInv, NEW h \in Handlers, ReleaseWrite(h)
    PROVE  job' \in [Handlers -> Job] /\ CopiesSound'
<1> DEFINE j == [job[h] EXCEPT !.step = "delete", !.al = NoRow]
<1>1. Goto(h, j) /\ job[h].op = "release"
  BY DEF ReleaseWrite, Writing
<1>2. j \in Job /\ j.op = "release" /\ j.step = "delete"
  <2>1. job[h] \in Job
    BY DEF IInv, TypeOK
  <2> QED
    BY <1>1, <2>1 DEF Job, Ops, Steps
<1> HIDE DEF j
<1> QED
  BY <1>1, <1>2, GotoKeepsCopies

\* handleDeleteZone carries the name of the zone to its second statement.
LEMMA DeleteZoneCheckSound ==
    ASSUME IInv, NEW h \in Handlers, NEW z \in ZoneNames, DeleteZoneCheck(h, z)
    PROVE  job' \in [Handlers -> Job] /\ CopiesSound'
<1> DEFINE j == [Idle EXCEPT !.op = "delzone", !.step = "write", !.zone = z]
<1>1. Goto(h, j)
  BY DEF DeleteZoneCheck
<1>2. j \in Job /\ j.op = "delzone"
  BY IdleIsJob DEF Job, Ops, Steps
<1> HIDE DEF j
<1> QED
  BY <1>1, <1>2, GotoKeepsCopies

\* The lookups of commit, renew, patch, rename and release.
LEMMA ReadSound ==
    ASSUME IInv, NEW h \in Handlers, NEW st \in PatchStates \cup {"active"},
           CommitRead(h) \/ RenewRead(h) \/ PatchRead(h, st) \/ PatchSpecRead(h)
               \/ RenameRead(h) \/ ReleaseRead(h)
    PROVE  job' \in [Handlers -> Job] /\ CopiesSound'
<1>1. job[h].id \in DOMAIN rows => Found(h) \in Row
  BY DEF IInv, TypeOK, Found
<1>2. now + HoldTTL \in Nat
  BY BoundsAssumption DEF IInv, TypeOK
<1>3. CASE CommitRead(h)
  <2>1. job[h].id \in DOMAIN rows => [Found(h) EXCEPT !.state = "active", !.exp = Never, !.patched = FALSE] \in Row
    BY <1>1 DEF Row, States, Never
  <2> QED
    BY <1>3, <2>1, FetchKeepsCopies DEF CommitRead, Reading, ByIdOps
<1>4. CASE RenewRead(h)
  <2>1. job[h].id \in DOMAIN rows => [Found(h) EXCEPT !.exp = now + HoldTTL] \in Row
    BY <1>1, <1>2 DEF Row
  <2> QED
    BY <1>4, <2>1, FetchKeepsCopies DEF RenewRead, Reading, ByIdOps
<1>5. CASE PatchRead(h, st)
  <2>1. st \in States
    BY InputsAssumption DEF States
  <2>2. job[h].id \in DOMAIN rows => [Found(h) EXCEPT !.state = st, !.patched = (st = "pending")] \in Row
    BY <1>1, <2>1 DEF Row
  <2> QED
    BY <1>5, <2>2, FetchKeepsCopies DEF PatchRead, Reading, ByIdOps
<1>6. CASE PatchSpecRead(h)
  BY <1>6, <1>1, FetchKeepsCopies DEF PatchSpecRead, Reading, ByIdOps
<1>7. CASE RenameRead(h)
  BY <1>7, FetchKeepsCopies DEF RenameRead, Reading, ByIdOps
<1>8. CASE ReleaseRead(h)
  <2>1. job[h].id \in DOMAIN rows => [Found(h) EXCEPT !.state = "released", !.exp = Never, !.patched = FALSE] \in Row
    BY <1>1 DEF Row, States, Never
  <2> QED
    BY <1>8, <2>1, FetchKeepsCopies DEF ReleaseRead, Reading, ByIdOps
<1> QED
  BY <1>3, <1>4, <1>5, <1>6, <1>7, <1>8

-----------------------------------------------------------------------------
(* The tables' side of the invariant, by the kind of statement that is run. *)

NamesInv == /\ DOMAIN rows \subseteq 1..born
            /\ DOMAIN zones \subseteq 1..MaxZoneId
            /\ born \in Nat
            /\ zones \in [DOMAIN zones -> ZoneNames]
            /\ rows \in [DOMAIN rows -> Row]
            /\ ZoneLive /\ UniqueName /\ FqdnFollowsLabel

\* An UPDATE of a whole row moves no name.
LEMMA UpdateKeepsNamesInv ==
    ASSUME IInv, NEW id, NEW al \in Row, UpdateAllocation(id, al),
           UNCHANGED <<zones, born>>
    PROVE  NamesInv'
BY UpdateKeepsNames
   DEF IInv, IdsBounded, NamesInv, TypeOK, ZoneLive, UniqueName, FqdnFollowsLabel

\* A DELETE leaves a part of the table.
LEMMA DropKeepsNamesInv ==
    ASSUME IInv, NEW K, rows' = Drop(rows, K), UNCHANGED <<zones, born>>
    PROVE  NamesInv'
BY DEF IInv, IdsBounded, NamesInv, TypeOK, ZoneLive, UniqueName, FqdnFollowsLabel, Drop

\* The INSERT of a claim: the id is fresh, and the unique index and the foreign
\* key have been consulted in the same statement.
LEMMA InsertKeepsNamesInv ==
    ASSUME IInv, NEW h \in Handlers, ClaimInsert(h)
    PROVE  NamesInv'
<1> DEFINE al == job[h].al
           id == NewId(DOMAIN rows, born + 1)
           new == [al EXCEPT !.gen = born + 1]
<1>1. al \in Row /\ al.fqdn[2] = al.label
  BY DEF IInv, CopiesSound, ClaimInsert
<1>2. id \in 1..(born + 1) /\ id \notin DOMAIN rows
  BY NewIdFresh DEF IInv, TypeOK, IdsBounded
<1>3. new \in Row /\ new.zid = al.zid /\ new.label = al.label /\ new.fqdn = al.fqdn
  BY <1>1 DEF IInv, TypeOK, Row
<1>4. CASE /\ al.zid \in DOMAIN zones
           /\ ~ Taken(al.zid, al.label)
           /\ rows' = Put(rows, id, new)
           /\ born' = born + 1
           /\ zones' = zones
  <2> HIDE DEF al, id, new
  <2>1. /\ DOMAIN rows' = DOMAIN rows \cup {id}
        /\ rows'[id] = new
        /\ \A i \in DOMAIN rows : rows'[i] = rows[i]
        /\ rows' \in [DOMAIN rows' -> Row]
    BY <1>2, <1>3, <1>4 DEF Put, IInv, TypeOK
  <2>2. DOMAIN rows' \subseteq 1..born' /\ born' \in Nat
    BY <1>2, <1>4, <2>1 DEF IInv, TypeOK, IdsBounded
  <2>3. ZoneLive' /\ FqdnFollowsLabel'
    BY <1>1, <1>3, <1>4, <2>1 DEF IInv, ZoneLive, FqdnFollowsLabel
  <2>4. UniqueName'
    BY <1>2, <1>3, <1>4, <2>1 DEF IInv, UniqueName, Taken
  <2> QED
    BY <1>4, <2>1, <2>2, <2>3, <2>4 DEF NamesInv, IInv, TypeOK, IdsBounded
<1>5. CASE UNCHANGED <<rows, zones, born>>
  BY <1>5 DEF NamesInv, IInv, TypeOK, IdsBounded, ZoneLive, UniqueName, FqdnFollowsLabel
<1> QED
  BY <1>4, <1>5 DEF ClaimInsert

Renamed(r, l, z) == [r EXCEPT !.label = l, !.fqdn = <<z, l>>]

\* A renamed row is a row of the same zone whose FQDN carries the new label.
LEMMA RenamedRow ==
    ASSUME NEW r \in Row, NEW l \in Labels, NEW z \in ZoneNames
    PROVE  /\ Renamed(r, l, z) \in Row
           /\ Renamed(r, l, z).zid = r.zid
           /\ Renamed(r, l, z).label = l
           /\ Renamed(r, l, z).fqdn[2] = l
<1> DEFINE f == <<z, l>>
<1>1. f \in ZoneNames \X Labels /\ f[2] = l
  OBVIOUS
<1>2. Renamed(r, l, z) = [r EXCEPT !.label = l, !.fqdn = f]
  BY DEF Renamed
<1> HIDE DEF f
<1> QED
  BY <1>1, <1>2 DEF Row

\* The UPDATE of a rename: label and FQDN are written together and the unique
\* index is consulted in the same statement.
LEMMA RenameKeepsNamesInv ==
    ASSUME IInv, NEW h \in Handlers, RenameWrite(h)
    PROVE  NamesInv'
<1> DEFINE id == job[h].id
           label == job[h].label
           ok == id \in DOMAIN rows /\ ~ Taken(rows[id].zid, label)
<1>1. label \in Labels /\ job[h].zone \in ZoneNames
  BY DEF IInv, TypeOK, Job
<1>2. UNCHANGED <<zones, born>>
  BY DEF RenameWrite
<1>3. DOMAIN rows' = DOMAIN rows
  BY DEF RenameWrite
<1>4. \A i \in DOMAIN rows : ~ (i = id /\ ok) => rows'[i] = rows[i]
  BY DEF RenameWrite
<1>5. ok => rows'[id] = Renamed(rows[id], label, job[h].zone)
  BY DEF RenameWrite, Renamed
<1> HIDE DEF id, label, ok
<1>6. ok => /\ rows'[id] \in Row /\ rows'[id].zid = rows[id].zid
            /\ rows'[id].label = label /\ rows'[id].fqdn[2] = label
  <2> SUFFICES ASSUME ok PROVE rows'[id] \in Row /\ rows'[id].zid = rows[id].zid
                               /\ rows'[id].label = label /\ rows'[id].fqdn[2] = label
    OBVIOUS
  <2>1. rows[id] \in Row
    BY DEF ok, IInv, TypeOK
  <2> QED
    BY <2>1, <1>1, <1>5, RenamedRow
<1>7. rows' \in [DOMAIN rows' -> Row]
  <2>1. \A i \in DOMAIN rows : rows'[i] \in Row
    BY <1>4, <1>6 DEF IInv, TypeOK
  <2>2. rows' = [i \in DOMAIN rows' |-> rows'[i]]
    BY DEF RenameWrite
  <2> QED
    BY <2>1, <2>2, <1>3
<1>8. ZoneLive' /\ FqdnFollowsLabel'
  BY <1>2, <1>3, <1>4, <1>6 DEF IInv, ZoneLive, FqdnFollowsLabel
<1>9. UniqueName'
  <2>1. ok => \A i \in DOMAIN rows : ~ (rows[i].zid = rows[id].zid /\ rows[i].label = label)
    BY DEF ok, Taken
  <2> QED
    BY <1>3, <1>4, <1>6, <2>1 DEF IInv, UniqueName
<1> QED
  BY <1>2, <1>3, <1>7, <1>8, <1>9 DEF NamesInv, IInv, TypeOK, IdsBounded

\* DeleteZone deletes zones no row refers to; CreateZone only adds one.
LEMMA ZoneStepsKeepNamesInv ==
    ASSUME IInv, NEW h \in Handlers, NEW z \in ZoneNames, CreateZone(h, z) \/ DeleteZone(h)
    PROVE  NamesInv' /\ zseq' \in Nat \ {0}
<1>1. CASE CreateZone(h, z)
  <2> DEFINE id == NewId(DOMAIN zones, zseq)
  <2>1. /\ id <= MaxZoneId /\ zones' = Put(zones, id, z)
        /\ zseq' = IF Engine = "sqlite" THEN zseq ELSE zseq + 1
        /\ UNCHANGED <<rows, born>>
    BY <1>1 DEF CreateZone
  <2>2. id \in 1..MaxZoneId
    <3>1. MaxPlusOne(DOMAIN zones) \in 1..(MaxZoneId + 1)
      BY MaxPlusOneFresh, BoundsAssumption DEF IInv, IdsBounded
    <3>2. zseq \in Nat \ {0}
      BY DEF IInv, TypeOK
    <3> QED
      BY <2>1, <3>1, <3>2, BoundsAssumption DEF NewId
  <2> HIDE DEF id
  <2>3. zones' \in [DOMAIN zones' -> ZoneNames] /\ DOMAIN zones' = DOMAIN zones \cup {id}
    BY <2>1, <2>2 DEF Put, IInv, TypeOK
  <2> QED
    BY <2>1, <2>2, <2>3
       DEF NamesInv, IInv, TypeOK, IdsBounded, ZoneLive, UniqueName, FqdnFollowsLabel
<1>2. CASE DeleteZone(h)
  <2> DEFINE Z == {i \in DOMAIN zones : zones[i] = job[h].zone /\ ~ ReferencedZone(i)}
  <2>1. zones' = Drop(zones, Z) /\ UNCHANGED <<rows, born, zseq>>
    BY <1>2 DEF DeleteZone
  <2>2. \A i \in DOMAIN rows : rows[i].zid \in DOMAIN zones \ Z
    BY DEF IInv, ZoneLive, ReferencedZone
  <2> HIDE DEF Z
  <2> QED
    BY <2>1, <2>2
       DEF Drop, NamesInv, IInv, TypeOK, IdsBounded, ZoneLive, UniqueName, FqdnFollowsLabel
<1> QED
  BY <1>1, <1>2

-----------------------------------------------------------------------------
(* The invariant. *)

\* The invariant holds of the empty registry.
LEMMA InitIInv == Init => IInv
<1> SUFFICES ASSUME Init PROVE IInv
  OBVIOUS
<1>1. TypeOK
  BY IdleIsJob DEF Init, TypeOK
<1>2. DOMAIN rows = {} /\ DOMAIN zones = {}
  BY DEF Init
<1>3. IdsBounded /\ ZoneLive /\ UniqueName /\ FqdnFollowsLabel
  BY <1>2 DEF IdsBounded, ZoneLive, UniqueName, FqdnFollowsLabel
<1>4. CopiesSound
  BY IdleIsJob DEF Init, CopiesSound
<1> QED
  BY <1>1, <1>3, <1>4 DEF IInv

\* The two sides and the counters together are the invariant.
LEMMA Assemble ==
    ASSUME NamesInv', CopiesSound', job' \in [Handlers -> Job],
           zseq' \in Nat \ {0}, now' \in Nat \ {0}
    PROVE  IInv'
BY DEF NamesInv, IInv, TypeOK, IdsBounded

\* A step that runs no statement leaves the tables sound.
LEMMA SameTables ==
    ASSUME IInv, UNCHANGED <<zones, rows, born>>
    PROVE  NamesInv'
BY DEF NamesInv, IInv, TypeOK, IdsBounded, ZoneLive, UniqueName, FqdnFollowsLabel

\* Every step of the handlers, the reaper and the clock keeps the invariant.
LEMMA NextKeepsIInv == IInv /\ [Next]_vars => IInv'
<1> SUFFICES ASSUME IInv, [Next]_vars PROVE IInv'
  OBVIOUS
<1>1. zseq \in Nat \ {0} /\ now \in Nat \ {0} /\ job \in [Handlers -> Job] /\ CopiesSound
  BY DEF IInv, TypeOK
<1>2. ASSUME NEW h \in Handlers, StartOp(h) PROVE IInv'
  <2>1. ASSUME NEW z \in ZoneNames, CreateZone(h, z) PROVE IInv'
    <3>1. UNCHANGED <<job, now>>
      BY <2>1 DEF CreateZone
    <3>2. CopiesSound'
      BY <1>1, <3>1 DEF CopiesSound
    <3>3. NamesInv' /\ zseq' \in Nat \ {0}
      BY <2>1, ZoneStepsKeepNamesInv
    <3> QED
      BY <1>1, <3>1, <3>2, <3>3, Assemble
  <2>2. ASSUME NEW z \in ZoneNames, DeleteZoneCheck(h, z) PROVE IInv'
    <3>1. UNCHANGED <<zones, rows, zseq, now, born>>
      BY <2>2 DEF DeleteZoneCheck
    <3> QED
      BY <1>1, <2>2, <3>1, DeleteZoneCheckSound, SameTables, Assemble
  <2>3. ASSUME NEW zid \in DOMAIN zones, NEW label \in Labels, NEW f \in ClaimForms,
               NEW owner \in Owners, ClaimPrepare(h, zid, label, f[1], f[2], owner, f[3])
        PROVE  IInv'
    <3>1. UNCHANGED <<zones, rows, zseq, now, born>>
      BY <2>3 DEF ClaimPrepare
    <3>2. f[1] \in Kinds /\ f[2] \in BOOLEAN /\ f[3] \in BOOLEAN
      BY InputsAssumption
    <3>3. job' \in [Handlers -> Job] /\ CopiesSound'
      BY <2>3, <3>2, ClaimPrepareSound
    <3> QED
      BY <1>1, <3>1, <3>3, SameTables, Assemble
  <2>4. ASSUME NEW id \in DOMAIN rows, NEW cred \in Creds, NEW op \in Requests,
               NEW label \in Labels, Begin(h, op, id, cred, label)
        PROVE  IInv'
    <3>1. UNCHANGED <<zones, rows, zseq, now, born>>
      BY <2>4 DEF Begin
    <3> QED
      BY <1>1, <2>4, <3>1, BeginSound, SameTables, Assemble
  <2>5. Idle.label \in Labels
    BY IdleIsJob DEF Job
  <2> QED
    BY <1>2, <2>1, <2>2, <2>3, <2>4, <2>5 DEF StartOp
<1>3. ASSUME NEW h \in Handlers, StepOp(h) PROVE IInv'
  <2>1. CASE DeleteZone(h)
    <3>1. Answer(h) /\ now' = now
      BY <2>1 DEF DeleteZone
    <3>2. PICK z \in ZoneNames : TRUE
      BY NamesAssumption
    <3>3. NamesInv' /\ zseq' \in Nat \ {0}
      BY <2>1, <3>2, ZoneStepsKeepNamesInv
    <3> QED
      BY <1>1, <3>1, <3>3, AnswerKeepsCopies, Assemble
  <2>2. CASE ClaimInsert(h)
    <3>1. Answer(h) /\ UNCHANGED <<zseq, now>>
      BY <2>2 DEF ClaimInsert
    <3> QED
      BY <1>1, <2>2, <3>1, InsertKeepsNamesInv, AnswerKeepsCopies, Assemble
  <2>3. ASSUME NEW st \in PatchStates \cup {"active"},
               CommitRead(h) \/ RenewRead(h) \/ PatchRead(h, st) \/ PatchSpecRead(h)
                   \/ RenameRead(h) \/ ReleaseRead(h)
        PROVE  IInv'
    <3>1. UNCHANGED <<zones, rows, zseq, now, born>>
      BY <2>3 DEF CommitRead, RenewRead, PatchRead, PatchSpecRead, RenameRead,
                  ReleaseRead, Fetch
    <3> QED
      BY <1>1, <2>3, <3>1, ReadSound, SameTables, Assemble
  <2>4. CASE CommitWrite(h) \/ RenewWrite(h) \/ PatchWrite(h)
    <3>1. /\ Answer(h) /\ UNCHANGED <<zones, zseq, now, born>>
          /\ UpdateAllocation(job[h].id, job[h].al)
      BY <2>4 DEF CommitWrite, RenewWrite, PatchWrite
    <3>2. job[h].al \in Row
      BY <1>1, <2>4 DEF CommitWrite, RenewWrite, PatchWrite, Writing, CopiesSound
    <3> QED
      BY <1>1, <3>1, <3>2, UpdateKeepsNamesInv, AnswerKeepsCopies, Assemble
  <2>5. CASE RenameWrite(h)
    <3>1. Answer(h) /\ UNCHANGED <<zseq, now>>
      BY <2>5 DEF RenameWrite
    <3> QED
      BY <1>1, <2>5, <3>1, RenameKeepsNamesInv, AnswerKeepsCopies, Assemble
  <2>6. CASE ReleaseWrite(h)
    <3>1. UNCHANGED <<zones, zseq, now, born>> /\ UpdateAllocation(job[h].id, job[h].al)
      BY <2>6 DEF ReleaseWrite
    <3>2. job[h].al \in Row
      BY <1>1, <2>6 DEF ReleaseWrite, Writing, CopiesSound
    <3> QED
      BY <1>1, <2>6, <3>1, <3>2, UpdateKeepsNamesInv, ReleaseWriteSound, Assemble
  <2>7. CASE ReleaseDelete(h)
    <3>1. /\ Answer(h) /\ UNCHANGED <<zones, zseq, now, born>>
          /\ rows' = Drop(rows, {job[h].id})
      BY <2>7 DEF ReleaseDelete
    <3> QED
      BY <1>1, <3>1, DropKeepsNamesInv, AnswerKeepsCopies, Assemble
  <2> QED
    BY <1>3, <2>1, <2>2, <2>3, <2>4, <2>5, <2>6, <2>7 DEF StepOp
<1>4. ASSUME NEW h \in Handlers, Cancel(h) PROVE IInv'
  <2>1. Answer(h) /\ UNCHANGED <<zones, rows, zseq, now, born>>
    BY <1>4 DEF Cancel
  <2> QED
    BY <1>1, <2>1, SameTables, AnswerKeepsCopies, Assemble
<1>5. CASE Reap
  <2>1. /\ UNCHANGED <<zones, zseq, now, job, born>>
        /\ rows' = Drop(rows, {i \in DOMAIN rows : Expired(rows[i])})
    BY <1>5 DEF Reap
  <2>2. CopiesSound'
    BY <1>1, <2>1 DEF CopiesSound
  <2>3. NamesInv'
    BY <2>1, DropKeepsNamesInv
  <2> QED
    BY <1>1, <2>1, <2>2, <2>3, Assemble
<1>6. CASE Tick \/ UNCHANGED vars
  <2>1. UNCHANGED <<zones, rows, zseq, job, born>> /\ now' \in Nat \ {0}
    BY <1>1, <1>6 DEF Tick, vars
  <2>2. CopiesSound'
    BY <1>1, <2>1 DEF CopiesSound
  <2> QED
    BY <1>1, <2>1, <2>2, SameTables, Assemble
<1> QED
  BY <1>2, <1>3, <1>4, <1>5, <1>6 DEF Next

\* The inductive invariant holds in every reachable state of the registry.
THEOREM Invariance == Spec => []IInv
BY InitIInv, NextKeepsIInv, PTL DEF Spec

\* Rows, zones and what the handlers carry stay well typed; in particular no
\* row is ever stored under id 0.
THEOREM TypeCorrect == Spec => []TypeOK
<1>1. IInv => TypeOK
  BY DEF IInv
<1> QED
  BY Invariance, <1>1, PTL

\* No two allocations of a zone ever share a label, whatever claims and renames
\* race in the handlers.
THEOREM NamesAreUnique == Spec => []UniqueName
<1>1. IInv => UniqueName
  BY DEF IInv
<1> QED
  BY Invariance, <1>1, PTL

\* No allocation is ever left in a zone that was deleted under it, although
\* handleDeleteZone checks and deletes in two statements.
THEOREM ZonesStayLive == Spec => []ZoneLive
<1>1. IInv => ZoneLive
  BY DEF IInv
<1> QED
  BY Invariance, <1>1, PTL

\* No whole-row write from a stale copy separates an allocation's FQDN from its
\* label.
THEOREM FqdnKeepsUp == Spec => []FqdnFollowsLabel
<1>1. IInv => FqdnFollowsLabel
  BY DEF IInv
<1> QED
  BY Invariance, <1>1, PTL

-----------------------------------------------------------------------------
(* Where ids are never reused.  Postgres draws them from a sequence, so an id  *)
(* a handler read in an earlier statement still means the same allocation, or  *)
(* none: that is what the policy, the owners' scope and the Namespace rest on. *)

\* What a handler carries agrees with the row it will write to, if it is still
\* there: the owner its credential was checked for, the owner in its copy, the
\* kind its rename was checked against, the policy its claim passed.
HandSound(h) ==
    LET id == job[h].id
    IN  /\ id \in 0..born
        /\ id \in DOMAIN rows =>
               /\ job[h].cred # Admin => rows[id].owner = job[h].cred
               /\ (job[h].op \in {"patch", "commit", "renew", "release"} /\ job[h].step = "write")
                      => job[h].al.owner = rows[id].owner
               /\ (job[h].op = "rename" /\ job[h].step = "write")
                      => PolicyOk(job[h].label, rows[id].kind)
        /\ job[h].op = "claim"
               => job[h].al.trusted \/ PolicyOk(job[h].al.label, job[h].al.kind)

\* CreateZone's ON CONFLICT (name): no two zones have one name; and the sequence
\* of zone ids is ahead of the ids in use.
ZonesDistinct == /\ \A i, j \in DOMAIN zones : zones[i] = zones[j] => i = j
                 /\ \A i \in DOMAIN zones : i < zseq

PInv == /\ IInv
        /\ \A h \in Handlers : HandSound(h)
        /\ ZonesDistinct
        /\ PolicyHeld

\* What no statement changes in a row that stays, and which rows may be new.
RowKept(r, s) == /\ s.owner = r.owner /\ s.kind = r.kind
                 /\ s.trusted = r.trusted /\ s.zid = r.zid
RowsKept == /\ born' \in Nat /\ born <= born'
            /\ \A i \in DOMAIN rows' :
                   \/ i \in DOMAIN rows /\ RowKept(rows[i], rows'[i])
                   \/ i = born + 1

\* With Postgres the next allocation id was never in use.
LEMMA NewAllocationId == Engine = "postgres" => NewId(DOMAIN rows, born + 1) = born + 1
BY DEF NewId

\* A handler that did not move still agrees with the tables.
LEMMA HandKept ==
    ASSUME PInv, RowsKept, NEW h \in Handlers, job'[h] = job[h]
    PROVE  HandSound(h)'
<1>1. HandSound(h) /\ born \in Nat
  BY DEF PInv, IInv, TypeOK
<1>2. job[h].id \in 0..born' /\ job[h].id # born + 1
  BY <1>1 DEF HandSound, RowsKept
<1> QED
  BY <1>1, <1>2 DEF HandSound, RowsKept, RowKept

\* A handler at rest has no allocation in hand.
LEMMA HandIdle ==
    ASSUME IInv', NEW h \in Handlers, job'[h] = Idle
    PROVE  HandSound(h)'
<1>1. 0 \notin DOMAIN rows' /\ born' \in Nat
  BY DEF IInv, TypeOK
<1> QED
  BY <1>1 DEF HandSound, Idle

\* A step of one handler that leaves it sound leaves all of them sound.
LEMMA HandsKept ==
    ASSUME PInv, RowsKept, NEW h \in Handlers, NEW j, Goto(h, j), HandSound(h)'
    PROVE  \A g \in Handlers : HandSound(g)'
<1> TAKE g \in Handlers
<1>1. g # h => job'[g] = job[g]
  BY DEF Goto, PInv, IInv, TypeOK
<1> QED
  BY <1>1, HandKept

\* A handler that responds leaves all of them sound.
LEMMA HandsKeptByAnswer ==
    ASSUME PInv, RowsKept, IInv', NEW h \in Handlers, Answer(h)
    PROVE  \A g \in Handlers : HandSound(g)'
<1>1. Goto(h, Idle) /\ job'[h] = Idle
  BY DEF Answer, Goto, PInv, IInv, TypeOK
<1> QED
  BY <1>1, HandIdle, HandsKept

\* So does a step of the reaper or of the clock.
LEMMA HandsKeptByOthers ==
    ASSUME PInv, RowsKept, job' = job
    PROVE  \A g \in Handlers : HandSound(g)'
BY HandKept

-----------------------------------------------------------------------------
(* The statements, one by one. *)

\* A step that changes no row.
LEMMA SameRowsKept ==
    ASSUME PInv, UNCHANGED <<rows, born>>
    PROVE  RowsKept /\ PolicyHeld'
BY DEF PInv, IInv, TypeOK, RowsKept, RowKept, PolicyHeld

\* A DELETE.
LEMMA DropRowsKept ==
    ASSUME PInv, NEW K, rows' = Drop(rows, K), born' = born
    PROVE  RowsKept /\ PolicyHeld'
BY DEF PInv, IInv, TypeOK, RowsKept, RowKept, PolicyHeld, Drop

\* The whole-row UPDATE of a handler whose copy names the owner of the row.
LEMMA UpdateRowsKept ==
    ASSUME PInv, NEW id, NEW al \in Row, UpdateAllocation(id, al), born' = born,
           id \in DOMAIN rows => al.owner = rows[id].owner
    PROVE  RowsKept /\ PolicyHeld'
<1>1. /\ DOMAIN rows' = DOMAIN rows
      /\ \A i \in DOMAIN rows : rows[i] \in Row
  BY DEF UpdateAllocation, PInv, IInv, TypeOK
<1>2. \A i \in DOMAIN rows : /\ rows'[i].owner = rows[i].owner
                             /\ rows'[i].kind = rows[i].kind
                             /\ rows'[i].trusted = rows[i].trusted
                             /\ rows'[i].zid = rows[i].zid
                             /\ rows'[i].label = rows[i].label
  BY <1>1 DEF UpdateAllocation, Row
<1> QED
  BY <1>1, <1>2 DEF PInv, IInv, TypeOK, RowsKept, RowKept, PolicyHeld

\* The UPDATE of a rename: the policy was checked for the row's kind.
LEMMA RenameRowsKept ==
    ASSUME PInv, NEW h \in Handlers, RenameWrite(h)
    PROVE  RowsKept /\ PolicyHeld'
<1> DEFINE id == job[h].id
           l == job[h].label
           z == job[h].zone
           ok == id \in DOMAIN rows /\ ~ Taken(rows[id].zid, l)
<1>1. DOMAIN rows' = DOMAIN rows /\ born' = born /\ born \in Nat
  BY DEF RenameWrite, PInv, IInv, TypeOK
<1>2. \A i \in DOMAIN rows : ~ (i = id /\ ok) => rows'[i] = rows[i]
  BY DEF RenameWrite
<1>3. ok => rows'[id] = Renamed(rows[id], l, z)
  BY DEF RenameWrite, Renamed
<1>4. ok => PolicyOk(l, rows[id].kind)
  BY DEF PInv, HandSound, RenameWrite, Writing
<1>5. id \in DOMAIN rows => rows[id] \in Row
  BY DEF PInv, IInv, TypeOK
<1> HIDE DEF id, l, z, ok
<1>6. ok => RowKept(rows[id], rows'[id]) /\ rows'[id].label = l
  BY <1>3, <1>5 DEF ok, Renamed, RowKept, Row
<1>7. RowsKept
  BY <1>1, <1>2, <1>6 DEF RowsKept, RowKept
<1>8. PolicyHeld'
  BY <1>1, <1>2, <1>4, <1>6 DEF PInv, PolicyHeld, PolicyOk, RowKept
<1> QED
  BY <1>7, <1>8

\* The INSERT of a claim, under an id that was never in use.
LEMMA InsertRowsKept ==
    ASSUME Engine = "postgres", PInv, NEW h \in Handlers, ClaimInsert(h)
    PROVE  RowsKept /\ PolicyHeld'
<1> DEFINE al == job[h].al
           new == [al EXCEPT !.gen = born + 1]
<1>1. /\ al \in Row /\ born \in Nat
      /\ al.trusted \/ PolicyOk(al.label, al.kind)
  BY DEF PInv, IInv, TypeOK, CopiesSound, HandSound, ClaimInsert
<1>2. /\ new.label = al.label /\ new.kind = al.kind /\ new.trusted = al.trusted
  BY <1>1 DEF Row
<1>3. CASE rows' = Put(rows, born + 1, new) /\ born' = born + 1
  <2> HIDE DEF new
  <2>1. /\ DOMAIN rows' = DOMAIN rows \cup {born + 1}
        /\ rows'[born + 1] = new
        /\ \A i \in DOMAIN rows : i # born + 1 => rows'[i] = rows[i]
    BY <1>3 DEF Put
  <2>2. PolicyHeld'
    BY <1>1, <1>2, <2>1 DEF PInv, PolicyHeld, PolicyOk
  <2> QED
    BY <1>1, <1>3, <2>1, <2>2 DEF RowsKept, RowKept
<1>4. CASE UNCHANGED <<rows, born>>
  BY <1>4, SameRowsKept
<1> QED
  BY <1>3, <1>4, NewAllocationId DEF ClaimInsert

\* Every step keeps the rows that stay and the policy.
LEMMA NextKeepsRows ==
    ASSUME Engine = "postgres", PInv, [Next]_vars
    PROVE  RowsKept /\ PolicyHeld'
<1>1. ASSUME NEW h \in Handlers, StartOp(h) \/ Cancel(h) PROVE UNCHANGED <<rows, born>>
  BY <1>1 DEF StartOp, CreateZone, DeleteZoneCheck, ClaimPrepare, Begin, Cancel
<1>2. ASSUME NEW h \in Handlers, StepOp(h) PROVE RowsKept /\ PolicyHeld'
  <2>1. CASE DeleteZone(h)
    BY <2>1, SameRowsKept DEF DeleteZone
  <2>2. CASE ClaimInsert(h)
    BY <2>2, InsertRowsKept
  <2>3. CASE CommitRead(h) \/ RenewRead(h) \/ (\E st \in PatchStates : PatchRead(h, st))
               \/ PatchSpecRead(h) \/ RenameRead(h) \/ ReleaseRead(h)
    <3>1. UNCHANGED <<rows, born>>
      BY <2>3 DEF CommitRead, RenewRead, PatchRead, PatchSpecRead, RenameRead,
                  ReleaseRead, Fetch
    <3> QED
      BY <3>1, SameRowsKept
  <2>4. CASE CommitWrite(h) \/ RenewWrite(h) \/ PatchWrite(h) \/ ReleaseWrite(h)
    <3>1. /\ job[h].op \in {"patch", "commit", "renew", "release"}
          /\ job[h].step = "write"
          /\ UpdateAllocation(job[h].id, job[h].al) /\ born' = born
      BY <2>4 DEF CommitWrite, RenewWrite, PatchWrite, ReleaseWrite, Writing
    <3>2. /\ job[h].al \in Row
          /\ job[h].id \in DOMAIN rows => job[h].al.owner = rows[job[h].id].owner
      BY <3>1 DEF PInv, IInv, CopiesSound, HandSound
    <3> QED
      BY <3>1, <3>2, UpdateRowsKept
  <2>5. CASE RenameWrite(h)
    BY <2>5, RenameRowsKept
  <2>6. CASE ReleaseDelete(h)
    BY <2>6, DropRowsKept DEF ReleaseDelete
  <2> QED
    BY <1>2, <2>1, <2>2, <2>3, <2>4, <2>5, <2>6 DEF StepOp
<1>3. CASE Reap
  BY <1>3, DropRowsKept DEF Reap
<1>4. CASE Tick \/ UNCHANGED vars
  BY <1>4, SameRowsKept DEF Tick, vars
<1> QED
  BY <1>1, <1>2, <1>3, <1>4, SameRowsKept DEF Next

\* What the lookup of an operation puts in the handler's hand is the row's own
\* owner, or a label the row's kind may have.
LEMMA FetchedHand ==
    ASSUME PInv, IInv', RowsKept, NEW h \in Handlers, NEW check, NEW al,
           Fetch(h, check, al), job[h].op \in ByIdOps,
           (job[h].id \in DOMAIN rows /\ check) =>
               IF job[h].op = "rename" THEN PolicyOk(job[h].label, Found(h).kind)
                                       ELSE al.owner = Found(h).owner
    PROVE  \A g \in Handlers : HandSound(g)'
<1> DEFINE j == [job[h] EXCEPT !.step = "write", !.al = al, !.zone = zones[Found(h).zid]]
<1>1. CASE job[h].id \in DOMAIN rows /\ check /\ Goto(h, j)
  <2>1. job[h] \in Job /\ HandSound(h) /\ job'[h] = j
    BY <1>1 DEF Goto, PInv, IInv, TypeOK
  <2>2. /\ j.op = job[h].op /\ j.id = job[h].id /\ j.cred = job[h].cred
        /\ j.label = job[h].label /\ j.al = al
    BY <2>1 DEF Job
  <2>3. UNCHANGED <<rows, born>>
    BY DEF Fetch
  <2> HIDE DEF j
  <2>4. HandSound(h)'
    BY <1>1, <2>1, <2>2, <2>3 DEF HandSound, Found, ByIdOps
  <2> QED
    BY <1>1, <2>4, HandsKept
<1>2. CASE Answer(h)
  BY <1>2, HandsKeptByAnswer
<1> QED
  BY <1>1, <1>2 DEF Fetch

\* The lookups of commit, renew, patch, rename and release.
LEMMA ReadHand ==
    ASSUME PInv, IInv', RowsKept, NEW h \in Handlers,
           CommitRead(h) \/ RenewRead(h) \/ (\E st \in PatchStates : PatchRead(h, st))
               \/ PatchSpecRead(h) \/ RenameRead(h) \/ ReleaseRead(h)
    PROVE  \A g \in Handlers : HandSound(g)'
<1>1. job[h].id \in DOMAIN rows => Found(h) \in Row
  BY DEF PInv, IInv, TypeOK, Found
<1>2. CASE CommitRead(h)
  <2>1. job[h].id \in DOMAIN rows =>
            [Found(h) EXCEPT !.state = "active", !.exp = Never, !.patched = FALSE].owner = Found(h).owner
    BY <1>1 DEF Row
  <2> QED
    BY <1>2, <2>1, FetchedHand DEF CommitRead, Reading, ByIdOps
<1>3. CASE RenewRead(h)
  <2>1. job[h].id \in DOMAIN rows =>
            [Found(h) EXCEPT !.exp = now + HoldTTL].owner = Found(h).owner
    BY <1>1 DEF Row
  <2> QED
    BY <1>3, <2>1, FetchedHand DEF RenewRead, Reading, ByIdOps
<1>4. ASSUME NEW st \in PatchStates, PatchRead(h, st)
      PROVE  \A g \in Handlers : HandSound(g)'
  <2>1. job[h].id \in DOMAIN rows => [Found(h) EXCEPT !.state = st, !.patched = (st = "pending")].owner = Found(h).owner
    BY <1>1 DEF Row
  <2> QED
    BY <1>4, <2>1, FetchedHand DEF PatchRead, Reading, ByIdOps
<1>5. CASE PatchSpecRead(h)
  BY <1>5, FetchedHand DEF PatchSpecRead, Reading, ByIdOps
<1>6. CASE RenameRead(h)
  BY <1>6, FetchedHand DEF RenameRead, Reading, ByIdOps
<1>7. CASE ReleaseRead(h)
  <2>1. job[h].id \in DOMAIN rows =>
            [Found(h) EXCEPT !.state = "released", !.exp = Never, !.patched = FALSE].owner = Found(h).owner
    BY <1>1 DEF Row
  <2> QED
    BY <1>7, <2>1, FetchedHand DEF ReleaseRead, Reading, ByIdOps
<1> QED
  BY <1>2, <1>3, <1>4, <1>5, <1>6, <1>7

\* A handler that starts an operation carries no row yet: the id its credential
\* was checked for, or the label its claim's policy was checked for.
LEMMA StartedHand ==
    ASSUME PInv, IInv', RowsKept, NEW h \in Handlers, StartOp(h)
    PROVE  \A g \in Handlers : HandSound(g)'
<1>0. job \in [Handlers -> Job] /\ 0 \notin DOMAIN rows /\ born \in Nat
  BY DEF PInv, IInv, TypeOK
<1>1. ASSUME NEW z \in ZoneNames, CreateZone(h, z) PROVE job' = job
  BY <1>1 DEF CreateZone
<1>2. ASSUME NEW z \in ZoneNames, DeleteZoneCheck(h, z) PROVE \A g \in Handlers : HandSound(g)'
  <2> DEFINE j == [Idle EXCEPT !.op = "delzone", !.step = "write", !.zone = z]
  <2>1. Goto(h, j) /\ UNCHANGED <<rows, born>>
    BY <1>2 DEF DeleteZoneCheck
  <2>2. j.id = 0 /\ j.op = "delzone"
    BY DEF Idle
  <2> HIDE DEF j
  <2>3. job'[h] = j
    BY <1>0, <2>1 DEF Goto
  <2>4. HandSound(h)'
    BY <1>0, <2>1, <2>2, <2>3 DEF HandSound
  <2> QED
    BY <2>1, <2>4, HandsKept
<1>3. ASSUME NEW zid \in DOMAIN zones, NEW label \in Labels, NEW f \in ClaimForms,
             NEW owner \in Owners, ClaimPrepare(h, zid, label, f[1], f[2], owner, f[3])
      PROVE  \A g \in Handlers : HandSound(g)'
  <2> DEFINE al == [gen |-> 0, zid |-> zid, label |-> label,
                    fqdn |-> <<zones[zid], label>>,
                    kind |-> f[1], trusted |-> f[2], owner |-> owner,
                    state |-> IF f[3] THEN "pending" ELSE "active",
                    exp   |-> IF f[3] THEN now + HoldTTL ELSE Never,
                    patched |-> FALSE]
             j == [Idle EXCEPT !.op = "claim", !.step = "write", !.zone = zones[zid], !.al = al]
  <2>1. Goto(h, j) /\ UNCHANGED <<rows, born>> /\ (f[2] \/ PolicyOk(label, f[1]))
    BY <1>3 DEF ClaimPrepare
  <2>2. al.trusted = f[2] /\ al.label = label /\ al.kind = f[1]
    OBVIOUS
  <2> HIDE DEF al
  <2>3. j.id = 0 /\ j.op = "claim" /\ j.al = al
    BY DEF Idle
  <2> HIDE DEF j
  <2>4. job'[h] = j
    BY <1>0, <2>1 DEF Goto
  <2>5. HandSound(h)'
    BY <1>0, <2>1, <2>2, <2>3, <2>4 DEF HandSound
  <2> QED
    BY <2>1, <2>5, HandsKept
<1>4. ASSUME NEW id \in DOMAIN rows, NEW cred \in Creds, NEW op \in Requests,
             NEW label \in Labels, Begin(h, op, id, cred, label)
      PROVE  \A g \in Handlers : HandSound(g)'
  <2> DEFINE j == [Idle EXCEPT !.op = op, !.step = "read", !.cred = cred, !.id = id,
                               !.label = label]
  <2>1. /\ Goto(h, j) /\ UNCHANGED <<rows, born>>
        /\ cred # Admin => rows[id].owner = cred
    BY <1>4 DEF Begin
  <2>2. j.id = id /\ j.op = op /\ j.step = "read" /\ j.cred = cred
    BY DEF Idle
  <2> HIDE DEF j
  <2>3. job'[h] = j
    BY <1>0, <2>1 DEF Goto
  <2>4. op # "claim" /\ id \in 0..born
    BY InputsAssumption DEF ByIdOps, PInv, IInv, IdsBounded
  <2>5. HandSound(h)'
    BY <2>1, <2>2, <2>3, <2>4 DEF HandSound
  <2> QED
    BY <2>1, <2>5, HandsKept
<1>5. Idle.label \in Labels
  BY IdleIsJob DEF Job
<1> QED
  BY <1>1, <1>2, <1>3, <1>4, <1>5, HandsKeptByOthers DEF StartOp

\* Between its two statements a release still holds the id its credential was
\* checked for.
LEMMA ReleaseWriteHand ==
    ASSUME PInv, RowsKept, NEW h \in Handlers, ReleaseWrite(h)
    PROVE  \A g \in Handlers : HandSound(g)'
<1> DEFINE j == [job[h] EXCEPT !.step = "delete", !.al = NoRow]
<1>1. Goto(h, j) /\ job[h].op = "release"
  BY DEF ReleaseWrite, Writing
<1>2. job[h] \in Job /\ HandSound(h) /\ job'[h] = j /\ born \in Nat
  BY <1>1 DEF Goto, PInv, IInv, TypeOK
<1>3. j.op = "release" /\ j.step = "delete" /\ j.id = job[h].id /\ j.cred = job[h].cred
  BY <1>1, <1>2 DEF Job
<1> HIDE DEF j
<1>4. HandSound(h)'
  BY <1>2, <1>3 DEF HandSound, RowsKept, RowKept
<1> QED
  BY <1>1, <1>4, HandsKept

\* Two statements write the zones table.
LEMMA ZoneStatements ==
    ASSUME NEW h \in Handlers, StartOp(h) \/ StepOp(h) \/ Cancel(h)
    PROVE  \/ UNCHANGED <<zones, zseq>>
           \/ \E z \in ZoneNames : CreateZone(h, z)
           \/ DeleteZone(h)
BY DEF StartOp, StepOp, Cancel, DeleteZoneCheck, ClaimPrepare, Begin, ClaimInsert,
   CommitRead, CommitWrite, RenewRead, RenewWrite, PatchRead, PatchSpecRead, PatchWrite,
   RenameRead, RenameWrite, ReleaseRead, ReleaseWrite, ReleaseDelete, Fetch

\* Creating a zone consults the unique name and the sequence; deleting one frees
\* its name.
LEMMA ZonesStayDistinct ==
    ASSUME Engine = "postgres", PInv, [Next]_vars
    PROVE  ZonesDistinct'
<1>0. zseq \in Nat /\ DOMAIN zones \subseteq Nat
  BY DEF PInv, IInv, TypeOK
<1>1. ASSUME NEW h \in Handlers, NEW z \in ZoneNames, CreateZone(h, z)
      PROVE  ZonesDistinct'
  <2>1. /\ zones' = Put(zones, zseq, z) /\ zseq' = zseq + 1
        /\ ~ \E i \in DOMAIN zones : zones[i] = z
    BY <1>1 DEF CreateZone, NewId
  <2> QED
    BY <1>0, <2>1 DEF Put, PInv, ZonesDistinct
<1>2. ASSUME NEW h \in Handlers, DeleteZone(h) PROVE ZonesDistinct'
  <2> DEFINE Z == {i \in DOMAIN zones : zones[i] = job[h].zone /\ ~ ReferencedZone(i)}
  <2>1. zones' = Drop(zones, Z) /\ zseq' = zseq
    BY <1>2 DEF DeleteZone
  <2> HIDE DEF Z
  <2> QED
    BY <2>1 DEF Drop, PInv, ZonesDistinct
<1>3. ASSUME UNCHANGED <<zones, zseq>> PROVE ZonesDistinct'
  BY <1>3 DEF PInv, ZonesDistinct
<1>4. ASSUME NEW h \in Handlers, StartOp(h) \/ StepOp(h) \/ Cancel(h)
      PROVE  \/ UNCHANGED <<zones, zseq>>
             \/ \E z \in ZoneNames : CreateZone(h, z)
             \/ DeleteZone(h)
  BY <1>4, ZoneStatements
<1>5. CASE Reap \/ Tick \/ UNCHANGED vars
  BY <1>3, <1>5 DEF Reap, Tick, vars
<1> QED
  BY <1>1, <1>2, <1>3, <1>4, <1>5 DEF Next

\* Every step keeps the stronger invariant.
LEMMA NextKeepsPInv ==
    ASSUME Engine = "postgres"
    PROVE  PInv /\ [Next]_vars => PInv'
<1> SUFFICES ASSUME PInv, [Next]_vars PROVE PInv'
  OBVIOUS
<1>1. IInv'
  BY NextKeepsIInv DEF PInv
<1>2. RowsKept /\ PolicyHeld' /\ ZonesDistinct'
  BY NextKeepsRows, ZonesStayDistinct
<1>3. ASSUME NEW h \in Handlers, StartOp(h) PROVE \A g \in Handlers : HandSound(g)'
  BY <1>1, <1>2, <1>3, StartedHand
<1>4. ASSUME NEW h \in Handlers, StepOp(h) PROVE \A g \in Handlers : HandSound(g)'
  <2>1. CASE CommitRead(h) \/ RenewRead(h) \/ (\E st \in PatchStates : PatchRead(h, st))
               \/ PatchSpecRead(h) \/ RenameRead(h) \/ ReleaseRead(h)
    BY <1>1, <1>2, <2>1, ReadHand
  <2>2. CASE ReleaseWrite(h)
    BY <1>2, <2>2, ReleaseWriteHand
  <2>3. CASE DeleteZone(h) \/ ClaimInsert(h) \/ CommitWrite(h) \/ RenewWrite(h)
               \/ PatchWrite(h) \/ RenameWrite(h) \/ ReleaseDelete(h)
    <3>1. Answer(h)
      BY <2>3 DEF DeleteZone, ClaimInsert, CommitWrite, RenewWrite, PatchWrite,
                  RenameWrite, ReleaseDelete
    <3> QED
      BY <1>1, <1>2, <3>1, HandsKeptByAnswer
  <2> QED
    BY <1>4, <2>1, <2>2, <2>3 DEF StepOp
<1>5. ASSUME NEW h \in Handlers, Cancel(h) PROVE \A g \in Handlers : HandSound(g)'
  BY <1>1, <1>2, <1>5, HandsKeptByAnswer DEF Cancel
<1>6. ASSUME Reap \/ Tick \/ UNCHANGED vars PROVE \A g \in Handlers : HandSound(g)'
  BY <1>2, <1>6, HandsKeptByOthers DEF Reap, Tick, vars
<1>7. \A g \in Handlers : HandSound(g)'
  BY <1>3, <1>4, <1>5, <1>6 DEF Next
<1> QED
  BY <1>1, <1>2, <1>7 DEF PInv

LEMMA InitPInv == Init => PInv
<1> SUFFICES ASSUME Init PROVE PInv
  OBVIOUS
<1>1. IInv
  BY InitIInv
<1>2. DOMAIN rows = {} /\ DOMAIN zones = {} /\ born = 0 /\ \A h \in Handlers : job[h] = Idle
  BY DEF Init
<1>3. \A h \in Handlers : HandSound(h)
  <2>1. Idle.id = 0 /\ Idle.op = "none"
    BY DEF Idle
  <2> QED
    BY <1>2, <2>1 DEF HandSound
<1> QED
  BY <1>1, <1>2, <1>3 DEF PInv, ZonesDistinct, PolicyHeld

\* With ids that are never reused, what handlers read of a row and of its zone stays true
\* of them for as long as the row is there, and the policy is kept.
THEOREM PostgresInvariance ==
    ASSUME Engine = "postgres"
    PROVE  Spec => []PInv
BY InitPInv, NextKeepsPInv, PTL DEF Spec

\* Neither a claim nor a rename decided on a copy read earlier gives a tenant a blocked
\* label, nor does a write of a whole row that was read earlier.
THEOREM PolicyIsHeld ==
    ASSUME Engine = "postgres"
    PROVE  Spec => []PolicyHeld
<1>1. PInv => PolicyHeld
  BY DEF PInv
<1> QED
  BY PostgresInvariance, <1>1, PTL

\* A handler's step moves that handler only.
LEMMA StepMovesOne ==
    ASSUME PInv, NEW h \in Handlers, StepOp(h), NEW g \in Handlers, g # h
    PROVE  job'[g] = job[g]
<1>1. Answer(h) \/ \E j : Goto(h, j)
  BY DEF StepOp, DeleteZone, ClaimInsert, CommitRead, CommitWrite, RenewRead, RenewWrite,
     PatchRead, PatchSpecRead, PatchWrite, RenameRead, RenameWrite, ReleaseRead,
     ReleaseWrite, ReleaseDelete, Fetch
<1> QED
  BY <1>1 DEF Answer, Goto, PInv, IInv, TypeOK

\* A statement of a handler changes the row it was authorized for, or adds one.
LEMMA StepChangesOwnRow ==
    ASSUME Engine = "postgres", PInv, NEW h \in Handlers, StepOp(h),
           NEW i \in DOMAIN rows, i # job[h].id
    PROVE  i \in DOMAIN rows' /\ rows'[i] = rows[i]
<1>1. CASE ClaimInsert(h)
  <2>1. i # born + 1
    BY DEF PInv, IInv, TypeOK, IdsBounded
  <2> QED
    BY <1>1, <2>1, NewAllocationId DEF ClaimInsert, Put
<1>2. CASE CommitWrite(h) \/ RenewWrite(h) \/ PatchWrite(h) \/ ReleaseWrite(h)
  BY <1>2 DEF CommitWrite, RenewWrite, PatchWrite, ReleaseWrite, UpdateAllocation
<1>3. CASE RenameWrite(h)
  BY <1>3 DEF RenameWrite
<1>4. CASE ReleaseDelete(h)
  BY <1>4 DEF ReleaseDelete, Drop
<1>5. ASSUME rows' = rows PROVE i \in DOMAIN rows' /\ rows'[i] = rows[i]
  BY <1>5
<1> QED
  BY <1>1, <1>2, <1>3, <1>4, <1>5
     DEF StepOp, DeleteZone, CommitRead, RenewRead, PatchRead, PatchSpecRead, RenameRead,
         ReleaseRead, Fetch

\* A request made with an owner token changes or deletes that owner's
\* allocations only, however long ago canTouchAllocation looked.
THEOREM OwnersAreScoped ==
    ASSUME Engine = "postgres"
    PROVE  Spec => OwnerScope
<1>1. ASSUME PInv, [Next]_vars, NEW h \in Handlers,
             job[h].cred # Admin, job'[h] # job[h],
             NEW i \in DOMAIN rows, rows[i].owner # job[h].cred
      PROVE  i \in DOMAIN rows' /\ rows'[i] = rows[i]
  <2>1. CASE StepOp(h)
    <3>1. i # job[h].id
      BY <1>1 DEF PInv, HandSound
    <3> QED
      BY <1>1, <2>1, <3>1, StepChangesOwnRow
  <2>2. CASE StartOp(h) \/ Cancel(h)
    BY <2>2 DEF StartOp, Cancel, CreateZone, DeleteZoneCheck, ClaimPrepare, Begin
  <2>3. ASSUME NEW g \in Handlers, g # h, StartOp(g) \/ StepOp(g) \/ Cancel(g) PROVE FALSE
    <3>1. CASE StepOp(g)
      BY <1>1, <2>3, <3>1, StepMovesOne
    <3>2. CASE StartOp(g) \/ Cancel(g)
      <4>1. job' = job \/ Answer(g) \/ \E j : Goto(g, j)
        BY <3>2 DEF StartOp, Cancel, CreateZone, DeleteZoneCheck, ClaimPrepare, Begin
      <4> QED
        BY <1>1, <2>3, <4>1 DEF Answer, Goto, PInv, IInv, TypeOK
    <3> QED
      BY <2>3, <3>1, <3>2
  <2>4. CASE Reap \/ Tick \/ UNCHANGED vars
    BY <1>1, <2>4 DEF Reap, Tick, vars
  <2> QED
    BY <1>1, <2>1, <2>2, <2>3, <2>4 DEF Next
<1>2. PInv /\ [Next]_vars =>
        [\A h \in Handlers :
            (job[h].cred # Admin /\ job'[h] # job[h]) =>
               \A i \in DOMAIN rows :
                   rows[i].owner # job[h].cred =>
                       i \in DOMAIN rows' /\ rows'[i] = rows[i]]_vars
  BY <1>1
<1> QED
  BY <1>2, PostgresInvariance, PTL DEF Spec, OwnerScope

-----------------------------------------------------------------------------
(* The registry implements the Namespace. *)

\* Names and holders, for any contents R and Z of the two tables.
NameIn(R, Z, i) == <<Z[R[i].zid], R[i].label>>
HolderIn(R, Z) == [n \in Names |->
                      IF \E i \in DOMAIN R : NameIn(R, Z, i) = n
                      THEN R[CHOOSE i \in DOMAIN R : NameIn(R, Z, i) = n].owner
                      ELSE Nobody]

\* Every row has a hostname and an owner, and its hostname is its own.
NamesSound(R, Z) ==
    /\ \A i \in DOMAIN R : NameIn(R, Z, i) \in Names /\ R[i].owner \in Owners
    /\ \A i, j \in DOMAIN R : NameIn(R, Z, i) = NameIn(R, Z, j) => i = j

LEMMA HolderIsHolderIn == Holder = HolderIn(rows, zones)
BY DEF Holder, HolderIn, NameOf, NameIn

\* A hostname is held by the owner of its row, and by nobody when it has none.
LEMMA HolderOfName ==
    ASSUME NEW R, NEW Z, NEW n \in Names, NamesSound(R, Z)
    PROVE  /\ \A i \in DOMAIN R : NameIn(R, Z, i) = n => HolderIn(R, Z)[n] = R[i].owner
           /\ (\A i \in DOMAIN R : NameIn(R, Z, i) # n) => HolderIn(R, Z)[n] = Nobody
BY Zenon DEF HolderIn, NamesSound

\* The unique index, the unique zone names and the foreign key make hostnames sound.
LEMMA NamesIdentify == PInv => NamesSound(rows, zones)
<1> SUFFICES ASSUME PInv PROVE NamesSound(rows, zones)
  OBVIOUS
<1>1. \A i \in DOMAIN rows : rows[i].label \in Labels /\ rows[i].owner \in Owners
  BY DEF PInv, IInv, TypeOK, Row
<1>2. \A i \in DOMAIN rows : rows[i].zid \in DOMAIN zones /\ zones[rows[i].zid] \in ZoneNames
  BY DEF PInv, IInv, TypeOK, ZoneLive
<1>3. ASSUME NEW i \in DOMAIN rows, NEW j \in DOMAIN rows,
             NameIn(rows, zones, i) = NameIn(rows, zones, j)
      PROVE  i = j
  <2>1. zones[rows[i].zid] = zones[rows[j].zid] /\ rows[i].label = rows[j].label
    BY <1>3 DEF NameIn
  <2> QED
    BY <1>2, <2>1 DEF PInv, IInv, UniqueName, ZonesDistinct
<1> QED
  BY <1>1, <1>2, <1>3 DEF NameIn, Names, NamesSound

\* No step gives the zone of a row another name.
LEMMA ZonesOfRowsKept ==
    ASSUME Engine = "postgres", PInv, [Next]_vars, NEW i \in DOMAIN rows
    PROVE  zones'[rows[i].zid] = zones[rows[i].zid]
<1>1. rows[i].zid \in DOMAIN zones /\ rows[i].zid # zseq
  BY DEF PInv, IInv, TypeOK, ZoneLive, ZonesDistinct
<1>2. ASSUME NEW h \in Handlers, NEW z \in ZoneNames, CreateZone(h, z)
      PROVE  zones'[rows[i].zid] = zones[rows[i].zid]
  BY <1>1, <1>2 DEF CreateZone, NewId, Put
<1>3. ASSUME NEW h \in Handlers, DeleteZone(h)
      PROVE  zones'[rows[i].zid] = zones[rows[i].zid]
  <2> DEFINE Z == {k \in DOMAIN zones : zones[k] = job[h].zone /\ ~ ReferencedZone(k)}
  <2>1. zones' = Drop(zones, Z)
    BY <1>3 DEF DeleteZone
  <2>2. rows[i].zid \notin Z
    BY DEF ReferencedZone
  <2> HIDE DEF Z
  <2> QED
    BY <1>1, <2>1, <2>2 DEF Drop
<1>4. CASE Reap \/ Tick \/ UNCHANGED vars
  BY <1>4 DEF Reap, Tick, vars
<1> QED
  BY <1>2, <1>3, <1>4, ZoneStatements DEF Next

\* Which rows a step may add or rename.
NameKept(i) == /\ i \in DOMAIN rows
               /\ rows'[i].owner = rows[i].owner
               /\ NameIn(rows', zones', i) = NameIn(rows, zones, i)

\* A step that adds and renames nothing gives hostnames up, or does nothing.
LEMMA KeepingIsGivingUp ==
    ASSUME NamesSound(rows, zones), NamesSound(rows', zones'),
           \A i \in DOMAIN rows' : NameKept(i)
    PROVE  Abstract!GiveUp
<1> DEFINE H == HolderIn(rows, zones)
           G == HolderIn(rows', zones')
<1>1. ASSUME NEW n \in Names PROVE G[n] = IF G[n] = Nobody THEN Nobody ELSE H[n]
  <2>1. CASE \E i \in DOMAIN rows' : NameIn(rows', zones', i) = n
    <3>1. PICK i \in DOMAIN rows' : NameIn(rows', zones', i) = n
      BY <2>1
    <3>2. G[n] = rows'[i].owner /\ H[n] = rows[i].owner
      BY <3>1, HolderOfName DEF NameKept
    <3> QED
      BY <3>1, <3>2 DEF NameKept
  <2>2. CASE \A i \in DOMAIN rows' : NameIn(rows', zones', i) # n
    BY <2>2, HolderOfName
  <2> QED
    BY <2>1, <2>2
<1>2. G = [n \in Names |-> G[n]]
  BY DEF HolderIn
<1> HIDE DEF H, G
<1>3. G = [n \in Names |-> IF G[n] = Nobody THEN Nobody ELSE H[n]]
  BY <1>1, <1>2
<1>4. Holder = H /\ Holder' = G
  BY HolderIsHolderIn DEF H, G, Holder, HolderIn, NameOf, NameIn
<1> QED
  BY <1>3, <1>4 DEF Abstract!GiveUp

\* They are sound after a step as well.
LEMMA NamesIdentifyNext == PInv' => NamesSound(rows', zones')
<1>1. NamesSound(rows, zones)' <=> NamesSound(rows', zones')
  BY DEF NamesSound, NameIn
<1>2. PInv' => NamesSound(rows, zones)'
  BY NamesIdentify, PTL
<1> QED
  BY <1>1, <1>2

\* The INSERT of a claim grants a hostname that nobody held.
LEMMA InsertIsGrant ==
    ASSUME Engine = "postgres", PInv, PInv', NEW h \in Handlers, ClaimInsert(h),
           rows' # rows
    PROVE  \E n \in Names, o \in Owners : Abstract!Grant(n, o)
<1> DEFINE H == HolderIn(rows, zones)
           G == HolderIn(rows', zones')
           new == [job[h].al EXCEPT !.gen = born + 1]
           n == NameIn(rows', zones', born + 1)
<1>1. /\ rows' = Put(rows, born + 1, new) /\ zones' = zones
      /\ born + 1 \notin DOMAIN rows
  BY NewAllocationId DEF ClaimInsert, PInv, IInv, TypeOK, IdsBounded
<1> HIDE DEF new
<1>2. /\ DOMAIN rows' = DOMAIN rows \cup {born + 1}
      /\ rows'[born + 1] = new
      /\ \A i \in DOMAIN rows : rows'[i] = rows[i]
  BY <1>1 DEF Put
<1>3. NamesSound(rows, zones) /\ NamesSound(rows', zones')
  BY NamesIdentify, NamesIdentifyNext
<1>4. \A i \in DOMAIN rows : NameIn(rows', zones', i) = NameIn(rows, zones, i)
  BY <1>1, <1>2 DEF NameIn
<1>5. n \in Names /\ new.owner \in Owners
  BY <1>2, <1>3 DEF NamesSound
<1>6. \A i \in DOMAIN rows : NameIn(rows, zones, i) # n
  BY <1>1, <1>2, <1>3, <1>4 DEF NamesSound
<1>7. H[n] = Nobody /\ G[n] = new.owner
  BY <1>2, <1>3, <1>5, <1>6, HolderOfName
<1>8. ASSUME NEW m \in Names, m # n PROVE G[m] = H[m]
  <2>1. CASE \E i \in DOMAIN rows : NameIn(rows, zones, i) = m
    <3>1. PICK i \in DOMAIN rows : NameIn(rows, zones, i) = m
      BY <2>1
    <3> QED
      BY <1>2, <1>3, <1>4, <3>1, HolderOfName
  <2>2. CASE \A i \in DOMAIN rows : NameIn(rows, zones, i) # m
    <3>1. \A i \in DOMAIN rows' : NameIn(rows', zones', i) # m
      BY <1>2, <1>4, <1>8, <2>2
    <3> QED
      BY <1>3, <2>2, <3>1, HolderOfName
  <2> QED
    BY <2>1, <2>2
<1>9. H = [m \in Names |-> H[m]] /\ G = [m \in Names |-> G[m]]
  BY DEF HolderIn
<1>10. Holder = H /\ Holder' = G
  BY HolderIsHolderIn DEF Holder, HolderIn, NameOf, NameIn
<1> HIDE DEF H, G, n
<1>11. G = [H EXCEPT ![n] = new.owner]
  BY <1>5, <1>7, <1>8, <1>9
<1> QED
  BY <1>5, <1>7, <1>10, <1>11 DEF Abstract!Grant

\* The UPDATE of a rename moves the owner's claim to a hostname of the same zone
\* that nobody held.
LEMMA RenameIsMove ==
    ASSUME Engine = "postgres", PInv, PInv', NEW h \in Handlers, RenameWrite(h),
           ~ \A i \in DOMAIN rows' : NameKept(i)
    PROVE  \E n, m \in Names : Abstract!Move(n, m)
<1> DEFINE H == HolderIn(rows, zones)
           G == HolderIn(rows', zones')
           k == job[h].id
           n == NameIn(rows, zones, k)
           m == NameIn(rows', zones', k)
<1>1. /\ zones' = zones /\ DOMAIN rows' = DOMAIN rows
      /\ \A i \in DOMAIN rows : i # k => rows'[i] = rows[i]
  BY DEF RenameWrite
<1>2. \A i \in DOMAIN rows : i # k => NameKept(i)
  BY <1>1 DEF NameKept, NameIn
<1>3. k \in DOMAIN rows /\ ~ NameKept(k)
  BY <1>1, <1>2
<1>4. rows'[k].zid = rows[k].zid /\ rows'[k].owner = rows[k].owner
  <2>1. RowsKept /\ k # born + 1
    BY <1>3, RenameRowsKept DEF PInv, IInv, TypeOK, IdsBounded
  <2> QED
    BY <1>1, <1>3, <2>1 DEF RowsKept, RowKept
<1>5. NamesSound(rows, zones) /\ NamesSound(rows', zones')
  BY NamesIdentify, NamesIdentifyNext
<1>6. n \in Names /\ m \in Names /\ m # n
  BY <1>1, <1>3, <1>4, <1>5 DEF NamesSound, NameKept
<1>7. n[1] = m[1]
  BY <1>1, <1>4 DEF NameIn
<1>8. \A i \in DOMAIN rows : NameIn(rows, zones, i) # m
  BY <1>1, <1>2, <1>3, <1>5, <1>6 DEF NamesSound, NameKept
<1>9. \A i \in DOMAIN rows' : NameIn(rows', zones', i) # n
  BY <1>1, <1>2, <1>3, <1>5, <1>6 DEF NamesSound, NameKept
<1>10. /\ H[n] = rows[k].owner /\ rows[k].owner # Nobody
       /\ H[m] = Nobody /\ G[n] = Nobody /\ G[m] = rows[k].owner
  <2>1. rows[k].owner \in Owners
    BY <1>3, <1>5 DEF NamesSound
  <2> QED
    BY <1>1, <1>3, <1>4, <1>5, <1>6, <1>8, <1>9, <2>1, HolderOfName, NamesAssumption
<1>11. ASSUME NEW p \in Names, p # n, p # m PROVE G[p] = H[p]
  <2>1. CASE \E i \in DOMAIN rows : NameIn(rows, zones, i) = p
    <3>1. PICK i \in DOMAIN rows : NameIn(rows, zones, i) = p
      BY <2>1
    <3>2. i # k
      BY <1>11, <3>1
    <3> HIDE DEF k, n, m
    <3> QED
      BY <1>1, <1>2, <1>5, <3>1, <3>2, HolderOfName DEF NameKept
  <2>2. CASE \A i \in DOMAIN rows : NameIn(rows, zones, i) # p
    <3>1. \A i \in DOMAIN rows' : NameIn(rows', zones', i) # p
      BY <1>1, <1>2, <1>11, <2>2 DEF NameKept
    <3> QED
      BY <1>5, <2>2, <3>1, HolderOfName
  <2> QED
    BY <2>1, <2>2
<1>12. H = [p \in Names |-> H[p]] /\ G = [p \in Names |-> G[p]]
  BY DEF HolderIn
<1>13. Holder = H /\ Holder' = G
  BY HolderIsHolderIn DEF Holder, HolderIn, NameOf, NameIn
<1> HIDE DEF H, G, n, m, k
<1>14. G = [H EXCEPT ![n] = Nobody, ![m] = H[n]]
  BY <1>6, <1>10, <1>11, <1>12
<1> QED
  BY <1>6, <1>7, <1>10, <1>13, <1>14 DEF Abstract!Move

\* Every other step keeps the hostname and the owner of every row it leaves.
LEMMA OthersKeepNames ==
    ASSUME Engine = "postgres", PInv, [Next]_vars,
           ~ \E h \in Handlers : RenameWrite(h) \/ (ClaimInsert(h) /\ rows' # rows)
    PROVE  \A i \in DOMAIN rows' : NameKept(i)
<1> DEFINE LabelsKept == /\ DOMAIN rows' \subseteq DOMAIN rows
                        /\ \A i \in DOMAIN rows' : rows'[i].label = rows[i].label
<1>1. LabelsKept
  <2>1. ASSUME rows' = rows PROVE LabelsKept
    BY <2>1
  <2>2. ASSUME NEW id, NEW al, UpdateAllocation(id, al) PROVE LabelsKept
    <3>1. \A i \in DOMAIN rows : rows[i] \in Row
      BY DEF PInv, IInv, TypeOK
    <3> QED
      BY <2>2, <3>1 DEF UpdateAllocation, Row
  <2>3. ASSUME NEW K, rows' = Drop(rows, K) PROVE LabelsKept
    BY <2>3 DEF Drop
  <2>4. ASSUME NEW h \in Handlers, StartOp(h) \/ Cancel(h) PROVE rows' = rows
    BY <2>4 DEF StartOp, Cancel, CreateZone, DeleteZoneCheck, ClaimPrepare, Begin
  <2>5. ASSUME NEW h \in Handlers, StepOp(h)
        PROVE  \/ rows' = rows
               \/ UpdateAllocation(job[h].id, job[h].al)
               \/ rows' = Drop(rows, {job[h].id})
    BY <2>5 DEF StepOp, DeleteZone, CommitRead, CommitWrite, RenewRead, RenewWrite,
       PatchRead, PatchSpecRead, PatchWrite, RenameRead, ReleaseRead, ReleaseWrite,
       ReleaseDelete, Fetch
  <2>6. CASE Reap
    BY <2>3, <2>6 DEF Reap
  <2>7. CASE Tick \/ UNCHANGED vars
    BY <2>1, <2>7 DEF Tick, vars
  <2> QED
    BY <2>1, <2>2, <2>3, <2>4, <2>5, <2>6, <2>7 DEF Next
<1>2. \A i \in DOMAIN rows' : RowKept(rows[i], rows'[i])
  <2>1. RowsKept /\ born + 1 \notin DOMAIN rows
    BY NextKeepsRows DEF PInv, IInv, TypeOK, IdsBounded
  <2> QED
    BY <1>1, <2>1 DEF RowsKept
<1> QED
  BY <1>1, <1>2, ZonesOfRowsKept DEF NameKept, NameIn, RowKept

\* Every step of the registry is a step of the Namespace.
LEMMA StepIsAbstractStep ==
    ASSUME Engine = "postgres", PInv, PInv', [Next]_vars
    PROVE  Abstract!Next
<1>1. ASSUME NEW h \in Handlers, ClaimInsert(h), rows' # rows PROVE Abstract!Next
  BY <1>1, InsertIsGrant DEF Abstract!Next
<1>2. CASE \A i \in DOMAIN rows' : NameKept(i)
  <2>1. NamesSound(rows, zones) /\ NamesSound(rows', zones')
    BY NamesIdentify, NamesIdentifyNext
  <2> QED
    BY <1>2, <2>1, KeepingIsGivingUp DEF Abstract!Next
<1>3. ASSUME NEW h \in Handlers, RenameWrite(h), ~ \A i \in DOMAIN rows' : NameKept(i)
      PROVE  Abstract!Next
  BY <1>3, RenameIsMove DEF Abstract!Next
<1> QED
  BY <1>1, <1>2, <1>3, OthersKeepNames

\* Seen from outside the registry is a Namespace: no claim, rename, stale write,
\* release or reaped hold makes a hostname change hands.
THEOREM RegistryIsNamespace ==
    ASSUME Engine = "postgres"
    PROVE  Spec => ImplementsNamespace
<1>1. Init => Abstract!Init
  BY DEF Init, Abstract!Init, Holder, NameOf
<1>2. PInv /\ PInv' /\ [Next]_vars => [Abstract!Next]_Holder
  BY StepIsAbstractStep
<1> QED
  BY <1>1, <1>2, PostgresInvariance, PTL DEF Spec, ImplementsNamespace, Abstract!Spec
=============================================================================
