--------------------------- MODULE LabelSyncProofs ---------------------------
(***************************************************************************)
(* Safety of LabelSync for any sets of containers, reservations and        *)
(* labels, and any number of changes, failures and restarts.               *)
(***************************************************************************)
EXTENDS LabelSync, FiniteSetTheorems, TablesProofs

\* The ids in use and the ids somebody is about to release are bounded.
IdsBounded == \E n \in Nat : /\ DOMAIN rows \subseteq 1..n
                             /\ freeing \subseteq 1..n
                             /\ \A s \in Sources : pass[s].gone \subseteq 1..n

\* Objects to look at, and the object to claim for, are there in the snapshot.
PassSound ==
    \A s \in Sources :
       /\ \A o \in pass[s].todo : pass[s].seen[o] # Nothing
       /\ pass[s].step \in {"claim", "blind"} => /\ pass[s].at \in Objects
                                                /\ pass[s].seen[pass[s].at] # Nothing

\* Where ids are never given twice, an id a reconciler remembers is that of a row of its
\* own for as long as there is a row with that id.
StillOurs ==
    engine = "postgres" => \A s \in Sources :
       /\ pass[s].step \in {"update", "free"} /\ pass[s].id \in DOMAIN rows
             => rows[pass[s].id].by = s
       /\ \A i \in pass[s].gone \cap DOMAIN rows : rows[i].by = s

IInv == TypeOK /\ IdsBounded /\ PassSound /\ StillOurs

\* What a step may do to the rows: they stay well typed, and where ids are never given
\* twice an id that is in use or remembered does not get another owner.
RowsTyped(t) == /\ DOMAIN t \subseteq Nat \ {0} /\ \A i \in DOMAIN t : t[i] \in Row
                /\ \A i, j \in DOMAIN t : t[i].label = t[j].label => i = j
RowsKeep == /\ RowsTyped(rows')
            /\ \E n \in Nat : DOMAIN rows' \subseteq 1..n
            /\ engine = "postgres" => \A i \in DOMAIN rows' \cap (DOMAIN rows \cup Remembered) :
                  i \in DOMAIN rows /\ rows'[i].by = rows[i].by

-----------------------------------------------------------------------------
(* Ids. *)

LEMMA RememberedIsFinite ==
    ASSUME TypeOK, IdsBounded
    PROVE  IsFiniteSet(DOMAIN rows \cup Remembered)
<1>1. PICK n \in Nat : /\ DOMAIN rows \subseteq 1..n
                       /\ freeing \subseteq 1..n
                       /\ \A s \in Sources : pass[s].gone \subseteq 1..n
  BY DEF IdsBounded
<1> DEFINE d == pass["docker-label"].id
           c == pass["crd"].id
<1>2. PICK m \in Nat : m >= n /\ m >= d /\ m >= c
  <2>1. d \in Nat /\ c \in Nat
    BY DEF TypeOK, Sources, Pass
  <2> QED
    BY <1>1, <2>1
<1>3. DOMAIN rows \cup Remembered \subseteq 0..m
  <2>1. d \in 0..m /\ c \in 0..m
    BY <1>2 DEF TypeOK, Sources, Pass
  <2>2. Remembered = {d, c} \cup freeing \cup UNION {pass[s].gone : s \in Sources}
    BY DEF Remembered, Sources
  <2>3. UNION {pass[s].gone : s \in Sources} \subseteq 1..n
    BY <1>1
  <2>4. 1..n \subseteq 0..m
    BY <1>2
  <2> QED
    BY <1>1, <2>1, <2>2, <2>3, <2>4, Zenon
<1>4. IsFiniteSet(0..m)
  BY FS_Interval, <1>2
<1> QED
  BY <1>3, <1>4, FS_Subset, Zenon

\* There is an id nobody has or remembers: more numbers than those.
LEMMA NewIdIsFresh ==
    ASSUME TypeOK, IdsBounded
    PROVE  /\ NewId \in Nat \ {0} /\ NewId \notin DOMAIN rows
           /\ engine = "postgres" => NewId \notin Remembered
<1>1. CASE engine = "sqlite"
  <2>1. PICK n \in Nat : DOMAIN rows \subseteq 1..n
    BY DEF IdsBounded
  <2>2. MaxPlusOne(DOMAIN rows) \in 1..(n + 1) /\ MaxPlusOne(DOMAIN rows) \notin DOMAIN rows
    BY <2>1, MaxPlusOneFresh, Zenon
  <2> QED
    BY <1>1, <2>1, <2>2 DEF NewId
<1>2. CASE engine = "postgres"
  <2> DEFINE S == DOMAIN rows \cup Remembered
             C == Cardinality(S)
  <2>1. IsFiniteSet(S)
    BY RememberedIsFinite
  <2>2. C \in Nat
    BY <2>1, FS_CardinalityType
  <2>3. \E i \in 1..(C + 1) : i \notin S
    <3> SUFFICES ASSUME 1..(C + 1) \subseteq S PROVE FALSE
      OBVIOUS
    <3>1. Cardinality(1..(C + 1)) <= C
      BY <2>1, FS_Subset
    <3>2. Cardinality(1..(C + 1)) = C + 1
      BY <2>2, FS_Interval
    <3> QED
      BY <2>2, <3>1, <3>2
  <2>4. NewId = CHOOSE i \in 1..(C + 1) : i \notin S
    BY <1>2 DEF NewId
  <2>5. NewId \in 1..(C + 1) /\ NewId \notin S
    BY <2>3, <2>4, Zenon
  <2> QED
    BY <2>2, <2>5
<1> QED
  BY <1>1, <1>2 DEF TypeOK

-----------------------------------------------------------------------------
(* What each statement does to the rows. *)

LEMMA InsertKeepsRows ==
    ASSUME IInv, NEW r \in Row, Insert(r)
    PROVE  RowsKeep
<1>1. RowsTyped(rows) /\ \E n \in Nat : DOMAIN rows \subseteq 1..n
  BY DEF IInv, TypeOK, IdsBounded, RowsTyped
<1>2. CASE UNCHANGED rows
  BY <1>1, <1>2 DEF RowsKeep
<1>3. CASE rows' # rows
  <2>1. Find(r.label) = {} /\ rows' = Put(rows, NewId, r)
    BY <1>3 DEF Insert
  <2>2. /\ NewId \in Nat \ {0} /\ NewId \notin DOMAIN rows
        /\ engine = "postgres" => NewId \notin Remembered
    BY NewIdIsFresh DEF IInv
  <2>3. /\ DOMAIN rows' = DOMAIN rows \cup {NewId}
        /\ \A i \in DOMAIN rows' : rows'[i] = IF i = NewId THEN r ELSE rows[i]
    BY <2>1, Zenon DEF Put
  <2>4. \A i \in DOMAIN rows : rows[i].label # r.label
    BY <2>1 DEF Find
  <2>5. RowsTyped(rows')
    BY <1>1, <2>2, <2>3, <2>4 DEF RowsTyped
  <2>6. \E n \in Nat : DOMAIN rows' \subseteq 1..n
    <3>1. PICK n \in Nat : DOMAIN rows \subseteq 1..n
      BY <1>1
    <3>2. PICK m \in Nat : m >= n /\ m >= NewId
      BY <2>2, <3>1
    <3>3. DOMAIN rows' \subseteq 1..m
      BY <2>2, <2>3, <3>1, <3>2
    <3> QED
      BY <3>3
  <2>7. engine = "postgres" => \A i \in DOMAIN rows' \cap (DOMAIN rows \cup Remembered) :
                  i \in DOMAIN rows /\ rows'[i].by = rows[i].by
    BY <2>2, <2>3
  <2> QED
    BY <2>5, <2>6, <2>7 DEF RowsKeep
<1> QED
  BY <1>2, <1>3

LEMMA DropKeepsRows ==
    ASSUME IInv, NEW K, rows' = Drop(rows, K)
    PROVE  RowsKeep
<1>1. DOMAIN rows' \subseteq DOMAIN rows /\ \A i \in DOMAIN rows' : rows'[i] = rows[i]
  BY DEF Drop
<1> QED
  BY <1>1 DEF IInv, TypeOK, IdsBounded, RowsTyped, RowsKeep

\* A row changed in place, to no label another row has, and on Postgres to no other owner.
LEMMA EditKeepsRows ==
    ASSUME IInv, NEW i \in DOMAIN rows, NEW r \in Row,
           \A j \in DOMAIN rows \ {i} : rows[j].label # r.label,
           engine = "postgres" => r.by = rows[i].by,
           rows' = [rows EXCEPT ![i] = r]
    PROVE  RowsKeep
<1>1. DOMAIN rows' = DOMAIN rows /\ \A j \in DOMAIN rows : rows'[j] = IF j = i THEN r ELSE rows[j]
  OBVIOUS
<1>2. RowsTyped(rows')
  BY <1>1 DEF IInv, TypeOK, RowsTyped
<1> QED
  BY <1>1, <1>2 DEF IInv, IdsBounded, RowsKeep

LEMMA SameRowsKeep == ASSUME IInv, UNCHANGED rows PROVE RowsKeep
BY DEF IInv, TypeOK, IdsBounded, RowsTyped, RowsKeep

\* A step by reconciler s, or by nobody, that does such a thing to the rows and takes s
\* to a sound pass with nothing new to release but rows of its own.
LEMMA StepKeepsIInv ==
    ASSUME IInv, RowsKeep, NEW s \in Sources, NEW p \in Pass,
           pass' = [pass EXCEPT ![s] = p],
           \A o \in p.todo : p.seen[o] # Nothing,
           p.step \in {"claim", "blind"} => p.at \in Objects /\ p.seen[p.at] # Nothing,
           p.gone \subseteq pass[s].gone \cup {i \in DOMAIN rows : rows[i].by = s},
           p.step \in {"update", "free"} =>
              \/ pass[s].step \in {"update", "free"} /\ p.id = pass[s].id
              \/ p.id \in DOMAIN rows /\ (p.id \in pass[s].gone \/ rows[p.id].by = s),
           objects' \in [Objects -> Spellings \cup {Nothing}],
           steady' \in [Sources -> SUBSET Objects],
           freeing' \subseteq freeing \cup DOMAIN rows, cuts' \subseteq cuts \cup DOMAIN rows,
           upsets' \in 0..MaxUpsets, UNCHANGED engine
    PROVE  IInv'
<1>1. pass' \in [Sources -> Pass]
  BY DEF IInv, TypeOK
<1>2. \A t \in Sources : pass'[t] = IF t = s THEN p ELSE pass[t]
  BY DEF IInv, TypeOK
<1>3. TypeOK'
  <2>1. freeing' \subseteq Nat /\ cuts' \subseteq Nat
    BY DEF IInv, TypeOK
  <2> QED
    BY <1>1, <2>1 DEF IInv, TypeOK, RowsKeep, RowsTyped
<1>4. IdsBounded'
  <2>1. PICK n \in Nat : /\ DOMAIN rows \subseteq 1..n /\ freeing \subseteq 1..n
                         /\ \A t \in Sources : pass[t].gone \subseteq 1..n
    BY DEF IInv, IdsBounded
  <2>2. PICK m \in Nat : DOMAIN rows' \subseteq 1..m
    BY DEF RowsKeep
  <2>3. PICK q \in Nat : n <= q /\ m <= q
    BY <2>1, <2>2
  <2>4. 1..n \subseteq 1..q /\ 1..m \subseteq 1..q
    BY <2>3
  <2>5. freeing' \subseteq 1..n /\ \A t \in Sources : pass'[t].gone \subseteq 1..n
    BY <1>2, <2>1
  <2> QED
    BY <2>2, <2>4, <2>5 DEF IdsBounded
<1>5. PassSound'
  BY <1>2 DEF IInv, PassSound
<1>6. StillOurs'
  <2> SUFFICES ASSUME engine = "postgres", NEW t \in Sources
               PROVE  /\ pass'[t].step \in {"update", "free"} /\ pass'[t].id \in DOMAIN rows'
                            => rows'[pass'[t].id].by = t
                      /\ \A i \in pass'[t].gone \cap DOMAIN rows' : rows'[i].by = t
    BY DEF StillOurs
  <2>1. \A i \in DOMAIN rows' \cap (DOMAIN rows \cup Remembered) :
            i \in DOMAIN rows /\ rows'[i].by = rows[i].by
    BY DEF RowsKeep
  <2>2. pass[t].id \in Remembered /\ pass[t].gone \subseteq Remembered
    BY DEF Remembered
  <2>3. ASSUME NEW i \in pass'[t].gone \cap DOMAIN rows' PROVE rows'[i].by = t
    <3>1. i \in pass[t].gone \/ (i \in DOMAIN rows /\ rows[i].by = t)
      BY <1>2
    <3> QED
      BY <2>1, <2>2, <3>1 DEF IInv, StillOurs
  <2>4. ASSUME pass'[t].step \in {"update", "free"}, pass'[t].id \in DOMAIN rows'
        PROVE  rows'[pass'[t].id].by = t
    <3>1. \/ pass[t].step \in {"update", "free"} /\ pass'[t].id = pass[t].id
          \/ pass'[t].id \in DOMAIN rows /\ (pass'[t].id \in pass[t].gone \/ rows[pass'[t].id].by = t)
      BY <1>2, <2>4
    <3> QED
      BY <2>1, <2>2, <2>4, <3>1 DEF IInv, StillOurs
  <2> QED
    BY <2>3, <2>4
<1> QED
  BY <1>3, <1>4, <1>5, <1>6 DEF IInv

-----------------------------------------------------------------------------
(* The steps of a pass. *)

LEMMA IdleIsAPass ==
    /\ Idle \in Pass /\ Idle.gone = {} /\ Idle.todo = {} /\ Idle.step = "idle"
BY DEF Idle, Pass, States

\* What is left to release: a pass that goes on with some of it.
LEMMA OnwardIsAPass ==
    ASSUME NEW s \in Sources, NEW G \in SUBSET Nat, Onward(s, G)
    PROVE  \E p \in Pass : /\ pass' = [pass EXCEPT ![s] = p] /\ p.gone = G /\ p.todo = {}
                           /\ p.step = IF G = {} THEN "idle" ELSE "drop"
<1>1. CASE G = {}
  BY <1>1, IdleIsAPass DEF Onward, Step
<1>2. CASE G # {}
  <2> DEFINE p == [Idle EXCEPT !.step = "drop", !.gone = G]
  <2>1. p \in Pass /\ p.gone = G /\ p.todo = {} /\ p.step = "drop"
    BY DEF Idle, Pass, States
  <2>2. pass' = [pass EXCEPT ![s] = p]
    BY <1>2 DEF Onward, Step
  <2> HIDE DEF p
  <2> QED
    BY <1>2, <2>1, <2>2
<1> QED
  BY <1>1, <1>2

\* A row that is left behind is there.
LEMMA LeftBehindIsThere ==
    ASSUME NEW i, LeftBehind(i) \/ UNCHANGED cuts \/ Free(i)
    PROVE  cuts' \subseteq cuts \cup DOMAIN rows
BY DEF LeftBehind, Free

LEMMA SnapshotKeepsIInv ==
    ASSUME IInv, NEW s \in Sources, Snapshot(s)
    PROVE  IInv'
<1> DEFINE seen == [o \in Objects |-> IF o \in Of(s) THEN objects[o] ELSE Nothing]
           p == [Idle EXCEPT !.step = "each", !.seen = seen,
                             !.todo = {o \in Objects : seen[o] # Nothing}]
<1>1. seen \in [Objects -> Spellings \cup {Nothing}]
  BY DEF IInv, TypeOK
<1>2. /\ p \in Pass /\ p.gone = {} /\ p.step = "each"
      /\ \A o \in p.todo : p.seen[o] # Nothing
  BY <1>1 DEF Idle, Pass, States
<1>3. pass' = [pass EXCEPT ![s] = p] /\ UNCHANGED <<engine, rows, objects, freeing, cuts, upsets>>
  BY DEF Snapshot, Step
<1>4. steady' \in [Sources -> SUBSET Objects]
  BY DEF IInv, TypeOK, Snapshot, Of, Objects
<1> HIDE DEF p
<1> QED
  BY <1>2, <1>3, <1>4, SameRowsKeep, StepKeepsIInv DEF IInv, TypeOK

\* What a look leads to: on to the next object, a claim, or an update of the row found.
LEMMA LookLeads ==
    ASSUME IInv, NEW s \in Sources, NEW o \in Of(s), Look(s, o) \/ LookFails(s, o)
    PROVE  \E p \in Pass :
              /\ pass' = [pass EXCEPT ![s] = p] /\ pass'[s] = p
              /\ p.gone = pass[s].gone /\ p.todo = pass[s].todo \ {o} /\ p.seen = pass[s].seen
              /\ \/ /\ p.step = "each"
                    /\ \E i \in Find(p.seen[o]) : rows[i].by = s => rows[i].ref = o
                 \/ /\ p.step = "claim" /\ p.at = o
                    /\ Find(p.seen[o]) = {}
                 \/ p.step = "blind" /\ p.at = o /\ LookFails(s, o)
                 \/ /\ p.step = "update" /\ p.at = o
                    /\ p.id \in Find(p.seen[o]) /\ rows[p.id].by = s /\ rows[p.id].ref # o
                    /\ p.was = rows[p.id].state
<1> DEFINE q == [pass[s] EXCEPT !.todo = @ \ {o}]
           I == Find(pass[s].seen[o])
           c == [q EXCEPT !.step = "claim", !.at = o]
           b == [pass[s] EXCEPT !.todo = @ \ {o}, !.step = "blind", !.at = o]
           u(i) == [q EXCEPT !.step = "update", !.at = o, !.id = i, !.was = rows[i].state]
<1>1. /\ o \in Objects /\ pass[s] \in Pass /\ pass[s].step = "each"
      /\ \A i \in I : i \in Nat /\ rows[i].state \in States
      /\ \A p : Step(s, p) => pass' = [pass EXCEPT ![s] = p] /\ pass'[s] = p
  BY DEF Look, LookFails, Of, Objects, IInv, TypeOK, Row, Find, Step
<1>2. q \in Pass /\ q.gone = pass[s].gone /\ q.todo = pass[s].todo \ {o} /\ q.seen = pass[s].seen
      /\ q.step = "each"
  BY <1>1 DEF Pass
<1>3. c \in Pass /\ c.gone = pass[s].gone /\ c.todo = pass[s].todo \ {o} /\ c.seen = pass[s].seen
      /\ c.step = "claim" /\ c.at = o
  BY <1>1 DEF Pass
<1>4. b \in Pass /\ b.gone = pass[s].gone /\ b.todo = pass[s].todo \ {o} /\ b.seen = pass[s].seen
      /\ b.step = "blind" /\ b.at = o
  BY <1>1 DEF Pass
<1>5. ASSUME NEW i \in I
      PROVE  u(i) \in Pass /\ u(i).gone = pass[s].gone /\ u(i).todo = pass[s].todo \ {o}
             /\ u(i).seen = pass[s].seen /\ u(i).step = "update" /\ u(i).at = o /\ u(i).id = i
             /\ u(i).was = rows[i].state
  BY <1>1 DEF Pass
<1>6. CASE LookFails(s, o)
  <2>1. pass' = [pass EXCEPT ![s] = b] /\ pass'[s] = b
    BY <1>1, <1>6 DEF LookFails
  <2> HIDE DEF b
  <2> QED
    BY <1>4, <1>6, <2>1
<1>7. CASE Look(s, o) /\ I = {}
  <2>1. pass' = [pass EXCEPT ![s] = c] /\ pass'[s] = c
    BY <1>1, <1>7 DEF Look
  <2> HIDE DEF c
  <2> QED
    BY <1>3, <1>7, <2>1
<1>8. CASE Look(s, o) /\ I # {}
  <2>1. PICK i \in I : IF Ours(s, i) /\ ~Matches(i, o) THEN Step(s, u(i)) ELSE Step(s, q)
    BY <1>8 DEF Look
  <2>2. CASE Ours(s, i) /\ ~Matches(i, o)
    <3>1. pass' = [pass EXCEPT ![s] = u(i)] /\ pass'[s] = u(i)
      BY <1>1, <2>1, <2>2
    <3>2. rows[i].by = s /\ rows[i].ref # o
      BY <2>2 DEF Ours, Matches
    <3> HIDE DEF u, I
    <3>3. PICK p : p = u(i)
      OBVIOUS
    <3>4. /\ p \in Pass /\ p.gone = pass[s].gone /\ p.todo = pass[s].todo \ {o}
          /\ p.seen = pass[s].seen /\ p.step = "update" /\ p.at = o /\ p.id = i
          /\ p.was = rows[i].state
      BY <1>5, <3>3, Zenon
    <3>5. p.id \in Find(p.seen[o])
      BY <3>4 DEF I
    <3>6. pass' = [pass EXCEPT ![s] = p] /\ pass'[s] = p
      BY <3>1, <3>3
    <3> QED
      BY <3>2, <3>4, <3>5, <3>6
  <2>3. CASE ~ (Ours(s, i) /\ ~Matches(i, o))
    <3>1. pass' = [pass EXCEPT ![s] = q] /\ pass'[s] = q
      BY <1>1, <2>1, <2>3
    <3>2. rows[i].by = s => rows[i].ref = o
      BY <2>3 DEF Ours, Matches
    <3>3. i \in Find(q.seen[o])
      BY <1>2
    <3> HIDE DEF q
    <3> QED
      BY <1>2, <3>1, <3>2, <3>3
  <2> QED
    BY <2>2, <2>3
<1> QED
  BY <1>6, <1>7, <1>8

LEMMA LookKeepsIInv ==
    ASSUME IInv, NEW s \in Sources, NEW o \in Of(s), Look(s, o) \/ LookFails(s, o)
    PROVE  IInv'
<1>1. /\ o \in Objects /\ o \in pass[s].todo
      /\ UNCHANGED <<engine, rows, objects, freeing, cuts, steady>>
      /\ Upset \/ UNCHANGED upsets
  BY DEF Look, LookFails, Of, Objects
<1>2. PICK p \in Pass : /\ pass' = [pass EXCEPT ![s] = p]
                        /\ p.gone = pass[s].gone /\ p.todo = pass[s].todo \ {o}
                        /\ p.seen = pass[s].seen
                        /\ p.step \in {"claim", "blind"} => p.at = o
                        /\ p.step # "free"
                        /\ p.step = "update" => p.id \in DOMAIN rows /\ rows[p.id].by = s
  BY LookLeads DEF Find
<1>3. \A u \in pass[s].todo : pass[s].seen[u] # Nothing
  BY DEF IInv, PassSound
<1>4. RowsKeep
  BY <1>1, SameRowsKeep
<1>5. /\ objects' \in [Objects -> Spellings \cup {Nothing}]
      /\ steady' \in [Sources -> SUBSET Objects]
      /\ upsets' \in 0..MaxUpsets
  BY <1>1, UpsetsAssumption DEF IInv, TypeOK, Upset
<1>6. /\ \A u \in p.todo : p.seen[u] # Nothing
      /\ p.step \in {"claim", "blind"} => p.at \in Objects /\ p.seen[p.at] # Nothing
  BY <1>1, <1>2, <1>3
<1> QED
  BY <1>1, <1>2, <1>4, <1>5, <1>6, StepKeepsIInv

LEMMA TurnIsAPass ==
    ASSUME IInv, NEW s \in Sources, Turn(s)
    PROVE  \E p \in Pass : /\ pass' = [pass EXCEPT ![s] = p]
                           /\ p.step = "each" /\ p.gone = pass[s].gone /\ p.seen = pass[s].seen
                           /\ p.todo = pass[s].todo /\ \A o \in p.todo : p.seen[o] # Nothing
<1> DEFINE p == [pass[s] EXCEPT !.step = "each", !.at = Nothing, !.id = 0, !.was = "active"]
<1>1. pass[s] \in Pass
  BY DEF IInv, TypeOK
<1>2. /\ p \in Pass /\ p.step = "each" /\ p.gone = pass[s].gone
      /\ p.todo = pass[s].todo /\ p.seen = pass[s].seen
  BY <1>1 DEF Pass, States
<1>3. pass' = [pass EXCEPT ![s] = p]
  BY DEF Turn, Step
<1> HIDE DEF p
<1> QED
  BY <1>2, <1>3 DEF IInv, PassSound

\* A row changed by the reconciler it belongs to.
LEMMA UpdateKeepsRows ==
    ASSUME IInv, NEW s \in Sources, Update(s)
    PROVE  RowsKeep
<1> DEFINE i == pass[s].id
           r == [rows[i] EXCEPT !.by = s, !.ref = pass[s].at, !.state = pass[s].was]
<1>1. CASE i \in DOMAIN rows
  <2>1. rows[i] \in Row /\ pass[s].at \in Objects \cup {Nothing} /\ pass[s].was \in States
    BY <1>1 DEF IInv, TypeOK, Pass
  <2>2. r \in Row /\ r.label = rows[i].label /\ r.by = s
    BY <2>1 DEF Row, Sources
  <2>3. rows' = [rows EXCEPT ![i] = r]
    BY <1>1 DEF Update
  <2>4. \A j \in DOMAIN rows \ {i} : rows[j].label # r.label
    BY <1>1, <2>2 DEF IInv, TypeOK
  <2>5. engine = "postgres" => r.by = rows[i].by
    BY <1>1, <2>2 DEF IInv, StillOurs, Update
  <2> HIDE DEF r, i
  <2> QED
    BY <1>1, <2>2, <2>3, <2>4, <2>5, EditKeepsRows
<1>2. CASE i \notin DOMAIN rows
  BY <1>2, SameRowsKeep DEF Update
<1> QED
  BY <1>1, <1>2

LEMMA ClaimKeepsRows ==
    ASSUME IInv, NEW s \in Sources, Claim(s)
    PROVE  RowsKeep
<1> DEFINE r == [label |-> Norm[pass[s].seen[pass[s].at]], by |-> s, ref |-> pass[s].at,
                 state |-> "active"]
<1>1. pass[s].at \in Objects /\ pass[s].seen[pass[s].at] # Nothing
  BY DEF IInv, PassSound, Claim
<1>2. pass[s].seen[pass[s].at] \in Spellings
  BY <1>1 DEF IInv, TypeOK, Pass
<1>3. r \in Row
  BY <1>1, <1>2, SpellingsAssumption DEF Row, States
<1>4. Insert(r)
  BY DEF Claim
<1> HIDE DEF r
<1> QED
  BY <1>3, <1>4, InsertKeepsRows

LEMMA WriteKeepsIInv ==
    ASSUME IInv, NEW s \in Sources, Update(s) \/ Claim(s)
    PROVE  IInv'
<1>1. RowsKeep
  BY UpdateKeepsRows, ClaimKeepsRows
<1>2. Turn(s) /\ UNCHANGED <<engine, objects, freeing, cuts, steady, upsets>>
  BY DEF Update, Claim
<1>3. PICK p \in Pass : /\ pass' = [pass EXCEPT ![s] = p]
                        /\ p.step = "each" /\ p.gone = pass[s].gone
                        /\ \A o \in p.todo : p.seen[o] # Nothing
  BY <1>2, TurnIsAPass
<1> QED
  BY <1>1, <1>2, <1>3, StepKeepsIInv DEF IInv, TypeOK

LEMMA ListOursKeepsIInv ==
    ASSUME IInv, NEW s \in Sources, ListOurs(s)
    PROVE  IInv'
<1>1. PICK G \in SUBSET Nat : G \subseteq {i \in DOMAIN rows : rows[i].by = s} /\ Onward(s, G)
  <2> DEFINE G == {i \in DOMAIN rows : /\ rows[i].by = s /\ rows[i].state # "released"
                                       /\ ~Wanted(s, i)}
  <2>1. G \in SUBSET Nat /\ G \subseteq {i \in DOMAIN rows : rows[i].by = s} /\ Onward(s, G)
    BY DEF IInv, TypeOK, ListOurs
  <2> HIDE DEF G
  <2> QED
    BY <2>1
<1>2. PICK p \in Pass : /\ pass' = [pass EXCEPT ![s] = p] /\ p.gone = G /\ p.todo = {}
                        /\ p.step \in {"idle", "drop"}
  BY <1>1, OnwardIsAPass
<1>3. UNCHANGED <<engine, rows, objects, freeing, cuts, steady, upsets>>
  BY DEF ListOurs
<1> QED
  BY <1>1, <1>2, <1>3, SameRowsKeep, StepKeepsIInv DEF IInv, TypeOK

LEMMA SetReleasedKeepsRows ==
    ASSUME IInv, NEW i \in DOMAIN rows, SetReleased(i)
    PROVE  RowsKeep
<1> DEFINE r == [rows[i] EXCEPT !.state = "released"]
<1>1. rows[i] \in Row
  BY DEF IInv, TypeOK
<1>2. r \in Row /\ r.label = rows[i].label /\ r.by = rows[i].by
  BY <1>1 DEF Row, States
<1>3. rows' = [rows EXCEPT ![i] = r]
  BY DEF SetReleased
<1>4. \A j \in DOMAIN rows \ {i} : rows[j].label # r.label
  BY <1>2 DEF IInv, TypeOK
<1> HIDE DEF r
<1> QED
  BY <1>2, <1>3, <1>4, EditKeepsRows

\* A pass on its way through what it has to release stays sound.
LEMMA OnwardKeepsIInv ==
    ASSUME IInv, RowsKeep, NEW s \in Sources, NEW G \in SUBSET pass[s].gone, Onward(s, G),
           cuts' \subseteq cuts \cup DOMAIN rows, upsets' \in 0..MaxUpsets,
           UNCHANGED <<engine, objects, freeing, steady>>
    PROVE  IInv'
<1>1. G \in SUBSET Nat
  BY DEF IInv, TypeOK, Pass
<1>2. PICK p \in Pass : /\ pass' = [pass EXCEPT ![s] = p] /\ p.gone = G /\ p.todo = {}
                        /\ p.step \in {"idle", "drop"}
  BY <1>1, OnwardIsAPass
<1> QED
  BY <1>2, StepKeepsIInv DEF IInv, TypeOK

LEMMA ReleaseKeepsIInv ==
    ASSUME IInv, NEW s \in Sources, NEW i \in pass[s].gone, Release(s, i)
    PROVE  IInv'
<1>1. UNCHANGED <<engine, objects, freeing, cuts, steady, upsets>> /\ pass[s] \in Pass
  BY DEF Release, IInv, TypeOK
<1>2. CASE i \in DOMAIN rows
  <2> DEFINE p == [pass[s] EXCEPT !.step = "free", !.id = i, !.gone = @ \ {i}]
  <2>1. RowsKeep
    BY <1>2, SetReleasedKeepsRows DEF Release
  <2>2. i \in Nat
    BY <1>2 DEF IInv, TypeOK
  <2>3. /\ p \in Pass /\ p.step = "free" /\ p.id = i /\ p.gone \subseteq pass[s].gone
        /\ p.todo = pass[s].todo /\ p.seen = pass[s].seen
    BY <1>1, <2>2 DEF Pass
  <2>4. pass' = [pass EXCEPT ![s] = p]
    BY <1>2 DEF Release, Step
  <2>5. \A o \in p.todo : p.seen[o] # Nothing
    BY <2>3 DEF IInv, PassSound
  <2> HIDE DEF p
  <2> QED
    BY <1>1, <1>2, <2>1, <2>3, <2>4, <2>5, StepKeepsIInv DEF IInv, TypeOK
<1>3. CASE i \notin DOMAIN rows
  BY <1>1, <1>3, SameRowsKeep, OnwardKeepsIInv DEF Release, IInv, TypeOK
<1> QED
  BY <1>2, <1>3

LEMMA ReleaseFreesKeepsIInv ==
    ASSUME IInv, NEW s \in Sources, ReleaseFrees(s)
    PROVE  IInv'
<1>1. RowsKeep /\ cuts' \subseteq cuts \cup DOMAIN rows
  BY DropKeepsRows DEF ReleaseFrees, Free
<1> QED
  BY <1>1, OnwardKeepsIInv DEF ReleaseFrees, IInv, TypeOK

LEMMA FailsKeepIInv ==
    ASSUME IInv, NEW s \in Sources, Fails(s)
    PROVE  IInv'
<1>1. ASSUME Upset PROVE upsets' \in 0..MaxUpsets
  BY <1>1, UpsetsAssumption DEF IInv, TypeOK, Upset
<1>2. CASE PassFails(s)
  <2>1. /\ pass' = [pass EXCEPT ![s] = Idle] /\ cuts' \subseteq cuts \cup DOMAIN rows
        /\ UNCHANGED <<engine, rows, objects, freeing, steady>>
    BY <1>2, LeftBehindIsThere DEF PassFails, Step, OnError
  <2> QED
    BY <1>1, <1>2, <2>1, IdleIsAPass, SameRowsKeep, StepKeepsIInv DEF IInv, TypeOK, PassFails
<1>3. CASE StatementFails(s)
  <2>1. /\ upsets' \in 0..MaxUpsets /\ RowsKeep /\ cuts' \subseteq cuts \cup DOMAIN rows
        /\ UNCHANGED <<engine, objects, freeing, steady>>
    BY <1>1, <1>3, SameRowsKeep, LeftBehindIsThere DEF StatementFails
  <2>2. CASE Turn(s)
    <3>1. PICK p \in Pass : /\ pass' = [pass EXCEPT ![s] = p]
                            /\ p.step = "each" /\ p.gone = pass[s].gone
                            /\ \A o \in p.todo : p.seen[o] # Nothing
      BY <2>2, TurnIsAPass
    <3> QED
      BY <2>1, <3>1, StepKeepsIInv DEF IInv, TypeOK
  <2>3. CASE ~ Turn(s)
    <3>1. PICK G \in SUBSET pass[s].gone : Onward(s, G)
      BY <1>3, <2>3 DEF StatementFails
    <3> QED
      BY <2>1, <3>1, OnwardKeepsIInv
  <2> QED
    BY <2>2, <2>3
<1>4. ASSUME NEW o \in Of(s), LookFails(s, o) PROVE IInv'
  BY <1>4, LookKeepsIInv
<1> QED
  BY <1>2, <1>3, <1>4 DEF Fails

-----------------------------------------------------------------------------
(* Everyone else, and the theorems. *)

\* The rows changed by the API, and no pass with them.
LEMMA NoPassKeepsIInv ==
    ASSUME IInv, RowsKeep, objects' \in [Objects -> Spellings \cup {Nothing}],
           steady' \in [Sources -> SUBSET Objects], upsets' \in 0..MaxUpsets,
           freeing' \subseteq freeing \cup DOMAIN rows, cuts' \subseteq cuts \cup DOMAIN rows,
           UNCHANGED <<engine, pass>>
    PROVE  IInv'
<1> DEFINE p == pass["crd"]
<1>1. p \in Pass /\ pass' = [pass EXCEPT !["crd"] = p] /\ "crd" \in Sources
  BY DEF IInv, TypeOK, Sources
<1>2. /\ \A o \in p.todo : p.seen[o] # Nothing
      /\ p.step \in {"claim", "blind"} => p.at \in Objects /\ p.seen[p.at] # Nothing
  BY <1>1 DEF IInv, PassSound
<1> QED
  BY <1>1, <1>2, StepKeepsIInv

LEMMA OthersKeepIInv ==
    ASSUME IInv, Api \/ \E o \in Objects : ChangeObject(o)
    PROVE  IInv'
<1>1. upsets' \in 0..MaxUpsets
  <2>1. Upset \/ UNCHANGED upsets
    BY DEF Api, ApiClaim, ApiRelease, ApiGoesOn, ApiFrees, ApiCut, ApiEdit, ChangeObject
  <2> QED
    BY <2>1, UpsetsAssumption DEF IInv, TypeOK, Upset
<1>2. steady' \in [Sources -> SUBSET Objects]
  <2>1. UNCHANGED steady \/ \E O : Touched(O)
    BY DEF Api, ApiClaim, ApiRelease, ApiGoesOn, ApiFrees, ApiCut, ApiEdit, ChangeObject
  <2> QED
    BY <2>1 DEF IInv, TypeOK, Touched
<1>3. ASSUME NEW o \in Objects, ChangeObject(o) PROVE IInv'
  BY <1>1, <1>2, <1>3, SameRowsKeep, NoPassKeepsIInv DEF IInv, TypeOK, ChangeObject
<1>4. ASSUME NEW l \in Labels, ApiClaim(l) PROVE IInv'
  <2>1. [label |-> l, by |-> "api", ref |-> Nothing, state |-> "active"] \in Row
    BY DEF Row, States
  <2>2. RowsKeep
    BY <1>4, <2>1, InsertKeepsRows DEF ApiClaim
  <2> QED
    BY <1>1, <1>2, <1>4, <2>2, NoPassKeepsIInv DEF IInv, TypeOK, ApiClaim
<1>5. ASSUME NEW i \in DOMAIN rows, ApiRelease(i) PROVE IInv'
  <2>1. RowsKeep
    BY <1>5, SetReleasedKeepsRows DEF ApiRelease
  <2>2. freeing' \subseteq freeing \cup DOMAIN rows /\ UNCHANGED <<engine, objects, pass, cuts>>
    BY <1>5 DEF ApiRelease
  <2> QED
    BY <1>1, <1>2, <2>1, <2>2, NoPassKeepsIInv DEF IInv, TypeOK
<1>7. ASSUME NEW i \in freeing, ApiFrees(i) PROVE IInv'
  <2>1. RowsKeep /\ cuts' \subseteq cuts \cup DOMAIN rows
    BY <1>7, DropKeepsRows DEF ApiFrees, Free
  <2>2. freeing' \subseteq freeing \cup DOMAIN rows /\ UNCHANGED <<engine, objects, pass>>
    BY <1>7 DEF ApiFrees
  <2> QED
    BY <1>1, <1>2, <2>1, <2>2, NoPassKeepsIInv DEF IInv, TypeOK
<1>8. ASSUME NEW i \in freeing, ApiCut(i) PROVE IInv'
  <2>1. RowsKeep /\ cuts' \subseteq cuts \cup DOMAIN rows
    BY <1>8, SameRowsKeep, LeftBehindIsThere DEF ApiCut
  <2>2. freeing' \subseteq freeing \cup DOMAIN rows /\ UNCHANGED <<engine, objects, pass>>
    BY <1>8 DEF ApiCut
  <2> QED
    BY <1>1, <1>2, <2>1, <2>2, NoPassKeepsIInv DEF IInv, TypeOK
<1>6. ASSUME NEW i \in DOMAIN rows, ApiEdit(i) PROVE IInv'
  <2>1. rows[i] \in Row
    BY DEF IInv, TypeOK
  <2>2. ASSUME rows' = [rows EXCEPT ![i].ref = Nothing] PROVE RowsKeep
    <3> DEFINE r == [rows[i] EXCEPT !.ref = Nothing]
    <3>1. r \in Row /\ r.label = rows[i].label /\ r.by = rows[i].by
      BY <2>1 DEF Row
    <3>2. rows' = [rows EXCEPT ![i] = r]
      BY <2>2
    <3>3. \A j \in DOMAIN rows \ {i} : rows[j].label # r.label
      BY <3>1 DEF IInv, TypeOK
    <3> HIDE DEF r
    <3> QED
      BY <3>1, <3>2, <3>3, EditKeepsRows
  <2>3. ASSUME NEW l \in Labels, Find(l) = {}, rows' = [rows EXCEPT ![i].label = l]
        PROVE  RowsKeep
    <3> DEFINE r == [rows[i] EXCEPT !.label = l]
    <3>1. r \in Row /\ r.label = l /\ r.by = rows[i].by
      BY <2>1 DEF Row
    <3>2. rows' = [rows EXCEPT ![i] = r]
      BY <2>3
    <3>3. \A j \in DOMAIN rows \ {i} : rows[j].label # r.label
      BY <2>3, <3>1 DEF Find
    <3> HIDE DEF r
    <3> QED
      BY <3>1, <3>2, <3>3, EditKeepsRows
  <2>4. RowsKeep
    BY <1>6, <2>2, <2>3 DEF ApiEdit
  <2> QED
    BY <1>1, <1>2, <1>6, <2>4, NoPassKeepsIInv DEF IInv, TypeOK, ApiEdit
<1> QED
  BY <1>3, <1>4, <1>5, <1>6, <1>7, <1>8 DEF Api, ApiGoesOn

LEMMA InitIInv == Init => IInv
<1> SUFFICES ASSUME Init PROVE IInv
  OBVIOUS
<1>1. rows = [i \in {} |-> Nothing] /\ DOMAIN rows = {}
  BY DEF Init
<1>2. TypeOK
  BY <1>1, IdleIsAPass, UpsetsAssumption DEF Init, TypeOK
<1>3. IdsBounded
  BY <1>1, IdleIsAPass DEF Init, IdsBounded
<1>4. PassSound /\ StillOurs
  BY <1>1, IdleIsAPass DEF Init, PassSound, StillOurs
<1> QED
  BY <1>2, <1>3, <1>4 DEF IInv

LEMMA SyncKeepsIInv ==
    ASSUME IInv, NEW s \in Sources, Sync(s)
    PROVE  IInv'
BY SnapshotKeepsIInv, LookKeepsIInv, WriteKeepsIInv, ListOursKeepsIInv, ReleaseKeepsIInv,
   ReleaseFreesKeepsIInv DEF Sync

LEMMA NextIInv == IInv /\ [Next]_vars => IInv'
<1> SUFFICES ASSUME IInv, [Next]_vars PROVE IInv'
  OBVIOUS
<1>1. CASE DockerSync \/ CrdSync
  BY <1>1, SyncKeepsIInv DEF DockerSync, CrdSync, Sources
<1>2. ASSUME NEW s \in Sources, Fails(s) PROVE IInv'
  BY <1>2, FailsKeepIInv
<1>3. CASE Api \/ \E o \in Objects : ChangeObject(o)
  BY <1>3, OthersKeepIInv
<1>4. CASE UNCHANGED vars
  BY <1>4, SameRowsKeep, NoPassKeepsIInv DEF IInv, TypeOK, vars
<1> QED
  BY <1>1, <1>2, <1>3, <1>4 DEF Next

\* The invariant, for both reconcilers and both engines.
THEOREM Invariance == Spec => []IInv
<1> QED
  BY InitIInv, NextIInv, PTL DEF Spec

\* Rows and passes stay well typed, and no two rows have one label.
THEOREM TypeCorrect == Spec => []TypeOK
<1>1. IInv => TypeOK
  BY DEF IInv
<1> QED
  BY <1>1, Invariance, PTL

\* A step of one reconciler leaves the pass of the other alone.
LEMMA OnePassAtATime ==
    ASSUME IInv, Next, NEW s \in Sources, pass'[s] # pass[s]
    PROVE  Sync(s) \/ Fails(s)
<1>1. ASSUME NEW t \in Sources, Sync(t) \/ Fails(t) PROVE t = s
  <2>1. PICK p : pass' = [pass EXCEPT ![t] = p]
    BY <1>1 DEF Sync, Snapshot, Look, Update, Claim, Turn, ListOurs, Onward, Release, ReleaseFrees, Fails, PassFails, StatementFails, LookFails, Step
  <2> QED
    BY <2>1 DEF IInv, TypeOK
<1>2. ~ (Api \/ \E o \in Objects : ChangeObject(o))
  BY DEF Api, ApiClaim, ApiRelease, ApiGoesOn, ApiFrees, ApiCut, ApiEdit, ChangeObject
<1> QED
  BY <1>1, <1>2 DEF Next, DockerSync, CrdSync, Sources

\* A step of a pass leaves the rows of others alone where ids are never given twice.
LEMMA OthersStay ==
    ASSUME IInv, Next, NEW s \in Sources, engine = "postgres", pass'[s] # pass[s],
           NEW i \in DOMAIN rows, rows[i].by # s
    PROVE  i \in DOMAIN rows' /\ rows'[i] = rows[i]
<1>1. Sync(s) \/ Fails(s)
  BY OnePassAtATime
<1>2. CASE UNCHANGED rows
  BY <1>2
<1>3. CASE Update(s)
  BY <1>3 DEF Update, IInv, StillOurs
<1>4. CASE Claim(s)
  <2>1. NewId # i
    BY NewIdIsFresh DEF IInv
  <2> QED
    BY <1>4, <2>1 DEF Claim, Insert, Put
<1>5. ASSUME NEW j \in pass[s].gone, Release(s, j) PROVE i \in DOMAIN rows' /\ rows'[i] = rows[i]
  <2>1. i # j
    BY <1>5 DEF IInv, StillOurs
  <2> QED
    BY <1>5, <2>1 DEF Release, SetReleased
<1>6. CASE ReleaseFrees(s)
  <2>1. i # pass[s].id
    BY <1>6 DEF ReleaseFrees, IInv, StillOurs
  <2> QED
    BY <1>6, <2>1 DEF ReleaseFrees, Free, Drop
<1> QED
  BY <1>1, <1>2, <1>3, <1>4, <1>5, <1>6
     DEF Sync, Snapshot, Look, ListOurs, Fails, PassFails, StatementFails, LookFails

\* On Postgres neither reconciler ever changes or releases a row of another owner, however
\* the API and the other reconciler come in between its look and its write.
THEOREM OwnersAreRespected == Spec => OthersUntouched
<1> DEFINE Kept == \A s \in Sources : engine = "postgres" /\ pass'[s] # pass[s] =>
                     \A i \in DOMAIN rows : rows[i].by # s => i \in DOMAIN rows' /\ rows'[i] = rows[i]
<1>1. IInv /\ [Next]_vars => [Kept]_vars
  BY OthersStay DEF vars
<1> QED
  BY <1>1, Invariance, PTL DEF Spec, OthersUntouched

-----------------------------------------------------------------------------
(* A pass and the hostnames of objects that stay as they are.                  *)

\* Row i is the hostname of an object nobody touched since the pass of s began, and
\* whose label no other object of s asks for.
Live(s, i, o) ==
    /\ o \in steady[s] /\ Plain(s, o)
    /\ i \in DOMAIN rows /\ Hostname(s, i, o)

\* Such an object is in the snapshot as it is, and alone with its label.
SeenSound(s) ==
    pass[s].step \in {"each", "update", "claim", "blind"} =>
       \A o \in steady[s] : Plain(s, o) =>
          \A u \in Of(s) : pass[s].seen[u] = objects[o] <=> u = o

\* Its row is neither being updated nor among those to release.
LiveSound(s) ==
    \A o \in Objects : \A i \in DOMAIN rows : Live(s, i, o) =>
       /\ i \notin pass[s].gone
       /\ pass[s].step \in {"update", "free"} => pass[s].id # i

GoneSound(s) == pass[s].step \notin {"drop", "free"} => pass[s].gone = {}

KInv == IInv /\ \A s \in Sources : SeenSound(s) /\ LiveSound(s) /\ GoneSound(s)

-----------------------------------------------------------------------------
\* An object that is plain writes the label it is counted under.
LEMMA PlainWrites ==
    ASSUME NEW s, NEW o, Plain(s, o)
    PROVE  objects[o] \in Labels /\ objects[o] # Nothing /\ Norm[objects[o]] = objects[o]
BY SpellingsAssumption, NothingAssumption DEF Plain

\* A change of another object touches this one whenever they shared a label.
LEMMA ChangeKeepsPlain ==
    ASSUME IInv, NEW u \in Objects, ChangeObject(u), NEW s \in Sources, NEW o \in Objects,
           o \in steady'[s], Plain(s, o)'
    PROVE  o \in steady[s] /\ Plain(s, o) /\ objects'[o] = objects[o]
<1>1. PICK w : /\ objects' = [objects EXCEPT ![u] = w]
               /\ Touched({u} \cup Rivals(objects[u]) \cup Rivals(w))
  BY DEF ChangeObject
<1>2. o \in steady[s] /\ o # u /\ o \notin Rivals(objects[u])
  BY <1>1 DEF Touched
<1>3. \A v \in Objects : v # u => objects'[v] = objects[v]
  BY <1>1 DEF IInv, TypeOK
<1>4. objects'[o] = objects[o]
  BY <1>2, <1>3
<1>5. /\ o \in Of(s) /\ objects[o] \in Labels
      /\ \A v \in Of(s) : v \in Writing(objects[o])' <=> v = o
  BY <1>4 DEF Plain
<1>6. objects[o] # Nothing /\ Norm[objects[o]] = objects[o]
  BY <1>5, SpellingsAssumption, NothingAssumption
<1>7. u \notin Writing(objects[o])
  BY <1>2, <1>6 DEF Rivals, Writing
<1>8. \A v \in Objects : v # u => (v \in Writing(objects[o])' <=> v \in Writing(objects[o]))
  BY <1>3, <1>4 DEF Writing
<1>9. \A v \in Of(s) : v \in Writing(objects[o]) <=> v = o
  BY <1>2, <1>5, <1>7, <1>8 DEF Of, Objects
<1> QED
  BY <1>2, <1>4, <1>5, <1>9 DEF Plain

\* A row set to released is the same row otherwise.
LEMMA SetReleasedLeaves ==
    ASSUME IInv, NEW j \in DOMAIN rows, SetReleased(j)
    PROVE  /\ DOMAIN rows' = DOMAIN rows
           /\ \A i \in DOMAIN rows : /\ i # j => rows'[i] = rows[i]
                                     /\ rows'[i].label = rows[i].label
                                     /\ rows'[i].by = rows[i].by
                                     /\ rows'[i].ref = rows[i].ref
<1>1. rows[j] \in Row
  BY DEF IInv, TypeOK
<1>2. /\ rows'[j] = [rows[j] EXCEPT !.state = "released"] /\ DOMAIN rows' = DOMAIN rows
      /\ \A i \in DOMAIN rows : i # j => rows'[i] = rows[i]
  BY DEF SetReleased
<1>3. rows'[j].label = rows[j].label /\ rows'[j].by = rows[j].by /\ rows'[j].ref = rows[j].ref
  BY <1>1, <1>2 DEF Row
<1> QED
  BY <1>2, <1>3

\* Whoever makes a row the hostname of an object touches it, unless it is its own
\* reconciler.
LEMMA OthersMakeNoneLive ==
    ASSUME IInv, NEW s \in Sources, NEW o \in Objects, NEW i \in DOMAIN rows', Live(s, i, o)',
           \/ Api \/ \E u \in Objects : ChangeObject(u)
           \/ \E t \in Sources \ {s} : Sync(t) \/ Fails(t)
    PROVE  Live(s, i, o)
<1>0. /\ o \in steady'[s] /\ Plain(s, o)'
      /\ rows'[i].label = objects'[o] /\ rows'[i].by = s /\ rows'[i].ref = o
      /\ steady \in [Sources -> SUBSET Objects]
      /\ \A j \in DOMAIN rows : rows[j] \in Row
  BY DEF Live, Hostname, IInv, TypeOK
<1>1. ASSUME NEW u \in Objects, ChangeObject(u) PROVE Live(s, i, o)
  BY <1>0, <1>1, ChangeKeepsPlain DEF ChangeObject, Live, Hostname
<1>2. ASSUME UNCHANGED objects, steady'[s] \subseteq steady[s]
      PROVE  o \in steady[s] /\ Plain(s, o) /\ rows'[i].label = objects[o]
  BY <1>0, <1>2 DEF Plain, Writing
<1>3. ASSUME UNCHANGED objects, steady'[s] \subseteq steady[s], i \in DOMAIN rows,
             rows[i].label = rows'[i].label, rows[i].by = rows'[i].by, rows[i].ref = rows'[i].ref
      PROVE  Live(s, i, o)
  BY <1>0, <1>2, <1>3 DEF Live, Hostname
<1>4. ASSUME NEW l \in Labels, ApiClaim(l) PROVE Live(s, i, o)
  <2>1. UNCHANGED objects /\ steady'[s] \subseteq steady[s]
    BY <1>4 DEF ApiClaim, Touched
  <2>2. rows' = Put(rows, NewId, [label |-> l, by |-> "api", ref |-> Nothing,
                                       state |-> "active"]) \/ rows' = rows
    BY <1>4 DEF ApiClaim, Insert
  <2>3. rows'[i].by = s /\ s # "api"
    BY <1>0 DEF Sources
  <2>4. i \in DOMAIN rows /\ rows'[i] = rows[i]
    BY <2>2, <2>3 DEF Put
  <2> QED
    BY <1>3, <2>1, <2>4
<1>5. ASSUME NEW j \in DOMAIN rows, ApiRelease(j) PROVE Live(s, i, o)
  <2>1. UNCHANGED objects /\ steady'[s] \subseteq steady[s]
    BY <1>5 DEF ApiRelease, Touched
  <2>2. /\ i \in DOMAIN rows
        /\ rows[i].label = rows'[i].label /\ rows[i].by = rows'[i].by /\ rows[i].ref = rows'[i].ref
    BY <1>0, <1>5, SetReleasedLeaves DEF ApiRelease
  <2> QED
    BY <1>3, <2>1, <2>2
<1>8. ASSUME NEW j \in freeing, ApiFrees(j) \/ ApiCut(j) PROVE Live(s, i, o)
  <2>1. UNCHANGED objects /\ steady'[s] \subseteq steady[s]
    BY <1>8 DEF ApiFrees, ApiCut, Touched
  <2>2. i \in DOMAIN rows /\ rows'[i] = rows[i]
    BY <1>8 DEF ApiFrees, ApiCut, Free, Drop
  <2> QED
    BY <1>3, <2>1, <2>2
<1>6. ASSUME NEW j \in DOMAIN rows, ApiEdit(j) PROVE Live(s, i, o)
  <2>1. UNCHANGED objects /\ steady'[s] \subseteq steady[s] /\ DOMAIN rows' = DOMAIN rows
    BY <1>6 DEF ApiEdit, Touched
  <2>2. CASE rows' = [rows EXCEPT ![j].ref = Nothing]
    <3>1. j # i
      <4>1. rows'[j] = [rows[j] EXCEPT !.ref = Nothing] /\ rows[j] \in Row
        BY <1>0, <2>2
      <4>2. rows'[j].ref = Nothing
        BY <4>1 DEF Row
      <4>3. rows'[i].ref = o /\ o # Nothing
        BY <1>0, NothingAssumption DEF Objects
      <4> QED
        BY <4>2, <4>3
    <3> QED
      BY <1>3, <2>1, <2>2, <3>1
  <2>3. ASSUME NEW l \in Labels, rows' = [rows EXCEPT ![j].label = l],
               Touched(Writing(rows[j].label) \cup Writing(l))
        PROVE  Live(s, i, o)
    <3>1. j # i
      <4>1. rows'[j] = [rows[j] EXCEPT !.label = l] /\ rows[j] \in Row
        BY <1>0, <2>3
      <4>2. rows'[j].label = l
        BY <4>1 DEF Row
      <4>3. o \notin Writing(l)
        BY <1>0, <2>3 DEF Touched
      <4>4. objects[o] # l
        <5>1. Plain(s, o)
          BY <1>2, <2>1
        <5> QED
          BY <4>3, <5>1, PlainWrites DEF Writing
      <4>5. rows'[i].label = objects[o]
        BY <1>0, <2>1
      <4> QED
        BY <4>2, <4>4, <4>5
    <3> QED
      BY <1>3, <2>1, <2>3, <3>1
  <2> QED
    BY <1>6, <2>2, <2>3 DEF ApiEdit
<1>7. ASSUME NEW t \in Sources \ {s}, Sync(t) \/ Fails(t) PROVE Live(s, i, o)
  <2>1. UNCHANGED objects
    BY <1>7 DEF Sync, Fails, PassFails, StatementFails, LookFails, Snapshot, Look, Update, Claim, ListOurs, Onward, Release, ReleaseFrees
  <2>2. steady'[s] = steady[s]
    BY <1>0, <1>7 DEF Sync, Fails, PassFails, StatementFails, LookFails, Snapshot, Look, Update, Claim, ListOurs, Onward, Release, ReleaseFrees
  <2>3. CASE Update(t)
    <3>1. CASE i = pass[t].id /\ i \in DOMAIN rows
      <4>1. /\ rows'[i] = [rows[i] EXCEPT !.by = t, !.ref = pass[t].at, !.state = pass[t].was]
            /\ rows[i] \in Row
        BY <1>0, <2>3, <3>1 DEF Update
      <4>2. rows'[i].by = t
        BY <4>1 DEF Row
      <4> QED
        BY <1>0, <1>7, <4>2
    <3>2. CASE ~ (i = pass[t].id /\ i \in DOMAIN rows)
      <4>1. i \in DOMAIN rows /\ rows'[i] = rows[i]
        BY <2>3, <3>2 DEF Update
      <4> QED
        BY <1>3, <2>1, <2>2, <4>1
    <3> QED
      BY <3>1, <3>2
  <2>4. CASE Claim(t)
    <3>1. PICK r : /\ r.by = t
                   /\ rows' = Put(rows, NewId, r) \/ rows' = rows
      BY <2>4 DEF Claim, Insert
    <3>2. rows'[i] # r
      BY <1>0, <1>7, <3>1
    <3>3. i \in DOMAIN rows /\ rows'[i] = rows[i]
      BY <3>1, <3>2 DEF Put
    <3> QED
      BY <1>3, <2>1, <2>2, <3>3
  <2>5. ASSUME NEW j, Release(t, j) PROVE Live(s, i, o)
    <3>1. CASE j \in DOMAIN rows
      BY <1>0, <1>3, <2>1, <2>2, <2>5, <3>1, SetReleasedLeaves DEF Release
    <3>2. CASE j \notin DOMAIN rows
      BY <1>3, <2>1, <2>2, <2>5, <3>2 DEF Release
    <3> QED
      BY <3>1, <3>2
  <2>7. CASE ReleaseFrees(t)
    BY <1>3, <2>1, <2>2, <2>7 DEF ReleaseFrees, Free, Drop
  <2>6. ASSUME UNCHANGED rows PROVE Live(s, i, o)
    BY <1>3, <2>1, <2>2, <2>6
  <2> QED
    BY <1>7, <2>3, <2>4, <2>5, <2>6, <2>7 DEF Sync, Fails, PassFails, StatementFails, LookFails, Snapshot, Look, ListOurs
<1> QED
  BY <1>1, <1>4, <1>5, <1>6, <1>7, <1>8 DEF Api, ApiGoesOn

-----------------------------------------------------------------------------
LEMMA OthersLeavePass ==
    ASSUME KInv, NEW s \in Sources,
           \/ Api \/ \E u \in Objects : ChangeObject(u)
           \/ \E t \in Sources \ {s} : Sync(t) \/ Fails(t)
    PROVE  UNCHANGED pass[s]
<1>1. ASSUME NEW t \in Sources \ {s}, Sync(t) \/ Fails(t) PROVE UNCHANGED pass[s]
  <2>1. PICK p : pass' = [pass EXCEPT ![t] = p]
    BY <1>1 DEF Sync, Snapshot, Look, Update, Claim, Turn, ListOurs, Onward, Release, ReleaseFrees, Fails, PassFails, StatementFails, LookFails, Step
  <2> QED
    BY <2>1 DEF KInv, IInv, TypeOK
<1> QED
  BY <1>1 DEF Api, ApiClaim, ApiRelease, ApiGoesOn, ApiFrees, ApiCut, ApiEdit, ChangeObject

\* What is steady and plain after somebody else's step was so before it.
LEMMA OthersKeepPlain ==
    ASSUME KInv, NEW s \in Sources, NEW o \in steady'[s], Plain(s, o)',
           \/ Api \/ \E u \in Objects : ChangeObject(u)
           \/ \E t \in Sources \ {s} : Sync(t) \/ Fails(t)
    PROVE  o \in steady[s] /\ Plain(s, o) /\ objects'[o] = objects[o]
<1>1. steady \in [Sources -> SUBSET Objects] /\ steady' \in [Sources -> SUBSET Objects]
  <2>1. IInv'
    BY OthersKeepIInv, SyncKeepsIInv, FailsKeepIInv DEF KInv
  <2> QED
    BY <2>1 DEF KInv, IInv, TypeOK
<1>2. ASSUME NEW u \in Objects, ChangeObject(u)
      PROVE  o \in steady[s] /\ Plain(s, o) /\ objects'[o] = objects[o]
  BY <1>1, <1>2, ChangeKeepsPlain DEF KInv
<1>3. ASSUME UNCHANGED objects, steady'[s] \subseteq steady[s]
      PROVE  o \in steady[s] /\ Plain(s, o) /\ objects'[o] = objects[o]
  BY <1>3 DEF Plain, Writing
<1>4. ASSUME Api PROVE UNCHANGED objects /\ steady'[s] \subseteq steady[s]
  BY <1>4 DEF Api, ApiClaim, ApiRelease, ApiGoesOn, ApiFrees, ApiCut, ApiEdit, Touched
<1>5. ASSUME NEW t \in Sources \ {s}, Sync(t) \/ Fails(t)
      PROVE  UNCHANGED objects /\ steady'[s] \subseteq steady[s]
  BY <1>1, <1>5 DEF Sync, Snapshot, Look, Update, Claim, ListOurs, Onward, Release, ReleaseFrees, Fails, PassFails, StatementFails, LookFails
<1> QED
  BY <1>2, <1>3, <1>4, <1>5

\* Nobody else's step disturbs a pass.
LEMMA OthersKeepKInv ==
    ASSUME KInv, NEW s \in Sources,
           \/ Api \/ \E u \in Objects : ChangeObject(u)
           \/ \E t \in Sources \ {s} : Sync(t) \/ Fails(t)
    PROVE  SeenSound(s)' /\ LiveSound(s)' /\ GoneSound(s)'
<1>0. IInv /\ SeenSound(s) /\ LiveSound(s) /\ GoneSound(s)
  BY DEF KInv
<1>1. UNCHANGED pass[s]
  BY OthersLeavePass
<1>3. ASSUME NEW o \in steady'[s], Plain(s, o)'
      PROVE  o \in steady[s] /\ Plain(s, o) /\ objects'[o] = objects[o]
  BY <1>3, OthersKeepPlain
<1>4. SeenSound(s)'
  BY <1>0, <1>1, <1>3 DEF SeenSound, Of
<1>5. LiveSound(s)'
  <2> SUFFICES ASSUME NEW o \in Objects, NEW i \in DOMAIN rows', Live(s, i, o)'
               PROVE  /\ i \notin pass'[s].gone
                      /\ pass'[s].step \in {"update", "free"} => pass'[s].id # i
    BY DEF LiveSound, Live
  <2>1. Live(s, i, o)
    BY <1>0, OthersMakeNoneLive
  <2>2. i \in DOMAIN rows
    BY <2>1 DEF Live
  <2> QED
    BY <1>0, <1>1, <2>1, <2>2 DEF LiveSound
<1>6. GoneSound(s)'
  BY <1>0, <1>1 DEF GoneSound
<1> QED
  BY <1>4, <1>5, <1>6

\* The snapshot is of the objects as they are.
LEMMA SnapshotKeepsKInv ==
    ASSUME KInv, NEW s \in Sources, Snapshot(s)
    PROVE  SeenSound(s)' /\ LiveSound(s)' /\ GoneSound(s)'
<1>1. /\ pass'[s].step = "each" /\ pass'[s].gone = {}
      /\ \A u \in Of(s) : pass'[s].seen[u] = objects[u]
  <2> DEFINE seen == [o \in Objects |-> IF o \in Of(s) THEN objects[o] ELSE Nothing]
             p == [Idle EXCEPT !.step = "each", !.seen = seen,
                               !.todo = {o \in Objects : seen[o] # Nothing}]
  <2>1. pass'[s] = p
    BY DEF Snapshot, Step, KInv, IInv, TypeOK
  <2>2. p.step = "each" /\ p.gone = {} /\ p.seen = seen
    BY DEF Idle
  <2>3. \A u \in Of(s) : seen[u] = objects[u]
    BY DEF Of, Objects
  <2> QED
    BY <2>1, <2>2, <2>3
<1>2. UNCHANGED objects
  BY DEF Snapshot
<1>3. ASSUME NEW o \in steady'[s], Plain(s, o), NEW u \in Of(s)
      PROVE  objects[u] = objects[o] <=> u = o
  BY <1>3, PlainWrites DEF Plain, Writing, Of, Objects
<1>4. SeenSound(s)'
  BY <1>1, <1>2, <1>3 DEF SeenSound, Of, Plain, Writing
<1> QED
  BY <1>1, <1>4 DEF LiveSound, GoneSound

\* A row looked at under the label of a plain object is looked at for that object.
LEMMA LookKeepsKInv ==
    ASSUME KInv, NEW s \in Sources, NEW u \in Of(s), Look(s, u) \/ LookFails(s, u)
    PROVE  SeenSound(s)' /\ LiveSound(s)' /\ GoneSound(s)'
<1>0. /\ IInv /\ SeenSound(s) /\ LiveSound(s) /\ GoneSound(s)
      /\ pass[s].step = "each" /\ pass[s].gone = {}
      /\ UNCHANGED <<rows, objects, steady>>
  BY DEF KInv, IInv, TypeOK, Look, LookFails, GoneSound
<1>1. PICK p : /\ pass'[s] = p /\ p.gone = {} /\ p.seen = pass[s].seen
               /\ p.step \in {"each", "update", "claim", "blind"}
               /\ p.step = "update" => /\ p.id \in Find(pass[s].seen[u])
                                       /\ rows[p.id].by = s /\ rows[p.id].ref # u
  BY <1>0, LookLeads
<1>3. SeenSound(s)'
  <2>1. \A o \in steady[s] : Plain(s, o) =>
           \A v \in Of(s) : pass[s].seen[v] = objects[o] <=> v = o
    BY <1>0 DEF SeenSound
  <2>2. pass'[s].seen = pass[s].seen
    BY <1>1
  <2> QED
    BY <1>0, <2>1, <2>2 DEF SeenSound, Of, Plain, Writing
<1>4. LiveSound(s)'
  <2> SUFFICES ASSUME NEW o \in Objects, NEW i \in DOMAIN rows', Live(s, i, o)',
                      p.step = "update", p.id = i
               PROVE  FALSE
    BY <1>1 DEF LiveSound
  <2>1. Live(s, i, o)
    BY <1>0 DEF Live, Hostname, Plain, Writing, Of
  <2>2. rows[i].label = objects[o] /\ rows[i].ref = o /\ o \in steady[s] /\ Plain(s, o)
    BY <2>1 DEF Live, Hostname
  <2>3. pass[s].seen[u] = objects[o]
    BY <1>1, <2>2 DEF Find
  <2>4. u = o
    BY <1>0, <2>2, <2>3 DEF SeenSound
  <2> QED
    BY <1>1, <2>2, <2>4
<1> QED
  BY <1>1, <1>3, <1>4 DEF GoneSound

\* A write ends the turn of an object; the snapshot stays, and nothing is to be released.
LEMMA WriteKeepsKInv ==
    ASSUME KInv, NEW s \in Sources, Turn(s), UNCHANGED <<objects, steady>>,
           pass[s].step \in {"update", "claim", "blind"}
    PROVE  SeenSound(s)' /\ LiveSound(s)' /\ GoneSound(s)'
<1>0. SeenSound(s) /\ GoneSound(s) /\ IInv
  BY DEF KInv
<1>2. pass'[s].step = "each" /\ pass'[s].gone = {} /\ pass'[s].seen = pass[s].seen
  <2>1. PICK p : /\ pass' = [pass EXCEPT ![s] = p]
                 /\ p.step = "each" /\ p.gone = pass[s].gone /\ p.seen = pass[s].seen
    BY <1>0, TurnIsAPass
  <2> QED
    BY <1>0, <2>1 DEF GoneSound, IInv, TypeOK
<1>3. SeenSound(s)'
  BY <1>0, <1>2 DEF SeenSound, Of, Plain, Writing
<1> QED
  BY <1>2, <1>3 DEF LiveSound, GoneSound

\* The label of an object of the snapshot is wanted.
LEMMA ListOursKeepsKInv ==
    ASSUME KInv, NEW s \in Sources, ListOurs(s)
    PROVE  SeenSound(s)' /\ LiveSound(s)' /\ GoneSound(s)'
<1> DEFINE G == {i \in DOMAIN rows : /\ rows[i].by = s /\ rows[i].state # "released"
                                     /\ ~Wanted(s, i)}
<1>0. SeenSound(s) /\ pass[s].step = "each" /\ UNCHANGED <<rows, objects, steady>> /\ IInv
  BY DEF KInv, ListOurs
<1>1. /\ pass'[s].step \in {"idle", "drop"} /\ pass'[s].gone = G
      /\ pass'[s].step = "idle" => G = {}
  <2>1. G \in SUBSET Nat /\ Onward(s, G)
    BY DEF ListOurs, KInv, IInv, TypeOK
  <2> HIDE DEF G
  <2>2. PICK p : pass' = [pass EXCEPT ![s] = p] /\ p.gone = G /\ p.step = IF G = {} THEN "idle" ELSE "drop"
    BY <2>1, OnwardIsAPass
  <2> QED
    BY <1>0, <2>2 DEF IInv, TypeOK
<1>2. ASSUME NEW o \in Objects, NEW i \in DOMAIN rows, Live(s, i, o) PROVE i \notin G
  BY <1>0, <1>2 DEF Live, Hostname, SeenSound, Plain, Wanted
<1>3. LiveSound(s)'
  <2> SUFFICES ASSUME NEW o \in Objects, NEW i \in DOMAIN rows', Live(s, i, o)'
               PROVE  i \notin pass'[s].gone
    BY <1>1 DEF LiveSound
  <2>1. Live(s, i, o)
    BY <1>0 DEF Live, Hostname, Plain, Writing, Of
  <2> QED
    BY <1>0, <1>1, <1>2, <2>1
<1> QED
  BY <1>1, <1>3 DEF SeenSound, GoneSound

\* Releasing goes on with fewer rows, none of them the hostname of a live object.
LEMMA OnwardKeepsKInv ==
    ASSUME KInv, NEW s \in Sources, NEW G \in SUBSET pass[s].gone, Onward(s, G),
           UNCHANGED <<objects, steady>>,
           \A o \in Objects : \A i \in DOMAIN rows' : Live(s, i, o)' => Live(s, i, o)
    PROVE  SeenSound(s)' /\ LiveSound(s)' /\ GoneSound(s)'
<1>0. LiveSound(s) /\ IInv /\ G \in SUBSET Nat
  BY DEF KInv, IInv, TypeOK, Pass
<1>1. /\ pass'[s].step \in {"idle", "drop"} /\ pass'[s].gone = G
      /\ pass'[s].step = "idle" => G = {}
  <2>1. PICK p : pass' = [pass EXCEPT ![s] = p] /\ p.gone = G /\ p.step = IF G = {} THEN "idle" ELSE "drop"
    BY <1>0, OnwardIsAPass
  <2> QED
    BY <1>0, <2>1 DEF IInv, TypeOK
<1>2. LiveSound(s)'
  <2> SUFFICES ASSUME NEW o \in Objects, NEW i \in DOMAIN rows', Live(s, i, o)'
               PROVE  i \notin G
    BY <1>1 DEF LiveSound
  <2>1. Live(s, i, o) /\ i \in DOMAIN rows
    BY DEF Live
  <2> QED
    BY <1>0, <2>1 DEF LiveSound
<1> QED
  BY <1>1, <1>2 DEF SeenSound, GoneSound

LEMMA ReleaseKeepsKInv ==
    ASSUME KInv, NEW s \in Sources, NEW j \in pass[s].gone, Release(s, j)
    PROVE  SeenSound(s)' /\ LiveSound(s)' /\ GoneSound(s)'
<1>0. LiveSound(s) /\ pass[s] \in Pass /\ IInv /\ UNCHANGED <<objects, steady>>
  BY DEF KInv, IInv, TypeOK, Release
<1>1. CASE j \in DOMAIN rows
  <2>1. pass'[s].step = "free" /\ pass'[s].id = j /\ pass'[s].gone = pass[s].gone \ {j}
    <3>1. pass'[s] = [pass[s] EXCEPT !.step = "free", !.id = j, !.gone = @ \ {j}]
      BY <1>0, <1>1 DEF Release, Step, IInv, TypeOK
    <3> QED
      BY <1>0, <3>1 DEF Pass
  <2>2. LiveSound(s)'
    <3> SUFFICES ASSUME NEW o \in Objects, NEW i \in DOMAIN rows', Live(s, i, o)'
                 PROVE  i \notin pass[s].gone
      BY <2>1 DEF LiveSound
    <3>1. Live(s, i, o) /\ i \in DOMAIN rows
      BY <1>0, <1>1, SetReleasedLeaves DEF Release, Live, Hostname, Plain, Writing, Of
    <3> QED
      BY <1>0, <3>1 DEF LiveSound
  <2> QED
    BY <2>1, <2>2 DEF SeenSound, GoneSound
<1>2. CASE j \notin DOMAIN rows
  <2>1. UNCHANGED rows /\ Onward(s, pass[s].gone \ {j})
    BY <1>2 DEF Release
  <2>2. \A o \in Objects : \A i \in DOMAIN rows' : Live(s, i, o)' => Live(s, i, o)
    BY <1>0, <2>1 DEF Live, Hostname, Plain, Writing, Of
  <2> QED
    BY <1>0, <2>1, <2>2, OnwardKeepsKInv
<1> QED
  BY <1>1, <1>2

LEMMA ReleaseFreesKeepsKInv ==
    ASSUME KInv, NEW s \in Sources, ReleaseFrees(s)
    PROVE  SeenSound(s)' /\ LiveSound(s)' /\ GoneSound(s)'
<1>1. UNCHANGED <<objects, steady>> /\ Onward(s, pass[s].gone)
  BY DEF ReleaseFrees
<1>2. ASSUME NEW o \in Objects, NEW i \in DOMAIN rows', Live(s, i, o)' PROVE Live(s, i, o)
  <2>1. i \in DOMAIN rows /\ rows'[i] = rows[i]
    BY DEF ReleaseFrees, Free, Drop
  <2> QED
    BY <1>1, <1>2, <2>1 DEF Live, Hostname, Plain, Writing, Of
<1> QED
  BY <1>1, <1>2, OnwardKeepsKInv

LEMMA FailsKeepKInv ==
    ASSUME KInv, NEW s \in Sources, Fails(s)
    PROVE  SeenSound(s)' /\ LiveSound(s)' /\ GoneSound(s)'
<1>1. CASE PassFails(s)
  <2>1. pass'[s] = Idle
    BY <1>1 DEF PassFails, Step, OnError, KInv, IInv, TypeOK
  <2> QED
    BY <2>1, IdleIsAPass DEF SeenSound, LiveSound, GoneSound
<1>2. CASE StatementFails(s)
  <2>1. UNCHANGED <<rows, objects, steady>>
    BY <1>2 DEF StatementFails
  <2>2. CASE Turn(s) /\ pass[s].step \in {"update", "claim", "blind"}
    BY <2>1, <2>2, WriteKeepsKInv
  <2>3. CASE ~ (Turn(s) /\ pass[s].step \in {"update", "claim", "blind"})
    <3>1. PICK G \in SUBSET pass[s].gone : Onward(s, G)
      BY <1>2, <2>3 DEF StatementFails
    <3>2. \A o \in Objects : \A i \in DOMAIN rows' : Live(s, i, o)' => Live(s, i, o)
      BY <2>1 DEF Live, Hostname, Plain, Writing, Of
    <3> QED
      BY <2>1, <3>1, <3>2, OnwardKeepsKInv
  <2> QED
    BY <2>2, <2>3
<1>3. ASSUME NEW o \in Of(s), LookFails(s, o) PROVE SeenSound(s)' /\ LiveSound(s)' /\ GoneSound(s)'
  BY <1>3, LookKeepsKInv
<1> QED
  BY <1>1, <1>2, <1>3 DEF Fails

LEMMA NextKInv == KInv /\ [Next]_vars => KInv'
<1> SUFFICES ASSUME KInv, [Next]_vars PROVE KInv'
  OBVIOUS
<1>1. IInv'
  BY NextIInv DEF KInv
<1>2. ASSUME NEW s \in Sources PROVE SeenSound(s)' /\ LiveSound(s)' /\ GoneSound(s)'
  <2>1. CASE Sync(s)
    <3>1. CASE Update(s) \/ Claim(s)
      BY <3>1, WriteKeepsKInv DEF Update, Claim
    <3> QED
      BY <2>1, <3>1, SnapshotKeepsKInv, LookKeepsKInv, ListOursKeepsKInv, ReleaseKeepsKInv,
         ReleaseFreesKeepsKInv DEF Sync
  <2>2. CASE Fails(s)
    BY <2>2, FailsKeepKInv
  <2>3. CASE UNCHANGED vars
    BY <2>3 DEF KInv, vars, SeenSound, LiveSound, GoneSound, Live, Hostname, Plain,
                   Writing, Of
  <2>4. CASE \/ Api \/ \E u \in Objects : ChangeObject(u)
             \/ \E t \in Sources \ {s} : Sync(t) \/ Fails(t)
    BY <2>4, OthersKeepKInv
  <2> QED
    BY <2>1, <2>2, <2>3, <2>4 DEF Next, DockerSync, CrdSync, Sources
<1> QED
  BY <1>1, <1>2 DEF KInv

LEMMA InitKInv == Init => KInv
<1> SUFFICES ASSUME Init PROVE KInv
  OBVIOUS
<1>1. \A s \in Sources : pass[s] = Idle
  BY DEF Init
<1> QED
  BY <1>1, InitIInv, IdleIsAPass DEF KInv, SeenSound, LiveSound, GoneSound

\* A step of a pass leaves the row of an object that stayed as it was alone.
LEMMA LiveStays ==
    ASSUME KInv, Next, NEW s \in Sources, pass'[s] # pass[s],
           NEW i \in DOMAIN rows, NEW o \in steady[s], Live(s, i, o)
    PROVE  i \in DOMAIN rows' /\ rows'[i] = rows[i]
<1>0. IInv /\ LiveSound(s) /\ o \in Objects
  BY DEF KInv, IInv, TypeOK
<1>1. Sync(s) \/ Fails(s)
  BY <1>0, OnePassAtATime
<1>2. CASE UNCHANGED rows
  BY <1>2
<1>3. CASE Update(s)
  <2>1. pass[s].id # i
    BY <1>0, <1>3 DEF LiveSound, Update
  <2> QED
    BY <1>3, <2>1 DEF Update
<1>4. CASE Claim(s)
  <2>1. NewId # i
    BY <1>0, NewIdIsFresh DEF IInv
  <2> QED
    BY <1>4, <2>1 DEF Claim, Insert, Put
<1>5. ASSUME NEW j \in pass[s].gone, Release(s, j) PROVE i \in DOMAIN rows' /\ rows'[i] = rows[i]
  <2>1. i # j
    BY <1>0, <1>5 DEF LiveSound
  <2> QED
    BY <1>5, <2>1 DEF Release, SetReleased
<1>6. CASE ReleaseFrees(s)
  <2>1. i # pass[s].id
    BY <1>0, <1>6 DEF LiveSound, ReleaseFrees
  <2> QED
    BY <1>6, <2>1 DEF ReleaseFrees, Free, Drop
<1> QED
  BY <1>1, <1>2, <1>3, <1>4, <1>5, <1>6
     DEF Sync, Snapshot, Look, ListOurs, Fails, PassFails, StatementFails, LookFails

LEMMA SpecKInv == Spec => []KInv
<1> QED
  BY InitKInv, NextKInv, PTL DEF Spec

\* No pass of a reconciler, whatever comes between its statements and wherever it fails,
\* releases or rewrites the hostname of a container or reservation that stayed as it was
\* since the pass began: for any number of objects, labels, changes and restarts.
THEOREM LiveNamesAreKept == Spec => LiveKept
<1> DEFINE Kept == \A s \in Sources : pass'[s] # pass[s] =>
                     \A i \in DOMAIN rows : \A o \in steady[s] :
                        Plain(s, o) /\ Hostname(s, i, o)
                           => i \in DOMAIN rows' /\ rows'[i] = rows[i]
<1>1. KInv /\ [Next]_vars => [Kept]_vars
  BY LiveStays DEF vars, Live
<1> QED
  BY <1>1, SpecKInv, PTL DEF Spec, LiveKept

-----------------------------------------------------------------------------
(* What a pass achieves: what safety has to say of Converges.                  *)

\* The label of o is held by somebody else, or by its reconciler for o; as a released row
\* only where a release was cut in two or the API has one under way.
HasName(s, o) == \E i \in Find(objects[o]) : rows[i].by = s =>
                    rows[i].ref = o /\ (rows[i].state = "active" \/ i \in cuts \cup freeing)

\* The pass of s is done with o by this step: what it looked up is in order, or the
\* update or claim for it was made. Not so when the lookup or the write fails.
TurnEnds(s, o) ==
    /\ pass'[s].step = "each" /\ upsets' = upsets
    /\ \/ pass[s].step = "each" /\ o \in pass[s].todo /\ o \notin pass'[s].todo
       \/ pass[s].step \in {"update", "claim"} /\ pass[s].at = o

\* An object nobody touches since a pass began, and that is alone with its label, has its
\* hostname when its turn is over, unless somebody else holds it, and no step of the pass
\* takes that away: so a pass that is left alone ends with every plain object served, but
\* for those a released row stands in the way of.
Proceeds(s, o) == /\ HasName(s, o) => HasName(s, o)'
                  /\ TurnEnds(s, o) => HasName(s, o)'
PassAdvances ==
    [][\A s \in Sources : engine = "postgres" /\ pass'[s] # pass[s] =>
          \A o \in steady[s] : Plain(s, o) => Proceeds(s, o)]_vars

\* For an object that stays as it is a claim is made while no row of its reconciler has its
\* label, and an update while the row that was looked up has it.
HandSound(s) ==
    engine = "postgres" /\ pass[s].at \in steady[s] /\ Plain(s, pass[s].at) =>
       /\ pass[s].step = "claim" => \A i \in Find(objects[pass[s].at]) : rows[i].by # s
       /\ pass[s].step = "update" => pass[s].id \in Find(objects[pass[s].at])

\* A released row is one a release was cut at, or is at; so is one a pass has a copy of.
FreedSound ==
    engine = "postgres" =>
       /\ \A i \in DOMAIN rows : rows[i].state = "released" =>
             \/ i \in cuts \cup freeing
             \/ \E s \in Sources : pass[s].step = "free" /\ pass[s].id = i
       /\ \A s \in Sources : /\ pass[s].step = "update" /\ pass[s].was = "released"
                             /\ pass[s].id \in DOMAIN rows
                             => pass[s].id \in cuts \cup freeing

HInv == KInv /\ FreedSound /\ \A s \in Sources : HandSound(s)

-----------------------------------------------------------------------------
(* Released rows. *)

\* What is left of the released rows, and of what the passes know of them, is accounted
\* for as it was, but for rows that are left behind or set to released by this step.
LEMMA FreedStays ==
    ASSUME FreedSound, UNCHANGED engine,
           engine = "postgres" =>
              /\ \A i \in DOMAIN rows' \cap (cuts \cup freeing) : i \in cuts' \cup freeing'
              /\ \A i \in DOMAIN rows' : rows'[i].state = "released" =>
                    \/ i \in DOMAIN rows /\ rows[i].state = "released"
                    \/ i \in cuts' \cup freeing'
                    \/ \E s \in Sources : pass'[s].step = "free" /\ pass'[s].id = i
              /\ \A s \in Sources : pass[s].step = "free" /\ pass[s].id \in DOMAIN rows' =>
                    \/ pass'[s].step = "free" /\ pass'[s].id = pass[s].id
                    \/ pass[s].id \in cuts' \cup freeing'
              /\ \A s \in Sources : /\ pass'[s].step = "update" /\ pass'[s].was = "released"
                                    /\ pass'[s].id \in DOMAIN rows'
                                    => \/ pass'[s].id \in cuts' \cup freeing'
                                       \/ /\ pass[s].step = "update" /\ pass[s].was = "released"
                                          /\ pass[s].id = pass'[s].id /\ pass[s].id \in DOMAIN rows
    PROVE  FreedSound'
<1> SUFFICES ASSUME engine = "postgres"
             PROVE  /\ \A i \in DOMAIN rows' : rows'[i].state = "released" =>
                          \/ i \in cuts' \cup freeing'
                          \/ \E s \in Sources : pass'[s].step = "free" /\ pass'[s].id = i
                    /\ \A s \in Sources : /\ pass'[s].step = "update" /\ pass'[s].was = "released"
                                          /\ pass'[s].id \in DOMAIN rows'
                                          => pass'[s].id \in cuts' \cup freeing'
  BY DEF FreedSound
<1>1. ASSUME NEW i \in DOMAIN rows', rows'[i].state = "released"
      PROVE  \/ i \in cuts' \cup freeing'
             \/ \E s \in Sources : pass'[s].step = "free" /\ pass'[s].id = i
  BY <1>1 DEF FreedSound
<1>2. ASSUME NEW s \in Sources, pass'[s].step = "update", pass'[s].was = "released",
             pass'[s].id \in DOMAIN rows'
      PROVE  pass'[s].id \in cuts' \cup freeing'
  BY <1>2 DEF FreedSound
<1> QED
  BY <1>1, <1>2

\* A row that is inserted is active, and nobody remembers its id.
LEMMA InsertIsNew ==
    ASSUME IInv, NEW r, r.state = "active", Insert(r)
    PROVE  /\ \A i \in DOMAIN rows' : rows'[i].state = "released" =>
                 i \in DOMAIN rows /\ rows[i].state = "released"
           /\ engine = "postgres" => \A i \in DOMAIN rows' \cap Remembered : i \in DOMAIN rows
<1>1. NewId \notin DOMAIN rows /\ (engine = "postgres" => NewId \notin Remembered)
  BY NewIdIsFresh DEF IInv
<1>2. CASE UNCHANGED rows
  BY <1>2
<1>3. CASE rows' = Put(rows, NewId, r)
  BY <1>1, <1>3 DEF Put
<1> QED
  BY <1>2, <1>3 DEF Insert

LEMMA ApiKeepsFreed ==
    ASSUME IInv, FreedSound, Api \/ \E u \in Objects : ChangeObject(u)
    PROVE  FreedSound'
<1>1. /\ UNCHANGED <<engine, pass>>
      /\ \A s \in Sources : pass[s].id \in Remembered
  BY DEF Api, ApiClaim, ApiRelease, ApiGoesOn, ApiFrees, ApiCut, ApiEdit, ChangeObject,
         Remembered
<1>2. ASSUME NEW l \in Labels, ApiClaim(l) PROVE FreedSound'
  <2>1. UNCHANGED <<cuts, freeing>> /\ \E r : r.state = "active" /\ Insert(r)
    BY <1>2 DEF ApiClaim
  <2> QED
    BY <1>1, <2>1, InsertIsNew, FreedStays
<1>3. ASSUME NEW j \in DOMAIN rows, ApiRelease(j) PROVE FreedSound'
  <2>1. freeing' = freeing \cup {j} /\ UNCHANGED cuts
    BY <1>3 DEF ApiRelease
  <2>2. DOMAIN rows' = DOMAIN rows /\ \A i \in DOMAIN rows : i # j => rows'[i] = rows[i]
    BY <1>3 DEF ApiRelease, SetReleased
  <2> QED
    BY <1>1, <2>1, <2>2, FreedStays
<1>4. ASSUME NEW j \in freeing, ApiFrees(j) PROVE FreedSound'
  <2>1. freeing' = freeing \ {j} /\ cuts' = cuts \ {j}
    BY <1>4 DEF ApiFrees, Free
  <2>2. DOMAIN rows' = DOMAIN rows \ {j} /\ \A i \in DOMAIN rows' : rows'[i] = rows[i]
    BY <1>4 DEF ApiFrees, Free, Drop
  <2> QED
    BY <1>1, <2>1, <2>2, FreedStays
<1>5. ASSUME NEW j \in freeing, ApiCut(j) PROVE FreedSound'
  <2>1. freeing' = freeing \ {j} /\ cuts' = cuts \cup ({j} \cap DOMAIN rows) /\ UNCHANGED rows
    BY <1>5 DEF ApiCut, LeftBehind
  <2> QED
    BY <1>1, <2>1, FreedStays
<1>6. ASSUME NEW j \in DOMAIN rows, ApiEdit(j) PROVE FreedSound'
  <2>1. UNCHANGED <<cuts, freeing>> /\ DOMAIN rows' = DOMAIN rows
    BY <1>6 DEF ApiEdit
  <2>2. \A i \in DOMAIN rows : i # j => rows'[i] = rows[i]
    BY <1>6 DEF ApiEdit
  <2>3. rows'[j].state = rows[j].state
    <3>1. rows[j] \in Row
      BY DEF IInv, TypeOK
    <3>2. \/ rows'[j] = [rows[j] EXCEPT !.ref = Nothing]
          \/ \E l \in Labels : rows'[j] = [rows[j] EXCEPT !.label = l]
      BY <1>6 DEF ApiEdit
    <3> QED
      BY <3>1, <3>2 DEF Row
  <2> QED
    BY <1>1, <2>1, <2>2, <2>3, FreedStays
<1>7. ASSUME NEW u \in Objects, ChangeObject(u) PROVE FreedSound'
  BY <1>1, <1>7, FreedStays DEF ChangeObject
<1> QED
  BY <1>2, <1>3, <1>4, <1>5, <1>6, <1>7 DEF Api, ApiGoesOn

\* A look at a released row of one's own: nobody but oneself could be about to delete it.
LEMMA LookKeepsFreed ==
    ASSUME IInv, FreedSound, NEW s \in Sources, NEW o \in Of(s), Look(s, o) \/ LookFails(s, o)
    PROVE  FreedSound'
<1>1. /\ UNCHANGED <<engine, rows, freeing, cuts>> /\ pass[s].step = "each"
      /\ pass \in [Sources -> Pass]
  BY DEF Look, LookFails, IInv, TypeOK
<1>2. PICK p \in Pass :
              /\ pass' = [pass EXCEPT ![s] = p] /\ p.step # "free"
              /\ p.step = "update" => /\ p.id \in DOMAIN rows /\ rows[p.id].by = s
                                      /\ p.was = rows[p.id].state
  BY LookLeads DEF Find
<1>3. \A t \in Sources : pass'[t] = IF t = s THEN p ELSE pass[t]
  BY <1>1, <1>2
<1>4. ASSUME engine = "postgres", p.step = "update", p.was = "released"
      PROVE  p.id \in cuts \cup freeing
  <2>1. ASSUME NEW t \in Sources, pass[t].step = "free", pass[t].id = p.id PROVE FALSE
    <3>1. rows[p.id].by = t
      BY <1>2, <1>4, <2>1 DEF IInv, StillOurs
    <3> QED
      BY <1>1, <1>2, <1>4, <2>1, <3>1
  <2> QED
    BY <1>2, <1>4, <2>1 DEF FreedSound
<1> QED
  BY <1>1, <1>3, <1>4, FreedStays

LEMMA SyncKeepsFreed ==
    ASSUME IInv, FreedSound, NEW s \in Sources, Sync(s) \/ Fails(s)
    PROVE  FreedSound'
<1>0. /\ UNCHANGED <<engine, freeing>>
      /\ pass \in [Sources -> Pass] /\ pass[s].id \in Nat
      /\ \A t \in Sources : pass[t].id \in Remembered
  BY DEF IInv, TypeOK, Pass, Remembered, Sync, Fails, PassFails, StatementFails, LookFails,
         Snapshot, Look, Update, Claim, ListOurs, Release, ReleaseFrees
<1>1. ASSUME NEW o \in Of(s), Look(s, o) \/ LookFails(s, o) PROVE FreedSound'
  BY <1>1, LookKeepsFreed
\* Steps after which the pass has no row in hand.
<1>2. ASSUME NEW p, pass' = [pass EXCEPT ![s] = p], p.step \notin {"update", "free"},
             \A i \in DOMAIN rows' \cap cuts : i \in cuts',
             pass[s].step = "free" /\ pass[s].id \in DOMAIN rows' => pass[s].id \in cuts',
             \A i \in DOMAIN rows' : rows'[i].state = "released" =>
                 (i \in DOMAIN rows /\ rows[i].state = "released") \/ i \in cuts' \cup freeing,
             engine = "postgres" => \A i \in DOMAIN rows' \cap Remembered : i \in DOMAIN rows
      PROVE  FreedSound'
  <2>1. \A t \in Sources : pass'[t] = IF t = s THEN p ELSE pass[t]
    BY <1>0, <1>2
  <2> QED
    BY <1>0, <1>2, <2>1, FreedStays
<1>3. CASE Snapshot(s)
  <2> DEFINE seen == [o \in Objects |-> IF o \in Of(s) THEN objects[o] ELSE Nothing]
             p == [Idle EXCEPT !.step = "each", !.seen = seen,
                               !.todo = {o \in Objects : seen[o] # Nothing}]
  <2>1. pass' = [pass EXCEPT ![s] = p] /\ p.step = "each"
    BY <1>3 DEF Snapshot, Step, Idle
  <2> HIDE DEF p
  <2>2. UNCHANGED <<rows, cuts>> /\ pass[s].step = "idle"
    BY <1>3 DEF Snapshot
  <2> QED
    BY <1>2, <2>1, <2>2
<1>4. CASE Update(s)
  <2>1. PICK p : pass' = [pass EXCEPT ![s] = p] /\ p.step = "each"
    BY <1>4, TurnIsAPass DEF Update
  <2>2. UNCHANGED cuts /\ pass[s].step = "update" /\ DOMAIN rows' = DOMAIN rows
    BY <1>4 DEF Update
  <2>3. \A i \in DOMAIN rows : i # pass[s].id => rows'[i] = rows[i]
    BY <1>4 DEF Update
  <2>4. ASSUME pass[s].id \in DOMAIN rows PROVE rows'[pass[s].id].state = pass[s].was
    <3>1. rows[pass[s].id] \in Row
      BY <2>4 DEF IInv, TypeOK
    <3>2. rows'[pass[s].id] = [rows[pass[s].id] EXCEPT !.by = s, !.ref = pass[s].at,
                                                       !.state = pass[s].was]
      BY <1>4, <2>4 DEF Update
    <3> QED
      BY <3>1, <3>2 DEF Row
  <2>5. ASSUME engine = "postgres", NEW i \in DOMAIN rows', rows'[i].state = "released"
        PROVE  (i \in DOMAIN rows /\ rows[i].state = "released") \/ i \in cuts \cup freeing
    BY <2>2, <2>3, <2>4, <2>5 DEF FreedSound
  <2>6. CASE engine = "postgres"
    BY <1>2, <2>1, <2>2, <2>5, <2>6
  <2>7. CASE engine # "postgres"
    BY <1>0, <2>7 DEF FreedSound
  <2> QED
    BY <2>6, <2>7
<1>5. CASE Claim(s)
  <2>1. PICK p : pass' = [pass EXCEPT ![s] = p] /\ p.step = "each"
    BY <1>5, TurnIsAPass DEF Claim
  <2>2. UNCHANGED cuts /\ pass[s].step # "free" /\ \E r : r.state = "active" /\ Insert(r)
    BY <1>5 DEF Claim
  <2>3. /\ \A i \in DOMAIN rows' : rows'[i].state = "released" =>
              i \in DOMAIN rows /\ rows[i].state = "released"
        /\ engine = "postgres" => \A i \in DOMAIN rows' \cap Remembered : i \in DOMAIN rows
    BY <2>2, InsertIsNew
  <2> QED
    BY <1>2, <2>1, <2>2, <2>3
<1>6. CASE ListOurs(s)
  <2>1. UNCHANGED <<rows, cuts>> /\ pass[s].step = "each" /\ \E G \in SUBSET Nat : Onward(s, G)
    BY <1>6 DEF ListOurs, IInv, TypeOK
  <2>2. PICK p : pass' = [pass EXCEPT ![s] = p] /\ p.step \in {"idle", "drop"}
    BY <2>1, OnwardIsAPass
  <2> QED
    BY <1>2, <2>1, <2>2
<1>7. ASSUME NEW j \in pass[s].gone, Release(s, j) PROVE FreedSound'
  <2>1. UNCHANGED cuts /\ pass[s].step = "drop" /\ pass[s].gone \in SUBSET Nat
    BY <1>0, <1>7 DEF Release, Pass
  <2>2. CASE j \in DOMAIN rows
    <3> DEFINE p == [pass[s] EXCEPT !.step = "free", !.id = j, !.gone = @ \ {j}]
    <3>1. pass' = [pass EXCEPT ![s] = p] /\ p.step = "free" /\ p.id = j
      BY <1>0, <1>7, <2>2 DEF Release, Step, Pass
    <3> HIDE DEF p
    <3>2. \A t \in Sources : pass'[t] = IF t = s THEN p ELSE pass[t]
      BY <1>0, <3>1
    <3>3. DOMAIN rows' = DOMAIN rows /\ \A i \in DOMAIN rows : i # j => rows'[i] = rows[i]
      BY <1>7, <2>2 DEF Release, SetReleased
    <3> QED
      BY <1>0, <2>1, <3>1, <3>2, <3>3, FreedStays
  <2>3. CASE j \notin DOMAIN rows
    <3>1. UNCHANGED rows /\ Onward(s, pass[s].gone \ {j})
      BY <1>7, <2>3 DEF Release
    <3>2. PICK p : pass' = [pass EXCEPT ![s] = p] /\ p.step \in {"idle", "drop"}
      BY <2>1, <3>1, OnwardIsAPass
    <3> QED
      BY <1>2, <2>1, <3>1, <3>2
  <2> QED
    BY <2>2, <2>3
<1>8. CASE ReleaseFrees(s)
  <2>1. pass[s].gone \in SUBSET Nat /\ Onward(s, pass[s].gone) /\ Free(pass[s].id)
    BY <1>0, <1>8 DEF ReleaseFrees, Pass
  <2>2. PICK p : pass' = [pass EXCEPT ![s] = p] /\ p.step \in {"idle", "drop"}
    BY <2>1, OnwardIsAPass
  <2>3. /\ DOMAIN rows' = DOMAIN rows \ {pass[s].id} /\ cuts' = cuts \ {pass[s].id}
        /\ \A i \in DOMAIN rows' : rows'[i] = rows[i]
    BY <2>1 DEF Free, Drop
  <2> QED
    BY <1>2, <2>2, <2>3
<1>9. CASE PassFails(s)
  <2>1. pass' = [pass EXCEPT ![s] = Idle] /\ UNCHANGED rows
    BY <1>9 DEF PassFails, Step, OnError
  <2>2. IF pass[s].step = "free" THEN LeftBehind(pass[s].id) ELSE UNCHANGED cuts
    BY <1>9 DEF PassFails
  <2> QED
    BY <1>2, <2>1, <2>2, IdleIsAPass DEF LeftBehind
<1>10. CASE StatementFails(s)
  <2>1. UNCHANGED rows /\ pass[s].gone \in SUBSET Nat
    BY <1>0, <1>10 DEF StatementFails, Pass
  <2>2. /\ \A i \in DOMAIN rows' \cap cuts : i \in cuts'
        /\ pass[s].step = "free" /\ pass[s].id \in DOMAIN rows' => pass[s].id \in cuts'
    BY <1>10, <2>1 DEF StatementFails, LeftBehind
  <2>3. PICK p : pass' = [pass EXCEPT ![s] = p] /\ p.step \in {"each", "idle", "drop"}
    <3>1. CASE Turn(s)
      BY <3>1, TurnIsAPass
    <3>2. CASE ~ Turn(s)
      <4>1. PICK G \in SUBSET pass[s].gone : Onward(s, G)
        BY <1>10, <3>2 DEF StatementFails
      <4> QED
        BY <2>1, <4>1, OnwardIsAPass
    <3> QED
      BY <3>1, <3>2
  <2> QED
    BY <1>2, <2>1, <2>2, <2>3
<1> QED
  BY <1>1, <1>3, <1>4, <1>5, <1>6, <1>7, <1>8, <1>9, <1>10 DEF Sync, Fails

-----------------------------------------------------------------------------
(* What a pass has in hand. *)

\* Nobody else gives the label of a steady object to the reconciler, or takes it away.
LEMMA OthersKeepHeld ==
    ASSUME KInv, engine = "postgres", NEW s \in Sources, NEW o \in steady'[s], Plain(s, o)',
           \/ Api \/ \E u \in Objects : ChangeObject(u)
           \/ \E t \in Sources \ {s} : Sync(t) \/ Fails(t)
    PROVE  /\ \A i \in Find(objects[o])' : rows'[i].by = s =>
                 i \in Find(objects[o]) /\ rows[i].by = s
           /\ \A i \in Find(objects[o]) : rows[i].by = s => i \in Find(objects[o])'
<1> DEFINE Same == /\ \A i \in Find(objects[o])' : rows'[i].by = s =>
                         i \in Find(objects[o]) /\ rows[i].by = s
                   /\ \A i \in Find(objects[o]) : rows[i].by = s => i \in Find(objects[o])'
<1>0. /\ IInv /\ o \in steady[s] /\ objects[o] \in Labels /\ objects'[o] = objects[o]
      /\ o \in Writing(objects[o]) /\ \A i \in DOMAIN rows : rows[i] \in Row
  <2>1. o \in steady[s] /\ Plain(s, o) /\ objects'[o] = objects[o]
    BY OthersKeepPlain
  <2>2. o \in Objects
    BY <2>1 DEF KInv, IInv, TypeOK
  <2> QED
    BY <2>1, <2>2, PlainWrites DEF KInv, IInv, TypeOK, Writing
<1>1. CASE UNCHANGED rows
  BY <1>0, <1>1 DEF Find
\* A row that goes, and was not the reconciler's or not under the label.
<1>9. ASSUME NEW j, j \in DOMAIN rows => rows[j].by # s \/ rows[j].label # objects[o],
             rows' = Drop(rows, {j})
      PROVE  Same
  <2>1. DOMAIN rows' = DOMAIN rows \ {j} /\ \A i \in DOMAIN rows' : rows'[i] = rows[i]
    BY <1>9 DEF Drop
  <2> QED
    BY <1>0, <1>9, <2>1 DEF Find
<1>10. ASSUME NEW j \in DOMAIN rows, SetReleased(j) PROVE Same
  <2>1. /\ DOMAIN rows' = DOMAIN rows
        /\ \A i \in DOMAIN rows : rows'[i].label = rows[i].label /\ rows'[i].by = rows[i].by
    BY <1>0, <1>10, SetReleasedLeaves
  <2> QED
    BY <1>0, <2>1 DEF Find
<1>2. ASSUME NEW l \in Labels, ApiClaim(l) PROVE Same
  <2>1. rows' = Put(rows, NewId, [label |-> l, by |-> "api", ref |-> Nothing,
                                       state |-> "active"]) \/ rows' = rows
    BY <1>2 DEF ApiClaim, Insert
  <2>2. NewId \notin DOMAIN rows /\ s # "api"
    BY <1>0, NewIdIsFresh DEF IInv, Sources
  <2> QED
    BY <1>0, <2>1, <2>2 DEF Find, Put
<1>3. ASSUME NEW j \in DOMAIN rows, ApiRelease(j) PROVE Same
  BY <1>3, <1>10 DEF ApiRelease
<1>8. ASSUME NEW j \in freeing, ApiFrees(j) PROVE Same
  <2>1. j \in DOMAIN rows => rows[j].label # objects[o]
    BY <1>0, <1>8 DEF ApiFrees, Touched
  <2> QED
    BY <1>8, <1>9, <2>1 DEF ApiFrees, Free
<1>4. ASSUME NEW j \in DOMAIN rows, ApiEdit(j) PROVE Same
  <2>1. rows[j].label # objects[o]
    BY <1>0, <1>4 DEF ApiEdit, Touched
  <2>2. rows'[j].label # objects[o]
    <3>1. CASE rows' = [rows EXCEPT ![j].ref = Nothing]
      BY <1>0, <2>1, <3>1 DEF Row
    <3>2. ASSUME NEW l \in Labels, rows' = [rows EXCEPT ![j].label = l],
                 Touched(Writing(rows[j].label) \cup Writing(l))
          PROVE  rows'[j].label # objects[o]
      <4>1. l # objects[o]
        BY <1>0, <3>2 DEF Touched
      <4>2. rows'[j] = [rows[j] EXCEPT !.label = l] /\ rows[j] \in Row
        BY <1>0, <3>2
      <4> QED
        BY <4>1, <4>2 DEF Row
    <3> QED
      BY <1>4, <3>1, <3>2 DEF ApiEdit
  <2>3. DOMAIN rows' = DOMAIN rows /\ \A i \in DOMAIN rows : i # j => rows'[i] = rows[i]
    BY <1>4 DEF ApiEdit
  <2> QED
    BY <1>0, <2>1, <2>2, <2>3 DEF Find
<1>5. ASSUME NEW t \in Sources \ {s}, Update(t) PROVE Same
  <2>1. /\ DOMAIN rows' = DOMAIN rows
        /\ \A i \in DOMAIN rows : i # pass[t].id => rows'[i] = rows[i]
    BY <1>5 DEF Update
  <2>2. ASSUME NEW i \in DOMAIN rows, i = pass[t].id
        PROVE  rows'[i].by = t /\ rows'[i].label = rows[i].label /\ rows[i].by = t
    <3>1. /\ rows'[i] = [rows[i] EXCEPT !.by = t, !.ref = pass[t].at, !.state = pass[t].was]
          /\ rows[i] \in Row
      BY <1>0, <1>5, <2>2 DEF Update
    <3>2. rows[i].by = t
      BY <1>0, <1>5, <2>2 DEF IInv, StillOurs, Update
    <3> QED
      BY <3>1, <3>2 DEF Row
  <2> QED
    BY <1>0, <1>5, <2>1, <2>2 DEF Find
<1>6. ASSUME NEW t \in Sources \ {s}, Claim(t) PROVE Same
  <2>1. PICK r : r.by = t /\ (rows' = Put(rows, NewId, r) \/ rows' = rows)
    BY <1>6 DEF Claim, Insert
  <2>2. NewId \notin DOMAIN rows
    BY <1>0, NewIdIsFresh DEF IInv
  <2> QED
    BY <1>0, <2>1, <2>2 DEF Find, Put
<1>7. ASSUME NEW t \in Sources \ {s}, NEW j \in pass[t].gone, Release(t, j) PROVE Same
  BY <1>1, <1>7, <1>10 DEF Release
<1>11. ASSUME NEW t \in Sources \ {s}, ReleaseFrees(t) PROVE Same
  <2>1. pass[t].id \in DOMAIN rows => rows[pass[t].id].by # s
    BY <1>0, <1>11 DEF IInv, StillOurs, ReleaseFrees
  <2> QED
    BY <1>9, <1>11, <2>1 DEF ReleaseFrees, Free
<1> QED
  BY <1>1, <1>2, <1>3, <1>4, <1>5, <1>6, <1>7, <1>8, <1>11
     DEF Api, ApiGoesOn, ApiCut, ChangeObject, Sync, Fails, PassFails, StatementFails, LookFails,
         Snapshot, Look, ListOurs

LEMMA OthersKeepHand ==
    ASSUME HInv, NEW s \in Sources,
           \/ Api \/ \E u \in Objects : ChangeObject(u)
           \/ \E t \in Sources \ {s} : Sync(t) \/ Fails(t)
    PROVE  HandSound(s)'
<1>0. KInv /\ IInv /\ HandSound(s)
  BY DEF HInv, KInv
<1>1. UNCHANGED pass[s]
  BY <1>0, OthersLeavePass
<1>2. engine' = engine
  BY DEF Api, ApiClaim, ApiRelease, ApiGoesOn, ApiFrees, ApiCut, ApiEdit, ChangeObject, Sync,
         Snapshot, Look, Update, Claim, ListOurs, Release, ReleaseFrees, Fails, PassFails,
         StatementFails, LookFails
<1> SUFFICES ASSUME engine = "postgres", NEW o, o = pass[s].at, o \in steady'[s], Plain(s, o)'
             PROVE  /\ pass[s].step = "claim" => \A i \in Find(objects[o])' : rows'[i].by # s
                    /\ pass[s].step = "update" => pass[s].id \in Find(objects[o])'
  BY <1>1, <1>2 DEF HandSound
<1>3. o \in steady[s] /\ Plain(s, o)
  BY <1>0, OthersKeepPlain
<1>4. /\ \A i \in Find(objects[o])' : rows'[i].by = s => i \in Find(objects[o]) /\ rows[i].by = s
      /\ \A i \in Find(objects[o]) : rows[i].by = s => i \in Find(objects[o])'
  BY <1>0, OthersKeepHeld
<1>5. CASE pass[s].step = "claim"
  BY <1>0, <1>3, <1>4, <1>5 DEF HandSound
<1>6. CASE pass[s].step = "update"
  <2>1. pass[s].id \in Find(objects[o]) /\ rows[pass[s].id].by = s
    BY <1>0, <1>3, <1>6 DEF HandSound, IInv, StillOurs, Find
  <2> QED
    BY <1>4, <1>6, <2>1
<1> QED
  BY <1>5, <1>6

\* The look that leads to a claim or an update has just seen to it.
LEMMA LookMakesHand ==
    ASSUME KInv, NEW s \in Sources, NEW u \in Of(s), Look(s, u) \/ LookFails(s, u)
    PROVE  HandSound(s)'
<1>0. /\ IInv /\ SeenSound(s) /\ pass[s].step = "each"
      /\ UNCHANGED <<engine, rows, objects, steady>>
  BY DEF KInv, Look, LookFails
<1> DEFINE I == Find(pass[s].seen[u])
<1>1. \/ pass'[s].step \in {"each", "blind"}
      \/ pass'[s].step = "claim" /\ pass'[s].at = u /\ I = {}
      \/ pass'[s].step = "update" /\ pass'[s].at = u /\ pass'[s].id \in I
  <2>1. PICK p : /\ pass'[s] = p /\ p.seen = pass[s].seen
                 /\ \/ p.step \in {"each", "blind"}
                    \/ p.step = "claim" /\ p.at = u /\ Find(p.seen[u]) = {}
                    \/ p.step = "update" /\ p.at = u /\ p.id \in Find(p.seen[u])
    BY <1>0, LookLeads
  <2> QED
    BY <2>1
<1>2. u \in steady[s] /\ Plain(s, u) => I = Find(objects[u])
  BY <1>0 DEF SeenSound
<1>3. ASSUME NEW o, o = pass'[s].at, o \in steady[s], Plain(s, o)
      PROVE  /\ pass'[s].step = "claim" => \A i \in Find(objects[o]) : rows[i].by # s
             /\ pass'[s].step = "update" => pass'[s].id \in Find(objects[o])
  BY <1>1, <1>2, <1>3
<1> QED
  BY <1>0, <1>3 DEF HandSound, Plain, Writing, Find

LEMMA SyncKeepsHand ==
    ASSUME HInv, NEW s \in Sources, Sync(s) \/ Fails(s)
    PROVE  HandSound(s)'
<1>0. /\ KInv /\ IInv /\ pass[s].gone \in SUBSET Nat
      /\ \A p : pass' = [pass EXCEPT ![s] = p] => pass'[s] = p
  BY DEF HInv, KInv, IInv, TypeOK, Pass
<1>1. ASSUME NEW u \in Of(s), Look(s, u) \/ LookFails(s, u) PROVE HandSound(s)'
  BY <1>0, <1>1, LookMakesHand
<1>2. ASSUME NEW p, pass' = [pass EXCEPT ![s] = p], p.step \notin {"claim", "update"}
      PROVE  HandSound(s)'
  BY <1>0, <1>2 DEF HandSound
<1>3. CASE Snapshot(s)
  BY <1>2, <1>3 DEF Snapshot, Step, Idle
<1>4. CASE Turn(s)
  BY <1>0, <1>2, <1>4, TurnIsAPass
<1>5. ASSUME NEW G \in SUBSET Nat, Onward(s, G) PROVE HandSound(s)'
  BY <1>2, <1>5, OnwardIsAPass
<1>6. CASE ListOurs(s)
  <2>1. \E G \in SUBSET Nat : Onward(s, G)
    BY <1>0, <1>6 DEF ListOurs, IInv, TypeOK
  <2> QED
    BY <1>5, <2>1
<1>7. ASSUME NEW j \in pass[s].gone, Release(s, j) PROVE HandSound(s)'
  <2>1. CASE j \in DOMAIN rows
    <3> DEFINE p == [pass[s] EXCEPT !.step = "free", !.id = j, !.gone = @ \ {j}]
    <3>1. pass' = [pass EXCEPT ![s] = p] /\ p.step = "free"
      BY <1>0, <1>7, <2>1 DEF Release, Step, IInv, TypeOK, Pass
    <3> HIDE DEF p
    <3> QED
      BY <1>2, <3>1
  <2>2. CASE j \notin DOMAIN rows
    <3>1. Onward(s, pass[s].gone \ {j}) /\ pass[s].gone \ {j} \in SUBSET Nat
      BY <1>0, <1>7, <2>2 DEF Release
    <3> QED
      BY <1>5, <3>1
  <2> QED
    BY <2>1, <2>2
<1>8. CASE ReleaseFrees(s)
  BY <1>0, <1>5, <1>8 DEF ReleaseFrees
<1>9. CASE PassFails(s)
  BY <1>2, <1>9, IdleIsAPass DEF PassFails, Step, OnError
<1>10. CASE StatementFails(s)
  <2>1. Turn(s) \/ \E G \in SUBSET pass[s].gone : Onward(s, G)
    BY <1>10 DEF StatementFails
  <2> QED
    BY <1>0, <1>4, <1>5, <2>1
<1>11. CASE Update(s) \/ Claim(s)
  BY <1>4, <1>11 DEF Update, Claim
<1> QED
  BY <1>1, <1>3, <1>6, <1>7, <1>8, <1>9, <1>10, <1>11 DEF Sync, Fails

\* What a reconciler has in hand fits the object it is for, however the others come
\* between its look and its write, and every released row is accounted for: inductive with
\* what the pass has seen.
THEOREM HandInvariance == Spec => []HInv
<1>1. Init => HInv
  <2> SUFFICES ASSUME Init PROVE HInv
    OBVIOUS
  <2>1. \A s \in Sources : pass[s].step = "idle"
    BY IdleIsAPass DEF Init
  <2>2. DOMAIN rows = {}
    BY DEF Init
  <2> QED
    BY <2>1, <2>2, InitKInv DEF HInv, HandSound, FreedSound
<1>2. HInv /\ [Next]_vars => HInv'
  <2> SUFFICES ASSUME HInv, [Next]_vars PROVE HInv'
    OBVIOUS
  <2>0. KInv /\ IInv /\ FreedSound /\ KInv'
    BY NextKInv DEF HInv, KInv
  <2>1. ASSUME NEW s \in Sources PROVE HandSound(s)'
    <3>1. CASE Sync(s) \/ Fails(s)
      BY <3>1, SyncKeepsHand
    <3>2. CASE UNCHANGED vars
      BY <3>2 DEF HInv, vars, HandSound, Plain, Writing, Find, Of
    <3>3. CASE \/ Api \/ \E u \in Objects : ChangeObject(u)
               \/ \E t \in Sources \ {s} : Sync(t) \/ Fails(t)
      BY <3>3, OthersKeepHand
    <3> QED
      BY <3>1, <3>2, <3>3 DEF Next, DockerSync, CrdSync, Sources
  <2>2. FreedSound'
    <3>1. CASE UNCHANGED vars
      BY <2>0, <3>1 DEF FreedSound, vars
    <3> QED
      BY <2>0, <3>1, ApiKeepsFreed, SyncKeepsFreed DEF Next, DockerSync, CrdSync, Sources
  <2> QED
    BY <2>0, <2>1, <2>2 DEF HInv
<1> QED
  BY <1>1, <1>2, PTL DEF Spec

-----------------------------------------------------------------------------
(* What a pass achieves. *)

\* A name once held stays held through the steps of the pass.
LEMMA PassKeepsName ==
    ASSUME HInv, Next, NEW s \in Sources, engine = "postgres", pass'[s] # pass[s],
           NEW o \in steady[s], Plain(s, o), HasName(s, o)
    PROVE  HasName(s, o)'
<1>1. PICK i \in Find(objects[o]) : rows[i].by = s =>
                 rows[i].ref = o /\ (rows[i].state = "active" \/ i \in cuts \cup freeing)
  BY DEF HasName
<1>2. /\ IInv /\ KInv /\ LiveSound(s) /\ i \in DOMAIN rows /\ rows[i].label = objects[o]
      /\ o \in Objects
  BY <1>1 DEF HInv, KInv, IInv, TypeOK, Find
<1>3. Sync(s) \/ Fails(s)
  BY <1>2, OnePassAtATime
<1>4. UNCHANGED <<objects, freeing>>
  BY <1>3 DEF Sync, Fails, PassFails, StatementFails, LookFails, Snapshot, Look, Update, Claim,
              ListOurs, Release, ReleaseFrees
<1>5. CASE rows[i].by # s
  <2>1. i \in DOMAIN rows' /\ rows'[i] = rows[i]
    BY <1>2, <1>5, OthersStay
  <2> QED
    BY <1>2, <1>4, <1>5, <2>1 DEF HasName, Find
<1>6. CASE rows[i].by = s
  <2>1. Live(s, i, o)
    BY <1>1, <1>2, <1>6 DEF Live, Hostname
  <2>2. i \in DOMAIN rows' /\ rows'[i] = rows[i]
    BY <1>2, <2>1, LiveStays
  <2>3. i \in cuts => i \in cuts'
    <3>1. CASE ReleaseFrees(s)
      <4>1. pass[s].id # i
        BY <1>2, <2>1, <3>1 DEF LiveSound, ReleaseFrees
      <4> QED
        BY <3>1, <4>1 DEF ReleaseFrees, Free
    <3>2. CASE ~ ReleaseFrees(s)
      BY <1>3, <3>2 DEF Sync, Fails, PassFails, StatementFails, LookFails, Snapshot, Look, Update,
                        Claim, ListOurs, Release, LeftBehind
    <3> QED
      BY <3>1, <3>2
  <2> QED
    BY <1>1, <1>2, <1>4, <1>6, <2>2, <2>3 DEF HasName, Find
<1> QED
  BY <1>5, <1>6

\* The turn of an object ends with its label held.
LEMMA TurnBringsName ==
    ASSUME HInv, Next, NEW s \in Sources, engine = "postgres", pass'[s] # pass[s],
           NEW o \in steady[s], Plain(s, o), TurnEnds(s, o)
    PROVE  HasName(s, o)'
<1>0. /\ KInv /\ IInv /\ FreedSound /\ SeenSound(s) /\ HandSound(s) /\ upsets \in Nat
      /\ \A i \in DOMAIN rows : rows[i] \in Row
  BY DEF HInv, KInv, IInv, TypeOK
<1>1. Sync(s)
  <2>1. Fails(s) => Upset
    BY DEF Fails, PassFails, StatementFails, LookFails
  <2>2. ~ Upset
    BY <1>0 DEF TurnEnds, Upset
  <2> QED
    BY <1>0, <2>1, <2>2, OnePassAtATime
<1>2. /\ o \in Of(s) /\ objects[o] \in Labels /\ Norm[objects[o]] = objects[o]
      /\ o \in Objects /\ UNCHANGED <<objects, freeing>>
  BY <1>0, <1>1, PlainWrites
     DEF Plain, Sync, Snapshot, Look, Update, Claim, ListOurs, Release, ReleaseFrees, IInv, TypeOK
<1>3. CASE pass[s].step = "each"
  <2>1. o \in pass[s].todo /\ o \notin pass'[s].todo /\ pass'[s].step = "each"
    BY <1>3 DEF TurnEnds
  <2>2. PICK u \in Of(s) : Look(s, u)
    <3>1. ~ ListOurs(s)
      BY <2>1 DEF ListOurs
    <3> QED
      BY <1>1, <1>3, <3>1 DEF Sync, Snapshot, Update, Claim, Release, ReleaseFrees
  <2>3. UNCHANGED <<rows, cuts>>
    BY <2>2 DEF Look
  <2>4. PICK p : /\ pass'[s] = p /\ p.todo = pass[s].todo \ {u} /\ p.seen = pass[s].seen
                 /\ \E i \in Find(p.seen[u]) : rows[i].by = s => rows[i].ref = u
    <3>1. PICK p \in Pass :
              /\ pass'[s] = p /\ p.todo = pass[s].todo \ {u} /\ p.seen = pass[s].seen
              /\ \/ p.step = "each" /\ \E i \in Find(p.seen[u]) : rows[i].by = s => rows[i].ref = u
                 \/ p.step \in {"claim", "blind", "update"}
      BY <1>0, <2>2, LookLeads
    <3> QED
      BY <2>1, <3>1
  <2>5. u = o
    BY <2>1, <2>4
  <2>6. PICK i \in Find(objects[o]) : rows[i].by = s => rows[i].ref = o
    BY <1>0, <1>2, <1>3, <2>4, <2>5 DEF SeenSound
  <2>7. ASSUME rows[i].by = s, rows[i].state # "active" PROVE i \in cuts \cup freeing
    <3>1. i \in DOMAIN rows /\ rows[i].state = "released"
      BY <1>0, <2>6, <2>7 DEF Find, Row, States
    <3>2. ASSUME NEW t \in Sources, pass[t].step = "free", pass[t].id = i PROVE FALSE
      <4>1. rows[i].by = t
        BY <1>0, <3>1, <3>2 DEF IInv, StillOurs
      <4> QED
        BY <1>3, <2>7, <3>2, <4>1
    <3> QED
      BY <1>0, <3>1, <3>2 DEF FreedSound
  <2> QED
    BY <1>2, <2>3, <2>6, <2>7 DEF HasName, Find
<1>4. CASE pass[s].step = "claim"
  <2>1. pass[s].at = o
    BY <1>4 DEF TurnEnds
  <2>2. Claim(s)
    BY <1>1, <1>4 DEF Sync, Snapshot, Look, Update, ListOurs, Release, ReleaseFrees
  <2> DEFINE r == [label |-> objects[o], by |-> s, ref |-> o, state |-> "active"]
  <2>3. Insert(r)
    BY <1>0, <1>2, <1>4, <2>1, <2>2 DEF Claim, SeenSound
  <2>4. CASE Find(objects[o]) = {}
    <3>1. rows' = Put(rows, NewId, r)
      BY <2>3, <2>4 DEF Insert
    <3>2. NewId \in DOMAIN rows' /\ rows'[NewId] = r
      BY <3>1 DEF Put
    <3>3. \E i \in DOMAIN rows' : rows'[i] = r
      BY <3>2
    <3> QED
      BY <1>2, <3>3 DEF HasName, Find
  <2>5. CASE Find(objects[o]) # {}
    <3>1. UNCHANGED rows
      BY <2>3, <2>5 DEF Insert
    <3> QED
      BY <1>0, <1>2, <1>4, <2>1, <2>5, <3>1 DEF HasName, HandSound, Find
  <2> QED
    BY <2>4, <2>5
<1>5. CASE pass[s].step = "update"
  <2>1. pass[s].at = o
    BY <1>5 DEF TurnEnds
  <2>2. Update(s)
    BY <1>1, <1>5 DEF Sync, Snapshot, Look, Claim, ListOurs, Release, ReleaseFrees
  <2>3. pass[s].id \in DOMAIN rows /\ rows[pass[s].id].label = objects[o]
    BY <1>0, <1>5, <2>1 DEF HandSound, Find
  <2>4. /\ DOMAIN rows' = DOMAIN rows /\ UNCHANGED cuts
        /\ rows'[pass[s].id] = [rows[pass[s].id] EXCEPT !.by = s, !.ref = o,
                                                        !.state = pass[s].was]
    BY <2>1, <2>2, <2>3 DEF Update
  <2>5. /\ rows'[pass[s].id].label = objects[o] /\ rows'[pass[s].id].ref = o
        /\ rows'[pass[s].id].state = pass[s].was
    BY <1>0, <2>3, <2>4 DEF Row
  <2>6. pass[s].was = "active" \/ pass[s].id \in cuts \cup freeing
    <3>1. pass[s].was \in States
      BY <1>0 DEF IInv, TypeOK, Pass
    <3> QED
      BY <1>0, <1>5, <2>3, <3>1 DEF FreedSound, States
  <2> QED
    BY <1>2, <2>3, <2>4, <2>5, <2>6 DEF HasName, Find
<1> QED
  BY <1>3, <1>4, <1>5 DEF TurnEnds

\* Each pass, of the watcher and of the ingest, brings the objects that stay as they are to
\* their hostnames and takes none away again: on Postgres, for any number of objects. A
\* released row left under the label counts for the hostname, as it does for the pass.
THEOREM PassesAdvance == Spec => PassAdvances
<1>1. HInv /\ [Next]_vars =>
        [\A s \in Sources : engine = "postgres" /\ pass'[s] # pass[s] =>
            \A o \in steady[s] : Plain(s, o) => Proceeds(s, o)]_vars
  BY PassKeepsName, TurnBringsName DEF vars, Proceeds
<1> QED
  BY <1>1, HandInvariance, PTL DEF Spec, PassAdvances
=============================================================================
