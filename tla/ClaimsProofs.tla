---------------------------- MODULE ClaimsProofs ----------------------------
(***************************************************************************)
(* Safety of Claims for any number of handlers, requests, tokens and keys, *)
(* any pool and any number of faults.                                      *)
(***************************************************************************)
EXTENDS Claims, TablesProofs

\* The ids in use are bounded, so that SQLite has a next one to give.
IdsBounded == \E n \in Nat : \A l \in DOMAIN rows : rows[l].id <= n

\* A handler past the token check has a request; one that looks its key up, or has
\* asked for a port, has the kind of request that does.
JobSound ==
    \A h \in Handlers : /\ ~ On(h, "idle") => job[h].req \in Requests
                        /\ On(h, "recall") => A(h).key # NoKey

\* A row on its way out is set to released, so that no reaper takes it first.
FreeingSound == \A l \in freeing : l \in DOMAIN rows /\ rows[l].state = "released"

IInv == TypeOK /\ IdsBounded /\ JobSound /\ FreeingSound

USE DEF On, A, Goto, Answer, Done

-----------------------------------------------------------------------------
\* The id of a new row is a number on either engine.
LEMMA NewIdIsNat ==
    ASSUME TypeOK, IdsBounded
    PROVE  NewId \in Nat
<1> DEFINE D == {rows[l].id : l \in DOMAIN rows}
<1>1. PICK n \in Nat : \A l \in DOMAIN rows : rows[l].id <= n
  BY DEF IdsBounded
<1>2. D \subseteq 0..n
  BY <1>1 DEF TypeOK, Row
<1>3. MaxPlusOne(D) \in Nat
  <2>1. CASE D = {}
    BY <2>1 DEF MaxPlusOne
  <2>2. CASE D # {}
    <3>1. Greatest(D) \in D
      BY <1>2, <2>2, GreatestExists, Zenon
    <3>2. Greatest(D) \in Nat
      BY <1>2, <3>1
    <3> QED
      BY <2>2, <3>2 DEF MaxPlusOne
  <2> QED
    BY <2>1, <2>2
<1> QED
  BY <1>3 DEF NewId

\* A handler that moves on and touches no table.
LEMMA JobStepKeepsIInv ==
    ASSUME IInv, NEW h \in Handlers, NEW j,
           j \in Job,
           j.step # "idle" => j.req \in Requests,
           j.step = "recall" => Ask[j.req].key # NoKey,
           job' = [job EXCEPT ![h] = j],
           told' \subseteq Requests, faults' \in 0 .. MaxFaults,
           UNCHANGED <<rows, freeing, grants, memory, tokens>>
    PROVE  IInv'
<1>1. TypeOK'
  BY DEF IInv, TypeOK
<1>2. IdsBounded' /\ FreeingSound'
  BY DEF IInv, IdsBounded, FreeingSound
<1>3. JobSound'
  BY DEF IInv, TypeOK, JobSound
<1> QED
  BY <1>1, <1>2, <1>3 DEF IInv

\* A table that loses rows, of those under way those whose release ends.
LEMMA DropRowsKeepsIInv ==
    ASSUME IInv, NEW L, rows' = Drop(rows, L), freeing' \subseteq freeing \ L,
           UNCHANGED <<grants, memory, tokens, job, told, faults>>
    PROVE  IInv'
<1>1. DOMAIN rows' = DOMAIN rows \ L /\ \A i \in DOMAIN rows' : rows'[i] = rows[i]
  BY DEF Drop
<1>2. TypeOK'
  BY <1>1 DEF IInv, TypeOK
<1>3. IdsBounded'
  BY <1>1 DEF IInv, IdsBounded
<1>4. JobSound' /\ FreeingSound'
  BY <1>1 DEF IInv, JobSound, FreeingSound
<1> QED
  BY <1>2, <1>3, <1>4 DEF IInv

\* A row that gets another state, on the way out or not.
LEMMA SetStateKeepsIInv ==
    ASSUME IInv, NEW l \in DOMAIN rows, NEW state \in {"active", "released"},
           SetState(l, state), freeing' \subseteq freeing \cup {l},
           l \in freeing' => state = "released",
           UNCHANGED <<grants, memory, tokens, job, told, faults>>
    PROVE  IInv'
<1>1. rows[l] \in Row
  BY DEF IInv, TypeOK
<1>2. /\ rows'[l] = [rows[l] EXCEPT !.state = state] /\ DOMAIN rows' = DOMAIN rows
      /\ \A i \in DOMAIN rows : i # l => rows'[i] = rows[i]
  BY DEF SetState
<1>3. rows'[l] \in Row /\ rows'[l].state = state /\ rows'[l].id = rows[l].id
  BY <1>1, <1>2 DEF Row
<1>4. TypeOK'
  BY <1>2, <1>3 DEF IInv, TypeOK
<1>5. IdsBounded'
  <2>1. PICK n \in Nat : \A i \in DOMAIN rows : rows[i].id <= n
    BY DEF IInv, IdsBounded
  <2>2. \A i \in DOMAIN rows' : rows'[i].id <= n
    BY <1>2, <1>3, <2>1
  <2> QED
    BY <2>2 DEF IdsBounded
<1>6. JobSound'
  BY DEF IInv, JobSound
<1>7. FreeingSound'
  <2>1. ASSUME NEW i \in freeing', i # l PROVE i \in freeing /\ rows'[i] = rows[i]
    BY <1>2, <2>1 DEF IInv, FreeingSound
  <2>2. \A i \in freeing : i \in DOMAIN rows /\ rows[i].state = "released"
    BY DEF IInv, FreeingSound
  <2>3. DOMAIN rows' = DOMAIN rows /\ (l \in freeing' => rows'[l].state = "released")
    BY <1>2, <1>3
  <2>4. \A i \in freeing' : i \in DOMAIN rows' /\ rows'[i].state = "released"
    BY <2>1, <2>2, <2>3
  <2> QED
    BY <2>4 DEF FreeingSound
<1> QED
  BY <1>4, <1>5, <1>6, <1>7 DEF IInv

LEMMA IdleIsAJob ==
    Idle \in Job
BY DEF Idle, Job, Steps

-----------------------------------------------------------------------------
\* The initial state.
LEMMA InitIInv == Init => IInv
<1> SUFFICES ASSUME Init PROVE IInv
  OBVIOUS
<1>1. TypeOK
  BY InputsAssumption, IdleIsAJob DEF Init, TypeOK
<1>2. IdsBounded
  BY DEF Init, IdsBounded
<1>3. JobSound /\ FreeingSound
  BY DEF Init, JobSound, Idle, FreeingSound
<1> QED
  BY <1>1, <1>2, <1>3 DEF IInv

\* The INSERT of an allocation.
LEMMA InsertKeepsIInv ==
    ASSUME IInv, NEW h \in Handlers, Insert(h)
    PROVE  IInv'
<1> DEFINE r == [id |-> NewId, owner |-> A(h).owner,
                 state |-> IF A(h).hold THEN "pending" ELSE "active"]
           j == [job[h] EXCEPT !.step = AfterHostname(h), !.id = NewId]
<1>1. NewId \in Nat
  BY NewIdIsNat DEF IInv
<1>2. job[h].req \in Requests
  BY DEF IInv, JobSound, Insert
<1>3. A(h).label \in Labels /\ A(h).owner \in Owners
  BY <1>2, InputsAssumption DEF Labels, Owners, Asks
<1>4. /\ DOMAIN rows' = DOMAIN rows \cup {A(h).label}
      /\ \A l \in DOMAIN rows' : rows'[l] = IF l = A(h).label THEN r ELSE rows[l]
  BY Zenon DEF Insert, Put
<1>5. /\ j \in Job
      /\ job' = [job EXCEPT ![h] = j] /\ j.step \in {"port", "remember"} /\ j.req = job[h].req
  <2>1. AfterHostname(h) \in {"port", "remember"}
    BY DEF AfterHostname
  <2>2. job' = [job EXCEPT ![h] = j]
    BY DEF Insert
  <2> QED
    <3>1. job[h] \in Job
      BY DEF IInv, TypeOK
    <3>2. j \in Job /\ j.step = AfterHostname(h) /\ j.req = job[h].req
      BY <1>1, <2>1, <3>1 DEF Job, Steps
    <3> QED
      BY <2>1, <2>2, <3>2
<1>6. TypeOK'
  <2> HIDE DEF j
  <2>1. /\ DOMAIN rows' \subseteq Labels
        /\ \A l \in DOMAIN rows' : rows'[l] \in Row
    <3>1. r \in Row
      BY <1>1, <1>3 DEF Row
    <3> HIDE DEF r
    <3> QED
      BY <1>3, <1>4, <3>1 DEF IInv, TypeOK
  <2>2. UNCHANGED <<freeing, grants, memory, tokens, told, faults>>
    BY DEF Insert
  <2> QED
    BY <1>5, <2>1, <2>2 DEF IInv, TypeOK
<1>7. IdsBounded'
  <2>1. PICK n \in Nat : \A l \in DOMAIN rows : rows[l].id <= n
    BY DEF IInv, IdsBounded
  <2>2. PICK m \in Nat : m >= n /\ m >= NewId
    BY <1>1
  <2>3. \A l \in DOMAIN rows' : rows'[l].id <= m
    <3>1. \A l \in DOMAIN rows : rows[l].id \in Nat
      BY DEF IInv, TypeOK, Row
    <3>2. r.id = NewId
      OBVIOUS
    <3> HIDE DEF r
    <3> QED
      BY <1>1, <1>4, <2>1, <2>2, <3>1, <3>2
  <2> QED
    BY <2>3 DEF IdsBounded
<1>8. JobSound'
  BY <1>2, <1>5 DEF IInv, TypeOK, JobSound
<1>9. FreeingSound'
  BY <1>4 DEF IInv, FreeingSound, Insert
<1> QED
  BY <1>6, <1>7, <1>8, <1>9 DEF IInv

\* The grant of a port, the owner's own or a free one.
LEMMA PortClaimKeepsIInv ==
    ASSUME IInv, NEW h \in Handlers, PortClaim(h)
    PROVE  IInv'
<1>1. job[h].req \in Requests
  BY DEF IInv, JobSound, PortClaim
<1>2. A(h).owner \in Owners
  BY <1>1 DEF Owners
<1>3. PICK v \in Candidates(A(h).owner) :
         /\ grants' = Put(grants, A(h).owner, v)
         /\ job' = [job EXCEPT ![h].step = "remember", ![h].port = v]
  BY DEF PortClaim
<1>4. v \in Pool
  BY <1>3 DEF IInv, TypeOK, Candidates
<1>5. /\ DOMAIN grants' = DOMAIN grants \cup {A(h).owner}
      /\ \A o \in DOMAIN grants' : grants'[o] = IF o = A(h).owner THEN v ELSE grants[o]
  BY <1>3, Zenon DEF Put
<1>6. TypeOK'
  <2>1. DOMAIN grants' \subseteq Owners /\ \A o \in DOMAIN grants' : grants'[o] \in Pool
    BY <1>2, <1>4, <1>5 DEF IInv, TypeOK
  <2>2. job' \in [Handlers -> Job]
    <3> DEFINE j == [job[h] EXCEPT !.step = "remember", !.port = v]
    <3>1. job[h] \in Job
      BY DEF IInv, TypeOK
    <3>2. j \in Job
      BY <1>4, <3>1 DEF Job, Steps
    <3>3. job' = [job EXCEPT ![h] = j]
      BY <1>3
    <3> QED
      BY <3>2, <3>3 DEF IInv, TypeOK
  <2>3. UNCHANGED <<rows, freeing, memory, tokens, told, faults>>
    BY DEF PortClaim
  <2> QED
    BY <2>1, <2>2, <2>3 DEF IInv, TypeOK
<1>7. IdsBounded' /\ JobSound' /\ FreeingSound'
  BY <1>3 DEF IInv, TypeOK, IdsBounded, JobSound, FreeingSound, PortClaim
<1> QED
  BY <1>6, <1>7 DEF IInv

\* The end of the handler, with the response stored under the request's key unless
\* there is one already.
LEMMA RememberKeepsIInv ==
    ASSUME IInv, NEW h \in Handlers, Remember(h)
    PROVE  IInv'
<1> DEFINE body == [id |-> job[h].id, port |-> job[h].port]
<1>1. job[h].req \in Requests
  BY DEF IInv, JobSound, Remember
<1>2. body \in Body
  BY DEF IInv, TypeOK, Body, Job
<1>3. /\ DOMAIN memory' \subseteq Keys
      /\ \A k \in DOMAIN memory' : memory'[k] \in Body
  <2>1. CASE memory' = memory
    BY <2>1 DEF IInv, TypeOK
  <2>2. CASE memory' # memory
    <3>1. A(h).key # NoKey /\ memory' = Put(memory, A(h).key, body)
      BY <2>2 DEF Remember, Remembered
    <3>2. A(h).key \in Keys
      BY <1>1, <3>1 DEF Keys
    <3> QED
      BY <1>2, <3>1, <3>2 DEF IInv, TypeOK, Put
  <2> QED
    BY <2>1, <2>2
<1>4. /\ job' = [job EXCEPT ![h] = Idle]
      /\ told' \in {told, told \cup {job[h].req}}
  BY DEF Remember
<1>5. TypeOK'
  BY <1>1, <1>3, <1>4, IdleIsAJob DEF IInv, TypeOK, Remember
<1>6. IdsBounded' /\ JobSound' /\ FreeingSound'
  BY <1>4 DEF IInv, TypeOK, IdsBounded, JobSound, FreeingSound, Remember, Idle
<1> QED
  BY <1>5, <1>6 DEF IInv

\* The steps of a handler that touch no table.
LEMMA OtherStepsKeepIInv ==
    ASSUME IInv, NEW h \in Handlers,
           \/ Replay(h) \/ RecallMisses(h) \/ Taken(h) \/ PortFails(h) \/ CutInsert(h)
           \/ StatementFails(h) \/ Cancel(h) \/ \E r \in Requests : Arrive(h, r)
    PROVE  IInv'
<1>1. CASE Replay(h) \/ Taken(h) \/ PortFails(h) \/ CutInsert(h)
  <2>1. job[h].req \in Requests
    BY <1>1 DEF IInv, JobSound, Replay, Taken, PortFails, CutInsert
  <2>2. /\ job' = [job EXCEPT ![h] = Idle] /\ told' \in {told, told \cup {job[h].req}}
        /\ UNCHANGED <<rows, freeing, grants, memory, tokens, faults>>
    BY <1>1 DEF Replay, Taken, PortFails, CutInsert
  <2> QED
    BY <2>1, <2>2, IdleIsAJob, JobStepKeepsIInv DEF IInv, TypeOK, Idle
<1>2. CASE RecallMisses(h)
  <2> DEFINE j == [job[h] EXCEPT !.step = "insert"]
  <2>1. job[h].req \in Requests
    BY <1>2 DEF IInv, JobSound, RecallMisses
  <2>2. j \in Job
    BY DEF IInv, TypeOK, Job, Steps
  <2>3. job' = [job EXCEPT ![h] = j]
    BY <1>2 DEF RecallMisses
  <2>4. j.step = "insert" /\ j.req = job[h].req
    BY DEF IInv, TypeOK
  <2> HIDE DEF j
  <2> QED
    BY <1>2, <2>1, <2>2, <2>3, <2>4, JobStepKeepsIInv DEF IInv, TypeOK, RecallMisses
<1>3. CASE Cancel(h)
  <2> DEFINE j == [job[h] EXCEPT !.cut = TRUE]
  <2>1. job[h].req \in Requests /\ j.req = job[h].req /\ j.step = job[h].step
    BY <1>3 DEF IInv, TypeOK, JobSound, Cancel, Job
  <2>2. j \in Job
    <3>1. job[h] \in Job
      BY DEF IInv, TypeOK
    <3> QED
      BY <3>1 DEF Job
  <2>3. job' = [job EXCEPT ![h] = j]
    BY <1>3 DEF Cancel
  <2>4. job[h].step = "recall" => Ask[j.req].key # NoKey
    BY <2>1 DEF IInv, JobSound
  <2>5. faults' \in 0 .. MaxFaults
    BY <1>3, InputsAssumption DEF IInv, TypeOK, Cancel
  <2>6. told' \subseteq Requests /\ UNCHANGED <<rows, freeing, grants, memory, tokens>>
    BY <1>3 DEF IInv, TypeOK, Cancel
  <2> HIDE DEF j
  <2> QED
    BY <2>1, <2>2, <2>3, <2>4, <2>5, <2>6, JobStepKeepsIInv
<1>4. ASSUME NEW r \in Requests, Arrive(h, r) PROVE IInv'
  <2> DEFINE j == [Idle EXCEPT !.step = IF Ask[r].key = NoKey THEN "insert" ELSE "recall",
                               !.req = r]
  <2>1. j \in Job
    BY DEF Idle, Job, Steps
  <2>2. j.req = r /\ (j.step = "recall" => Ask[r].key # NoKey)
    BY DEF Idle
  <2>3. job' = [job EXCEPT ![h] = j]
    BY <1>4 DEF Arrive
  <2>4. /\ told' \subseteq Requests /\ faults' \in 0 .. MaxFaults
        /\ UNCHANGED <<rows, freeing, grants, memory, tokens>>
    BY <1>4 DEF IInv, TypeOK, Arrive
  <2> HIDE DEF j
  <2> QED
    BY <2>1, <2>2, <2>3, <2>4, JobStepKeepsIInv
<1>5. CASE StatementFails(h)
  <2>1. faults' \in 0 .. MaxFaults /\ UNCHANGED <<rows, freeing, grants, memory, tokens>>
    BY <1>5, InputsAssumption DEF IInv, TypeOK, StatementFails
  <2>2. job[h].req \in Requests
    BY <1>5 DEF IInv, JobSound, StatementFails
  <2>3. told' \subseteq Requests
    BY <1>5, <2>2 DEF IInv, TypeOK, StatementFails
  <2>4. CASE job' = [job EXCEPT ![h] = Idle]
    BY <2>1, <2>3, <2>4, IdleIsAJob, JobStepKeepsIInv DEF Idle
  <2>5. CASE job' # [job EXCEPT ![h] = Idle]
    <3> DEFINE j == [job[h] EXCEPT !.step = "insert"]
    <3>1. j \in Job /\ j.step = "insert" /\ j.req = job[h].req
      BY DEF IInv, TypeOK, Job, Steps
    <3>2. job' = [job EXCEPT ![h] = j]
      BY <1>5, <2>5 DEF StatementFails
    <3> HIDE DEF j
    <3> QED
      BY <2>1, <2>2, <2>3, <3>1, <3>2, JobStepKeepsIInv
  <2> QED
    BY <2>4, <2>5
<1> QED
  BY <1>1, <1>2, <1>3, <1>4, <1>5

-----------------------------------------------------------------------------
\* Every step keeps the invariant.
LEMMA NextIInv == IInv /\ [Next]_vars => IInv'
<1> SUFFICES ASSUME IInv, [Next]_vars PROVE IInv'
  OBVIOUS
<1>1. ASSUME NEW h \in Handlers, Handle(h) \/ StatementFails(h) \/ Cancel(h) PROVE IInv'
  BY <1>1, InsertKeepsIInv, PortClaimKeepsIInv, RememberKeepsIInv, OtherStepsKeepIInv DEF Handle
<1>2. ASSUME NEW h \in Handlers, NEW r \in Requests, Arrive(h, r) PROVE IInv'
  BY <1>2, OtherStepsKeepIInv
<1>3. ASSUME NEW l \in Labels, Commit(l) \/ Release(l) \/ ReleaseFrees(l) \/ ReleaseCut(l)
      PROVE  IInv'
  <2>1. CASE Commit(l)
    BY <2>1, SetStateKeepsIInv DEF Commit, IInv, FreeingSound
  <2>2. CASE Release(l)
    BY <2>2, SetStateKeepsIInv DEF Release
  <2>3. CASE ReleaseFrees(l)
    BY <2>3, DropRowsKeepsIInv DEF ReleaseFrees
  <2>4. CASE ReleaseCut(l)
    BY <2>4 DEF IInv, TypeOK, IdsBounded, JobSound, FreeingSound, ReleaseCut
  <2> QED
    BY <1>3, <2>1, <2>2, <2>3, <2>4
<1>4. ASSUME NEW t \in Tokens, CreateToken(t) \/ Revoke(t) PROVE IInv'
  BY <1>4 DEF IInv, TypeOK, IdsBounded, JobSound, FreeingSound, CreateToken, Revoke
<1>5. ASSUME NEW L \in SUBSET Labels, Reap(L) PROVE IInv'
  <2>1. L \cap freeing = {}
    BY <1>5 DEF Reap, Expired, IInv, FreeingSound
  <2> QED
    BY <1>5, <2>1, DropRowsKeepsIInv DEF Reap
<1>6. CASE Crash
  <2>1. job' = [h \in Handlers |-> Idle] /\ faults' \in 0 .. MaxFaults
    BY <1>6, InputsAssumption DEF IInv, TypeOK, Crash
  <2> QED
    BY <1>6, <2>1, IdleIsAJob DEF IInv, TypeOK, IdsBounded, JobSound, FreeingSound, Crash, Idle
<1>7. CASE UNCHANGED vars
  BY <1>7 DEF IInv, TypeOK, IdsBounded, JobSound, FreeingSound, vars
<1> QED
  BY <1>1, <1>2, <1>3, <1>4, <1>5, <1>6, <1>7 DEF Next

\* Typing, bounded ids and the link between a handler's step and its request are
\* inductive, whatever is cancelled, crashes or is repeated.
THEOREM Invariance == Spec => []IInv
<1>1. Init => IInv
  BY InitIInv
<1>2. IInv /\ [Next]_vars => IInv'
  BY NextIInv
<1> QED
  BY <1>1, <1>2, PTL DEF Spec

\* The tables, the memory and what each handler carries stay well typed.
THEOREM TypeCorrect == Spec => []TypeOK
<1>1. IInv => TypeOK
  BY DEF IInv
<1> QED
  BY <1>1, Invariance, PTL

\* The response stored for a key is never replaced or lost, so that all replays of a key
\* are the same: RememberIdempotent is the only writer, and it leaves what is there.
THEOREM MemoryStays == Spec => ReplaysAgree
<1> DEFINE Kept == \A k \in DOMAIN memory : k \in DOMAIN memory' /\ memory'[k] = memory[k]
<1>1. [Next]_vars => [Kept]_vars
  <2> SUFFICES ASSUME [Next]_vars PROVE Kept
    OBVIOUS
  <2>1. ASSUME NEW h \in Handlers, Remember(h) PROVE Kept
    <3>1. CASE memory' = memory
      BY <3>1
    <3>2. CASE memory' # memory
      <4>1. memory' = Put(memory, A(h).key, [id |-> job[h].id, port |-> job[h].port])
        BY <2>1, <3>2 DEF Remember, Remembered
      <4>2. A(h).key \notin DOMAIN memory
        BY <2>1, <3>2 DEF Remember, Remembered
      <4> QED
        BY <4>1, <4>2 DEF Put
    <3> QED
      BY <3>1, <3>2
  <2>2. CASE UNCHANGED memory
    BY <2>2
  <2>3. ASSUME NEW h \in Handlers, Handle(h) \/ StatementFails(h) \/ Cancel(h), ~ Remember(h)
        PROVE  UNCHANGED memory
    BY <2>3 DEF Handle, Replay, RecallMisses, Insert, Taken, PortClaim, PortFails, CutInsert,
                StatementFails, Cancel
  <2>4. ASSUME NEW h \in Handlers, NEW r \in Requests, Arrive(h, r) PROVE UNCHANGED memory
    BY <2>4 DEF Arrive
  <2>5. ASSUME \/ \E l \in Labels : Commit(l) \/ Release(l) \/ ReleaseFrees(l) \/ ReleaseCut(l)
               \/ \E t \in Tokens : CreateToken(t) \/ Revoke(t)
               \/ \E L \in SUBSET Labels : Reap(L)
               \/ Crash
               \/ UNCHANGED vars
        PROVE  UNCHANGED memory
    BY <2>5 DEF Commit, Release, ReleaseFrees, ReleaseCut, CreateToken, Revoke, Reap, Crash, vars
  <2> HIDE DEF Kept
  <2> QED
    BY <2>1, <2>2, <2>3, <2>4, <2>5 DEF Next
<1> QED
  BY <1>1, PTL DEF Spec, ReplaysAgree

-----------------------------------------------------------------------------
\* A handler at work on a request of token t.
Serves(h, t) == ~ On(h, "idle") /\ A(h).token = t

\* A revoked token is revoked for good, and no handler begins to serve it any more:
\* the requests of it that are still under way are those that were before.
StaysRevoked ==
    \A t \in Tokens : tokens[t] = "revoked" =>
        /\ tokens'[t] = "revoked"
        /\ \A h \in Handlers : Serves(h, t)' => Serves(h, t)

LEMMA StepKeepsRevoked ==
    ASSUME IInv, [Next]_vars, NEW t \in Tokens, tokens[t] = "revoked"
    PROVE  tokens'[t] = "revoked" /\ \A h \in Handlers : Serves(h, t)' => Serves(h, t)
<1>1. job \in [Handlers -> Job] /\ tokens \in [Tokens -> {"unused", "live", "revoked"}]
  BY DEF IInv, TypeOK
<1>2. ASSUME NEW h \in Handlers, NEW r \in Requests, Arrive(h, r)
      PROVE  tokens' = tokens /\ \A g \in Handlers : Serves(g, t)' => Serves(g, t)
  <2>1. tokens' = tokens /\ Ask[r].token # t
    BY <1>2, InputsAssumption DEF Arrive, Authorized
  <2>2. job'[h].req = r /\ \A g \in Handlers \ {h} : job'[g] = job[g]
    BY <1>1, <1>2 DEF Arrive, Idle, Job
  <2> QED
    BY <2>1, <2>2 DEF Serves
<1>3. ASSUME NEW h \in Handlers, Handle(h)
      PROVE  tokens' = tokens /\ \A g \in Handlers : Serves(g, t)' => Serves(g, t)
  <2>1. /\ tokens' = tokens /\ job[h].step # "idle"
        /\ \/ job' = [job EXCEPT ![h] = Idle]
           \/ \E j \in Job : j.req = job[h].req /\ job' = [job EXCEPT ![h] = j]
    <3>1. CASE Replay(h) \/ Taken(h) \/ PortFails(h) \/ CutInsert(h)
      BY <3>1 DEF Replay, Taken, PortFails, CutInsert
    <3>2. CASE RecallMisses(h)
      <4>1. [job[h] EXCEPT !.step = "insert"] \in Job
        BY <1>1 DEF Job, Steps
      <4> QED
        BY <1>1, <3>2, <4>1 DEF RecallMisses, Job
    <3>3. CASE Insert(h)
      <4> DEFINE j == [job[h] EXCEPT !.step = AfterHostname(h), !.id = NewId]
      <4>1. j \in Job /\ j.req = job[h].req
        BY <1>1, NewIdIsNat DEF IInv, Job, Steps, AfterHostname
      <4>2. job' = [job EXCEPT ![h] = j]
        BY <1>1, <3>3 DEF Insert
      <4> QED
        BY <3>3, <4>1, <4>2 DEF Insert
    <3>4. CASE PortClaim(h)
      <4>1. PICK v \in Candidates(A(h).owner) :
               job' = [job EXCEPT ![h].step = "remember", ![h].port = v]
        BY <3>4 DEF PortClaim
      <4>2. v \in Pool
        BY <4>1 DEF Candidates, IInv, TypeOK
      <4> DEFINE j == [job[h] EXCEPT !.step = "remember", !.port = v]
      <4>3. j \in Job /\ j.req = job[h].req
        BY <1>1, <4>2 DEF Job, Steps
      <4>4. job' = [job EXCEPT ![h] = j]
        BY <1>1, <4>1
      <4> QED
        BY <3>4, <4>3, <4>4 DEF PortClaim
    <3>5. CASE Remember(h)
      BY <3>5 DEF Remember
    <3> QED
      BY <1>3, <3>1, <3>2, <3>3, <3>4, <3>5 DEF Handle
  <2> QED
    BY <1>1, <2>1 DEF Serves, Idle
<1>4. ASSUME NEW h \in Handlers, Cancel(h)
      PROVE  tokens' = tokens /\ \A g \in Handlers : Serves(g, t)' => Serves(g, t)
  <2>1. \A g \in Handlers : job'[g].req = job[g].req /\ job'[g].step = job[g].step
    BY <1>1, <1>4 DEF Cancel, Job
  <2> QED
    BY <1>4, <2>1 DEF Cancel, Serves
<1>8. ASSUME NEW h \in Handlers, StatementFails(h)
      PROVE  tokens' = tokens /\ \A g \in Handlers : Serves(g, t)' => Serves(g, t)
  <2>1. tokens' = tokens /\ job[h].step # "idle"
    BY <1>8 DEF StatementFails
  <2>2. \/ job' = [job EXCEPT ![h] = Idle]
        \/ job'[h].req = job[h].req /\ \A g \in Handlers \ {h} : job'[g] = job[g]
    BY <1>1, <1>8 DEF StatementFails, Job
  <2> QED
    BY <1>1, <2>1, <2>2 DEF Serves, Idle
<1>5. CASE Crash
  BY <1>5 DEF Crash, Serves, Idle
<1>6. ASSUME NEW u \in Tokens, CreateToken(u) \/ Revoke(u)
      PROVE  tokens'[t] = "revoked" /\ job' = job
  BY <1>1, <1>6 DEF CreateToken, NameIsNew, Revoke
<1>7. CASE \/ \E l \in Labels : Commit(l) \/ Release(l) \/ ReleaseFrees(l) \/ ReleaseCut(l)
          \/ \E L \in SUBSET Labels : Reap(L)
          \/ UNCHANGED vars
  BY <1>7 DEF Commit, Release, ReleaseFrees, ReleaseCut, Reap, vars, Serves
<1> QED
  BY <1>2, <1>3, <1>4, <1>5, <1>6, <1>7, <1>8 DEF Next, Serves

\* A token is looked up once per request, so a request past the lookup goes on after a
\* revocation, but none begins: the safe half of RevocationBites, for any number of
\* handlers and tokens (internal/api/server.go, auth; internal/store/tokens.go, LookupToken).
THEOREM RevocationIsFinal == Spec => [][StaysRevoked]_vars
<1>1. IInv /\ [Next]_vars => StaysRevoked
  BY StepKeepsRevoked DEF StaysRevoked
<1> QED
  BY <1>1, Invariance, PTL DEF Spec

-----------------------------------------------------------------------------
(* What interrupted tries leave behind. *)

\* Every hostname is somebody's who asked for it, and a hold only where one was asked for;
\* what was asked for as a hold is one until somebody commits or releases it.
RowsAsked ==
    \A l \in DOMAIN rows : \E r \in Requests : Ask[r].label = l /\ rows[l].owner = Ask[r].owner

\* What a held claim of a label that only its request asks for may meet when it is tried:
\* nothing, or a hold of its own owner that the reaper may take.
Open(r) == LET l == Ask[r].label
           IN  l \in DOMAIN rows => Expired(l) /\ rows[l].owner = Ask[r].owner

\* Nobody but those who commit or release the hold puts anything else in its way, and a
\* release that gets to its end opens the way again.
WayStaysOpen ==
    \A r \in Requests : HeldAlone(r) =>
        LET l == Ask[r].label
        IN  /\ Open(r) => Open(r)' \/ Commit(l) \/ Release(l)
            /\ ReleaseFrees(l) => Open(r)'

\* A step never takes a port away nor replaces it.
PortsKept == \A o \in DOMAIN grants : o \in DOMAIN grants' /\ grants'[o] = grants[o]

\* A 201 under a key is given with its response stored, unless the store fails.
AnswersStored ==
    \A r \in told' \ told : Ask[r].key # NoKey => Ask[r].key \in DOMAIN memory' \/ faults' # faults

\* A step that does not concern hostnames, or takes some away.
LEMMA FewerRows ==
    ASSUME DOMAIN rows' \subseteq DOMAIN rows, \A l \in DOMAIN rows' : rows'[l] = rows[l]
    PROVE  /\ RowsAsked => RowsAsked'
           /\ \A r \in Requests : Open(r) => Open(r)'
BY DEF RowsAsked, Open, Expired

\* The row of a hostname that is claimed: nobody had it, so it is its only asker's.
LEMMA InsertKeepsOpen ==
    ASSUME IInv, NEW h \in Handlers, Insert(h)
    PROVE  /\ RowsAsked => RowsAsked'
           /\ \A r \in Requests : HeldAlone(r) /\ Open(r) => Open(r)'
<1> DEFINE row == [id |-> NewId, owner |-> A(h).owner,
                   state |-> IF A(h).hold THEN "pending" ELSE "active"]
<1>1. job[h].req \in Requests /\ rows' = Put(rows, A(h).label, row)
  BY DEF IInv, JobSound, Insert
<1>2. row.owner = A(h).owner /\ (A(h).hold => row.state = "pending")
  OBVIOUS
<1> HIDE DEF row
<1>3. /\ DOMAIN rows' = DOMAIN rows \cup {A(h).label}
      /\ \A l \in DOMAIN rows' : rows'[l] = IF l = A(h).label THEN row ELSE rows[l]
  BY <1>1, Zenon DEF Put
<1>4. RowsAsked => RowsAsked'
  BY <1>1, <1>2, <1>3 DEF RowsAsked
<1>5. ASSUME NEW r \in Requests, HeldAlone(r), Open(r) PROVE Open(r)'
  <2>1. CASE Ask[r].label = A(h).label
    <3>1. job[h].req = r /\ Ask[r].hold
      BY <1>1, <1>5, <2>1 DEF HeldAlone
    <3> QED
      BY <1>2, <1>3, <3>1 DEF Open, Expired
  <2>2. CASE Ask[r].label # A(h).label
    BY <1>3, <1>5, <2>2 DEF Open, Expired
  <2> QED
    BY <2>1, <2>2
<1> QED
  BY <1>4, <1>5

\* The owner of a row stays, whatever becomes of its state, and other rows stay.
LEMMA SetStateLeaves ==
    ASSUME IInv, NEW l \in DOMAIN rows, NEW state, SetState(l, state)
    PROVE  /\ DOMAIN rows' = DOMAIN rows /\ rows'[l].owner = rows[l].owner
           /\ \A m \in DOMAIN rows : m # l => rows'[m] = rows[m]
<1>1. rows[l] \in Row /\ rows'[l] = [rows[l] EXCEPT !.state = state]
  BY DEF IInv, TypeOK, SetState
<1> QED
  BY <1>1 DEF SetState, Row

LEMMA NextKeepsRowsAsked ==
    ASSUME IInv, RowsAsked, [Next]_vars
    PROVE  RowsAsked'
<1>1. ASSUME NEW h \in Handlers, Insert(h) PROVE RowsAsked'
  BY <1>1, InsertKeepsOpen
<1>2. ASSUME NEW L, rows' = Drop(rows, L) PROVE RowsAsked'
  BY <1>2, FewerRows DEF Drop
<1>3. CASE UNCHANGED rows
  BY <1>3, FewerRows
<1>4. ASSUME NEW h \in Handlers, Handle(h) \/ StatementFails(h) \/ Cancel(h), ~ Insert(h)
      PROVE  UNCHANGED rows
  BY <1>4 DEF Handle, Replay, RecallMisses, Taken, PortClaim, PortFails, Remember, CutInsert,
              StatementFails, Cancel
<1>5. ASSUME NEW l \in DOMAIN rows, NEW state, SetState(l, state) PROVE RowsAsked'
  BY <1>5, SetStateLeaves DEF RowsAsked
<1> QED
  BY <1>1, <1>2, <1>3, <1>4, <1>5
     DEF Next, Arrive, Commit, Release, ReleaseFrees, ReleaseCut, CreateToken, Revoke, Reap,
         Crash, vars

LEMMA NextKeepsOpen ==
    ASSUME IInv, [Next]_vars
    PROVE  WayStaysOpen
<1> SUFFICES ASSUME NEW r \in Requests, HeldAlone(r)
             PROVE  /\ Open(r) => Open(r)' \/ Commit(Ask[r].label) \/ Release(Ask[r].label)
                    /\ ReleaseFrees(Ask[r].label) => Open(r)'
  BY DEF WayStaysOpen
<1>1. ASSUME NEW h \in Handlers, Insert(h) PROVE Open(r) => Open(r)'
  BY <1>1, InsertKeepsOpen
<1>2. ASSUME NEW L, rows' = Drop(rows, L) PROVE Open(r) => Open(r)'
  BY <1>2, FewerRows DEF Drop
<1>3. ASSUME UNCHANGED rows PROVE Open(r) => Open(r)'
  BY <1>3, FewerRows
<1>4. ASSUME NEW h \in Handlers, Handle(h) \/ StatementFails(h) \/ Cancel(h), ~ Insert(h)
      PROVE  UNCHANGED rows
  BY <1>4 DEF Handle, Replay, RecallMisses, Taken, PortClaim, PortFails, Remember, CutInsert,
              StatementFails, Cancel
<1>5. ASSUME NEW l \in DOMAIN rows, NEW state, SetState(l, state), l # Ask[r].label
      PROVE  Open(r) => Open(r)'
  BY <1>5, SetStateLeaves DEF Open, Expired
<1>6. Open(r) => Open(r)' \/ Commit(Ask[r].label) \/ Release(Ask[r].label)
  <2>1. ASSUME NEW l \in Labels, Commit(l) \/ Release(l), l # Ask[r].label
        PROVE  Open(r) => Open(r)'
    BY <1>5, <2>1 DEF Commit, Release
  <2> QED
    BY <1>1, <1>2, <1>3, <1>4, <2>1
       DEF Next, Arrive, ReleaseFrees, ReleaseCut, CreateToken, Revoke, Reap, Crash, vars
<1>7. ReleaseFrees(Ask[r].label) => Open(r)'
  BY DEF ReleaseFrees, Drop, Open
<1> QED
  BY <1>6, <1>7

LEMMA NextStoresAnswers ==
    ASSUME IInv, [Next]_vars
    PROVE  AnswersStored
<1>1. CASE UNCHANGED told
  BY <1>1 DEF AnswersStored
<1>2. ASSUME NEW h \in Handlers, Replay(h) PROVE AnswersStored
  BY <1>2 DEF Replay, AnswersStored
<1>3. ASSUME NEW h \in Handlers, Remember(h), told' # told PROVE AnswersStored
  <2>1. told' = told \cup {job[h].req} /\ ~ job[h].cut
    BY <1>3 DEF Remember
  <2>2. ASSUME A(h).key # NoKey PROVE A(h).key \in DOMAIN memory'
    <3>1. memory' = Remembered(A(h).key, [id |-> job[h].id, port |-> job[h].port])
      BY <1>3, <2>1, <2>2 DEF Remember
    <3> QED
      BY <3>1 DEF Remembered, Put
  <2> QED
    BY <2>1, <2>2 DEF AnswersStored
<1>4. ASSUME NEW h \in Handlers, StatementFails(h) PROVE UNCHANGED told \/ AnswersStored
  <2>1. faults \in Nat /\ faults' = faults + 1
    BY <1>4 DEF IInv, TypeOK, StatementFails
  <2> QED
    BY <2>1 DEF AnswersStored
<1>5. ASSUME NEW h \in Handlers, Handle(h) \/ Cancel(h), ~ Replay(h), ~ Remember(h)
      PROVE  UNCHANGED told
  BY <1>5 DEF Handle, RecallMisses, Insert, Taken, PortClaim, PortFails, CutInsert, Cancel
<1> QED
  BY <1>1, <1>2, <1>3, <1>4, <1>5
     DEF Next, Arrive, Commit, Release, ReleaseFrees, ReleaseCut, CreateToken, Revoke, Reap,
         Crash, vars

LEMMA NextKeepsPorts ==
    ASSUME [Next]_vars
    PROVE  PortsKept
<1>1. ASSUME NEW h \in Handlers, PortClaim(h)
      PROVE  PortsKept
  <2>1. PICK v \in Candidates(A(h).owner) : grants' = Put(grants, A(h).owner, v)
    BY <1>1 DEF PortClaim
  <2>2. A(h).owner \in DOMAIN grants => v = grants[A(h).owner]
    BY <2>1 DEF Candidates
  <2>3. /\ DOMAIN grants' = DOMAIN grants \cup {A(h).owner}
        /\ \A o \in DOMAIN grants' : grants'[o] = IF o = A(h).owner THEN v ELSE grants[o]
    BY <2>1, Zenon DEF Put
  <2> QED
    BY <2>2, <2>3 DEF PortsKept
<1>2. ASSUME NEW h \in Handlers, Handle(h) \/ StatementFails(h) \/ Cancel(h), ~ PortClaim(h)
      PROVE  UNCHANGED grants
  BY <1>2 DEF Handle, Replay, RecallMisses, Insert, Taken, PortFails, Remember, CutInsert,
              StatementFails, Cancel
<1>3. UNCHANGED grants => PortsKept
  BY DEF PortsKept
<1> QED
  BY <1>1, <1>2, <1>3
     DEF Next, Arrive, Commit, Release, ReleaseFrees, ReleaseCut, CreateToken, Revoke, Reap,
         Crash, vars

\* Every hostname is always that of a request that asked for it, wherever tries end.
THEOREM HostnamesAreAsked == Spec => []RowsAsked
<1>1. Init => RowsAsked
  BY DEF Init, RowsAsked
<1>2. IInv /\ RowsAsked /\ [Next]_vars => RowsAsked'
  BY NextKeepsRowsAsked
<1> QED
  BY <1>1, <1>2, Invariance, PTL DEF Spec

\* Wherever tries fail, are cancelled or crash, they leave the way open for the next one:
\* only a commit or a release puts in its way what no reaper takes, a port that was
\* claimed stays the owner's, and a 201 under a key is stored unless the store fails: the
\* safety half of HeldRetriesConverge (Alloc.Claim, internal/service/alloc.go).
THEOREM RetriesFindTheWay == Spec => [][WayStaysOpen /\ PortsKept /\ AnswersStored]_vars
<1>1. IInv /\ [Next]_vars => WayStaysOpen /\ PortsKept /\ AnswersStored
  BY NextKeepsOpen, NextKeepsPorts, NextStoresAnswers
<1> QED
  BY <1>1, Invariance, PTL DEF Spec
=============================================================================
