------------------------------- MODULE Claims -------------------------------
(***************************************************************************)
(* POST /v1/claims and the clients that repeat it: handleClaim of          *)
(* internal/api/server.go behind its token check, Alloc.Claim with its two *)
(* parts (hostname, then port) and the idempotency_keys table.  No two of  *)
(* its statements share a transaction; the request may be cancelled, or    *)
(* the daemon may crash, between any two, and two tries of one request may *)
(* run side by side.                                                       *)
(*                                                                         *)
(* Ids and stale writes are the business of Registry, the walk over the    *)
(* pool that of Ports: here a hostname is its label, a port claim is one   *)
(* step, and no hostname is released twice at a time.                      *)
(***************************************************************************)
EXTENDS Tables, FiniteSets

CONSTANTS Handlers,     \* request goroutines
          Requests,     \* what clients ask for, and repeat until it is answered
          Ask,          \* request -> [label, owner, key, port, hold, token]
          Tokens,       \* names of scoped tokens
          Root,         \* the root API key, in place of a token
          NoKey,        \* no Idempotency-Key header
          Pool,         \* the ports of the pool
          Nothing,
          Engine,       \* "sqlite" or "postgres"
          MaxFaults     \* bound: failed and cancelled claims, crashes of the daemon

Steps == {"idle", "recall", "insert", "port", "remember"}
Asks  == [label : STRING, owner : STRING, key : STRING, port : BOOLEAN, hold : BOOLEAN,
          token : Tokens \cup {Root}]

ASSUME InputsAssumption == /\ Ask \in [Requests -> Asks]
                           /\ Pool \subseteq Nat /\ IsFiniteSet(Pool)
                           /\ Root \notin Tokens
                           /\ Engine \in {"sqlite", "postgres"}
                           /\ MaxFaults \in Nat

VARIABLES rows,      \* label -> the allocation that holds it
          freeing,   \* labels of rows set to released, and still to be deleted
          grants,    \* owner -> its port
          memory,    \* idempotency key -> the response stored under it
          tokens,    \* token name -> "unused", "live" or "revoked"
          job,       \* what each handler is in the middle of
          told,      \* the requests whose client has a 201
          faults

vars == <<rows, freeing, grants, memory, tokens, job, told, faults>>

Labels == {Ask[r].label : r \in Requests}
Owners == {Ask[r].owner : r \in Requests}
Keys   == {Ask[r].key : r \in Requests} \ {NoKey}

Row == [id : Nat, owner : Owners, state : {"pending", "active", "released"}]

\* A response names the allocation by id, and the port that came with it.
Body == [id : Nat, port : Pool \cup {Nothing}]

\* A request on its way through the handler; cut: its context is cancelled.
Job  == [step : Steps, req : Requests \cup {Nothing}, id : Nat,
         port : Pool \cup {Nothing}, cut : BOOLEAN]
Idle == [step |-> "idle", req |-> Nothing, id |-> 0, port |-> Nothing, cut |-> FALSE]

TypeOK ==
    /\ DOMAIN rows \subseteq Labels
    /\ \A l \in DOMAIN rows : rows[l] \in Row
    /\ freeing \subseteq Labels
    /\ DOMAIN grants \subseteq Owners /\ \A o \in DOMAIN grants : grants[o] \in Pool
    /\ DOMAIN memory \subseteq Keys /\ \A k \in DOMAIN memory : memory[k] \in Body
    /\ tokens \in [Tokens -> {"unused", "live", "revoked"}]
    /\ job \in [Handlers -> Job]
    /\ told \subseteq Requests
    /\ faults \in 0 .. MaxFaults

Init ==
    /\ rows = [l \in {} |-> {}] /\ freeing = {} /\ grants = [o \in {} |-> {}] /\ memory = [k \in {} |-> {}]
    /\ tokens = [t \in Tokens |-> "unused"]
    /\ job = [h \in Handlers |-> Idle]
    /\ told = {}
    /\ faults = 0

-----------------------------------------------------------------------------
(* The handler, statement by statement. *)

On(h, step) == job[h].step = step
A(h)        == Ask[job[h].req]
Goto(h, step) == job' = [job EXCEPT ![h].step = step]
Answer(h)   == job' = [job EXCEPT ![h] = Idle]
Done(h)     == Answer(h) /\ told' = told \cup {job[h].req}

SlipForgetsRevocation(t) == TRUE

\* LookupToken finds a token by its hash and takes it unless it was revoked.
Authorized(t) == t \in {Root} \cup {u \in Tokens : tokens[u] = "live"}

\* auth, then the scope of an owner token: its claims are made in its own name, so
\* Ask gives what is left of a request once the handler has overwritten it.
Arrive(h, r) ==
    /\ On(h, "idle")
    /\ Authorized(Ask[r].token)
    /\ job' = [job EXCEPT ![h] = [Idle EXCEPT
          !.step = IF Ask[r].key = NoKey THEN "insert" ELSE "recall", !.req = r]]
    /\ UNCHANGED <<rows, freeing, grants, memory, tokens, told, faults>>

\* RecallIdempotent: a stored response is the answer, verbatim.
Replay(h) ==
    /\ On(h, "recall") /\ ~ job[h].cut
    /\ A(h).key \in DOMAIN memory
    /\ Done(h)
    /\ UNCHANGED <<rows, freeing, grants, memory, tokens, faults>>

\* An error of the lookup is dropped, and the claim is made as if the key were new.
RecallMisses(h) ==
    /\ On(h, "recall")
    /\ job[h].cut \/ A(h).key \notin DOMAIN memory
    /\ Goto(h, "insert")
    /\ UNCHANGED <<rows, freeing, grants, memory, tokens, told, faults>>

\* What res.LastInsertId tells: the driver for Postgres has none, and the id stays 0.
NewId == IF Engine = "postgres" THEN 0 ELSE MaxPlusOne({rows[l].id : l \in DOMAIN rows})

AfterHostname(h) == IF A(h).port THEN "port" ELSE "remember"

\* claimHostname: GetZone, the policy, and the INSERT the unique index decides.  (The
\* event it appends, whose result is dropped, is left out.)
Insert(h) ==
    /\ On(h, "insert") /\ ~ job[h].cut
    /\ A(h).label \notin DOMAIN rows
    /\ rows' = Put(rows, A(h).label, [id |-> NewId, owner |-> A(h).owner,
                                      state |-> IF A(h).hold THEN "pending" ELSE "active"])
    /\ job' = [job EXCEPT ![h].step = AfterHostname(h), ![h].id = NewId]
    /\ UNCHANGED <<freeing, grants, memory, tokens, told, faults>>

\* ErrTaken: 409, whoever's row it is.
Taken(h) ==
    /\ On(h, "insert") /\ ~ job[h].cut
    /\ A(h).label \in DOMAIN rows
    /\ Answer(h)
    /\ UNCHANGED <<rows, freeing, grants, memory, tokens, told, faults>>

\* Ports.Claim: the port the owner has, or one nobody has.
Candidates(o) == IF o \in DOMAIN grants THEN {grants[o]}
                 ELSE Pool \ {grants[p] : p \in DOMAIN grants}

PortClaim(h) ==
    /\ On(h, "port") /\ ~ job[h].cut
    /\ \E v \in Candidates(A(h).owner) :
          /\ \A w \in Candidates(A(h).owner) : v <= w
          /\ grants' = Put(grants, A(h).owner, v)
          /\ job' = [job EXCEPT ![h].step = "remember", ![h].port = v]
    /\ UNCHANGED <<rows, freeing, memory, tokens, told, faults>>

\* 500, and the hostname stays: the pool is exhausted, or the request was cancelled.
PortFails(h) ==
    /\ On(h, "port")
    /\ job[h].cut \/ Candidates(A(h).owner) = {}
    /\ Answer(h)
    /\ UNCHANGED <<rows, freeing, grants, memory, tokens, told, faults>>

\* A slip: ON CONFLICT DO UPDATE.
SlipLastWins(k, body) == Put(memory, k, body)

\* RememberIdempotent: INSERT ... ON CONFLICT (key) DO NOTHING.
Remembered(k, body) == IF k \in DOMAIN memory THEN memory ELSE Put(memory, k, body)

Remember(h) ==
    /\ On(h, "remember")
    /\ memory' = IF A(h).key = NoKey \/ job[h].cut THEN memory
                 ELSE Remembered(A(h).key, [id |-> job[h].id, port |-> job[h].port])
    /\ IF job[h].cut THEN Answer(h) /\ UNCHANGED told ELSE Done(h)
    /\ UNCHANGED <<rows, freeing, grants, tokens, faults>>

\* The context of a cancelled request fails every later statement; the INSERT
\* answers 500 then.
CutInsert(h) ==
    /\ On(h, "insert") /\ job[h].cut
    /\ Answer(h)
    /\ UNCHANGED <<rows, freeing, grants, memory, tokens, told, faults>>

\* A statement fails without the request being cancelled. Errors of the lookup and of
\* the storing of a response are dropped: the latter leaves a 201 that is not stored.
StatementFails(h) ==
    /\ ~ job[h].cut /\ faults < MaxFaults
    /\ \/ On(h, "recall") /\ Goto(h, "insert") /\ UNCHANGED told
       \/ (On(h, "insert") \/ On(h, "port")) /\ Answer(h) /\ UNCHANGED told
       \/ On(h, "remember") /\ A(h).key # NoKey /\ Done(h)
    /\ faults' = faults + 1
    /\ UNCHANGED <<rows, freeing, grants, memory, tokens>>

-----------------------------------------------------------------------------
(* Around the handlers. *)

\* The client goes away while the handler is at work.
Cancel(h) ==
    /\ ~ On(h, "idle") /\ ~ job[h].cut /\ faults < MaxFaults
    /\ job' = [job EXCEPT ![h].cut = TRUE]
    /\ faults' = faults + 1
    /\ UNCHANGED <<rows, freeing, grants, memory, tokens, told>>

\* The tables are what a crash leaves; the handlers are gone, unanswered.
Crash ==
    /\ faults < MaxFaults
    /\ job' = [h \in Handlers |-> Idle]
    /\ freeing' = {}
    /\ faults' = faults + 1
    /\ UNCHANGED <<rows, grants, memory, tokens, told>>

SlipReapsNothing(l) == FALSE

\* A hold that nobody commits or renews expires at some time; the clock is left out.
Expired(l) == rows[l].state = "pending"

\* RunReaper: one DELETE for the holds L that have expired by now.
Reap(L) ==
    /\ L # {} /\ L \subseteq {l \in DOMAIN rows : Expired(l)}
    /\ rows' = Drop(rows, L)
    /\ UNCHANGED <<freeing, grants, memory, tokens, job, told, faults>>

SetState(l, state) == rows' = [rows EXCEPT ![l].state = state]

\* Alloc.Commit: a hold becomes active.
Commit(l) ==
    /\ l \in DOMAIN rows /\ rows[l].state = "pending"
    /\ SetState(l, "active")
    /\ UNCHANGED <<freeing, grants, memory, tokens, job, told, faults>>

\* Alloc.Release, which somebody calls to give a hostname back: UPDATE, then DELETE.
Release(l) ==
    /\ l \in DOMAIN rows \ freeing
    /\ SetState(l, "released") /\ freeing' = freeing \cup {l}
    /\ UNCHANGED <<grants, memory, tokens, job, told, faults>>

ReleaseFrees(l) ==
    /\ l \in freeing /\ freeing' = freeing \ {l}
    /\ rows' = Drop(rows, {l})
    /\ UNCHANGED <<grants, memory, tokens, job, told, faults>>

\* Cut between the two: the row stays, released, and no reaper takes it.
ReleaseCut(l) ==
    /\ l \in freeing /\ freeing' = freeing \ {l}
    /\ UNCHANGED <<rows, grants, memory, tokens, job, told, faults>>

SlipNamesComeBack(t) == tokens[t] # "live"

\* The name of a token is unique, and a revoked one keeps its name.
NameIsNew(t) == tokens[t] = "unused"

\* handleCreateToken: CreateToken stores the hash, the client has the plaintext.
CreateToken(t) ==
    /\ NameIsNew(t)
    /\ tokens' = [tokens EXCEPT ![t] = "live"]
    /\ UNCHANGED <<rows, freeing, grants, memory, job, told, faults>>

\* handleRevokeToken: RevokeToken finds a live token by its name and is permanent.
Revoke(t) ==
    /\ tokens[t] = "live"
    /\ tokens' = [tokens EXCEPT ![t] = "revoked"]
    /\ UNCHANGED <<rows, freeing, grants, memory, job, told, faults>>

Handle(h) == \/ Replay(h) \/ RecallMisses(h) \/ Insert(h) \/ Taken(h)
             \/ PortClaim(h) \/ PortFails(h) \/ Remember(h) \/ CutInsert(h)

Next ==
    \/ \E h \in Handlers : Handle(h) \/ StatementFails(h) \/ Cancel(h)
    \/ \E h \in Handlers, r \in Requests : Arrive(h, r)
    \/ \E l \in Labels : Commit(l) \/ Release(l) \/ ReleaseFrees(l) \/ ReleaseCut(l)
    \/ \E t \in Tokens : CreateToken(t) \/ Revoke(t)
    \/ \E L \in SUBSET Labels : Reap(L)
    \/ Crash

Spec == Init /\ [][Next]_vars

\* Handlers run on, of releases too, the reaper's ticker reaches every hold, and a client
\* repeats its request until it has a 201.  The strong fairness stands for there being
\* a goroutine for every request, where the model has a few.
FairSpec ==
    /\ Spec
    /\ \A h \in Handlers : WF_vars(Handle(h))
    /\ \A l \in Labels : WF_vars(ReleaseFrees(l))
    /\ \A l \in Labels : WF_vars(\E L \in SUBSET Labels : l \in L /\ Reap(L))
    /\ \A r \in Requests : SF_vars(r \notin told /\ \E h \in Handlers : Arrive(h, r))

-----------------------------------------------------------------------------
(* Properties. *)

\* What an Idempotency-Key is for: however often and however concurrently a request is
\* repeated, and though its hold may lapse and be claimed anew under the same key, the
\* replays of a key all give the one response stored first (RememberIdempotent,
\* "replay the stored response verbatim").
ReplaysAgree ==
    [][\A k \in DOMAIN memory : k \in DOMAIN memory' /\ memory'[k] = memory[k]]_vars

\* A hold of another than r alone asks for is never in its way.
HeldAlone(r) == Ask[r].hold /\ \A q \in Requests \ {r} : Ask[q].label # Ask[r].label

\* A row that is no hold, which no reaper takes.
Stays(l) == l \in DOMAIN rows /\ rows[l].state # "pending"

\* "A retry after partial failure converges" (Alloc.Claim) for holds: a client that
\* keeps repeating a held claim of a label only it asks for has its 201 in the end,
\* though statements fail and tries are cancelled or crash between hostname, port and
\* stored response. The half-done try's own hostname refuses the next ones only until the
\* reaper takes it, and its port is found again. Not so when somebody commits that
\* hold, or a release of it is cut in two: then a row no reaper takes stays for good. A
\* claim without hold has no such end: its retries are refused as taken by what the first
\* try left.
HeldRetriesConverge ==
    \A r \in Requests :
        HeldAlone(r) /\ Ask[r].token = Root
        => <>(r \in told) \/ <>[]Stays(Ask[r].label)

\* A token is looked up once per request (auth), so a request past the lookup goes on
\* after a revocation; but there is an end to that, for good.
RevocationBites ==
    \A t \in Tokens :
        tokens[t] = "revoked" ~> [](\A h \in Handlers : On(h, "idle") \/ A(h).token # t)
=============================================================================
