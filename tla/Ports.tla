-------------------------------- MODULE Ports --------------------------------
(***************************************************************************)
(* Sticky port grants out of one pool: internal/service/ports.go over the  *)
(* port_allocations table of internal/store/ports.go.  Each claim runs in  *)
(* a request goroutine of its own; every SQL statement is a step and so is *)
(* every turn of the walk, so claims for the same owner, claims for the    *)
(* same value, releases and host processes interleave freely.  The bind    *)
(* test opens a listener and closes it again, two steps: while one claim   *)
(* tests a value, the test of another claim fails on it.                   *)
(*                                                                         *)
(* The pool itself (range and avoid list) is created once at startup and   *)
(* never changes, so GetPool is not a step.                                *)
(***************************************************************************)
EXTENDS Tables, Naturals, FiniteSets

CONSTANTS Claimers,    \* request goroutines
          Owners,      \* owner_ref values
          Unset,       \* "no owner": the goroutine is idle
          RangeStart, RangeEnd, Avoid,    \* the pool
          Squatters,   \* values other processes may bind
          MaxReleases  \* bound: releases in a run (and so the row ids)

ASSUME PoolAssumption == /\ RangeStart \in Nat \ {0} /\ RangeEnd \in Nat
                         /\ Avoid \subseteq Nat /\ Squatters \subseteq Nat
                         /\ MaxReleases \in Nat
ASSUME UnsetAssumption == Unset \notin Owners

Values == RangeStart .. RangeEnd
Grant  == [owner : Owners, value : Nat, state : {"active", "occupied-foreign"}]

VARIABLES
    grants,    \* port_allocations: id -> grant
    bound,     \* values other processes on the host are listening on
    claim,     \* what each goroutine is doing
    answered,  \* history: the values an owner was given since its last release
    missed,    \* history: the values that stayed free since a claim began and
               \* that it passed over for no other reason (see NoFalseExhaustion)
    releases   \* history: number of releases so far

vars == <<grants, bound, claim, answered, missed, releases>>

\* The steps of a claim that found its owner's grant.  since is history: the owner
\* has not released that grant since.
StickySteps == {"check", "probing", "mark"}
Idle == [step |-> "idle", owner |-> Unset, id |-> 0, used |-> {}, v |-> 0,
         since |-> TRUE]

Claim == [step : {"idle", "used", "walk", "testing", "insert", "recheck"} \cup StickySteps,
          owner : Owners \cup {Unset}, id : Nat, used : SUBSET Nat, v : Nat,
          since : BOOLEAN]

TypeOK ==
    /\ DOMAIN grants \subseteq Nat \ {0}
    /\ grants \in [DOMAIN grants -> Grant]
    /\ bound \subseteq Nat
    /\ claim \in [Claimers -> Claim]
    /\ answered \in [Owners -> SUBSET Nat]
    /\ missed \in [Claimers -> SUBSET Nat]
    /\ releases \in Nat

Init ==
    /\ grants = [i \in {} |-> {}]
    /\ bound \in SUBSET Squatters
    /\ claim = [c \in Claimers |-> Idle]
    /\ answered = [o \in Owners |-> {}]
    /\ missed = [c \in Claimers |-> {}]
    /\ releases = 0

-----------------------------------------------------------------------------
HasGrant(o) == \E i \in DOMAIN grants : grants[i].owner = o
GrantOf(o)  == CHOOSE i \in DOMAIN grants : grants[i].owner = o
Granted     == {grants[i].value : i \in DOMAIN grants}
FreeValues  == (Values \ Avoid) \ (Granted \cup bound)

At(c, step)   == claim[c].step = step
Goto(c, step) == claim' = [claim EXCEPT ![c].step = step]

\* TCPBinder: the test fails on a value another process listens on, and on one
\* whose test by another claim has its listener open.
UnderTest    == {claim[c].v : c \in {d \in Claimers : claim[d].step \in {"probing", "testing"}}}
CanListen(v) == v \notin bound \cup UnderTest

\* The claim returns value v to its owner.
AnswerWith(c, o, v) ==
    /\ answered' = [answered EXCEPT ![o] = IF claim[c].since THEN @ \cup {v} ELSE @]
    /\ claim' = [claim EXCEPT ![c] = Idle]

-----------------------------------------------------------------------------
(* Claim. *)

\* GetPortByOwner finds the owner's grant: it is the answer, whatever the bind
\* test says of it.
ClaimSticky(c, o) ==
    /\ claim[c] = Idle
    /\ HasGrant(o)
    /\ claim' = [claim EXCEPT ![c] = [Idle EXCEPT !.step = "check", !.owner = o,
                                        !.id = GrantOf(o), !.v = grants[GrantOf(o)].value]]
    /\ UNCHANGED <<grants, bound, answered, missed, releases>>

\* The bind test of the granted value.
StickyTest(c) ==
    /\ At(c, "check")
    /\ Goto(c, IF CanListen(claim[c].v) THEN "probing" ELSE "mark")
    /\ UNCHANGED <<grants, bound, answered, missed, releases>>

\* The test closes its listener and the claim answers.
StickyClose(c) ==
    /\ At(c, "probing")
    /\ AnswerWith(c, claim[c].owner, claim[c].v)
    /\ UNCHANGED <<grants, bound, missed, releases>>

\* MarkPortState(existing.ID, "occupied-foreign"): UPDATE ... WHERE id, whatever
\* grant has that id by now; its error is dropped, and the claim answers.
ClaimMark(c) ==
    /\ At(c, "mark")
    /\ \/ grants' = [i \in DOMAIN grants |->
                        IF i = claim[c].id
                        THEN [grants[i] EXCEPT !.state = "occupied-foreign"]
                        ELSE grants[i]]
       \/ UNCHANGED grants
    /\ AnswerWith(c, claim[c].owner, claim[c].v)
    /\ UNCHANGED <<bound, missed, releases>>

\* GetPortByOwner finds nothing: allocate.
ClaimNew(c, o) ==
    /\ claim[c] = Idle
    /\ ~ HasGrant(o)
    /\ claim' = [claim EXCEPT ![c] = [Idle EXCEPT !.step = "used", !.owner = o]]
    /\ missed' = [missed EXCEPT ![c] = FreeValues]
    /\ UNCHANGED <<grants, bound, answered, releases>>

\* UsedPorts: the snapshot the walk goes by.
ClaimUsed(c) ==
    /\ At(c, "used")
    /\ claim' = [claim EXCEPT ![c].step = "walk", ![c].used = Granted,
                              ![c].v = RangeStart]
    /\ UNCHANGED <<grants, bound, answered, missed, releases>>

SlipStopsOneShort(v) == v >= RangeEnd
Past(v) == v > RangeEnd

Skipped(c, v) == v \in Avoid \/ v \in claim[c].used

\* The loop body up to the bind test, whose listener stays open on success: a
\* value that is avoided, used or listened on is passed over.
ClaimWalk(c) ==
    /\ At(c, "walk")
    /\ ~ Past(claim[c].v)
    /\ LET v == claim[c].v
       IN  IF Skipped(c, v) \/ ~ CanListen(v)
           THEN /\ claim' = [claim EXCEPT ![c].v = @ + 1]
                /\ missed' = [missed EXCEPT ![c] = IF v \in UnderTest THEN @ \ {v} ELSE @]
           ELSE Goto(c, "testing") /\ UNCHANGED missed
    /\ UNCHANGED <<grants, bound, answered, releases>>

\* The bind test closes its listener again.
ClaimClose(c) ==
    /\ At(c, "testing")
    /\ Goto(c, "insert")
    /\ UNCHANGED <<grants, bound, answered, missed, releases>>

\* The walk ended: the claim fails with "pool exhausted".
ClaimExhausted(c) ==
    /\ At(c, "walk")
    /\ Past(claim[c].v)
    /\ claim' = [claim EXCEPT ![c] = Idle]
    /\ missed' = [missed EXCEPT ![c] = {}]
    /\ UNCHANGED <<grants, bound, answered, releases>>

SlipNoValueIndex(o, v) == HasGrant(o)
SlipNoOwnerIndex(o, v) == v \in Granted

\* UNIQUE (pool_id, value) and UNIQUE (pool_id, owner_ref)
Conflict(o, v) == HasGrant(o) \/ v \in Granted

\* InsertPort.
ClaimInsert(c) ==
    /\ At(c, "insert")
    /\ LET o == claim[c].owner
           v == claim[c].v
       IN  \/ /\ ~ Conflict(o, v)
              /\ grants' = Put(grants, MaxPlusOne(DOMAIN grants),
                               [owner |-> o, value |-> v, state |-> "active"])
              /\ AnswerWith(c, o, v)
              /\ missed' = [d \in Claimers |-> IF d = c THEN {} ELSE missed[d] \ {v}]
           \/ /\ Conflict(o, v)
              /\ Goto(c, "recheck")
              /\ UNCHANGED <<grants, answered, missed>>
    /\ UNCHANGED <<bound, releases>>

SlipRetriesSameValue(c) ==
    /\ At(c, "recheck")
    /\ LET o == claim[c].owner
       IN  \/ /\ HasGrant(o)
              /\ AnswerWith(c, o, grants[GrantOf(o)].value)
              /\ missed' = [missed EXCEPT ![c] = {}]
           \/ /\ ~ HasGrant(o)
              /\ Goto(c, "insert")
              /\ UNCHANGED <<answered, missed>>
    /\ UNCHANGED <<grants, bound, releases>>

\* After a lost race: the owner's other claim may have won one, else walk on.
ClaimRecheck(c) ==
    /\ At(c, "recheck")
    /\ LET o == claim[c].owner
       IN  \/ /\ HasGrant(o)
              /\ AnswerWith(c, o, grants[GrantOf(o)].value)
              /\ missed' = [missed EXCEPT ![c] = {}]
           \/ /\ ~ HasGrant(o)
              /\ claim' = [claim EXCEPT ![c].step = "walk", ![c].v = @ + 1]
              /\ UNCHANGED <<answered, missed>>
    /\ UNCHANGED <<grants, bound, releases>>

\* The re-check itself fails: its error is taken for "no grant", and the walk goes
\* on past a value that may be free.
ClaimRecheckFails(c) ==
    /\ At(c, "recheck")
    /\ claim' = [claim EXCEPT ![c].step = "walk", ![c].v = @ + 1]
    /\ missed' = [missed EXCEPT ![c] = @ \ {claim[c].v}]
    /\ UNCHANGED <<grants, bound, answered, releases>>

\* UsedPorts or InsertPort fails (the request is cancelled, the database has a
\* problem) and the claim returns the error.
ClaimFails(c) ==
    /\ At(c, "used") \/ At(c, "insert")
    /\ claim' = [claim EXCEPT ![c] = Idle]
    /\ missed' = [missed EXCEPT ![c] = {}]
    /\ UNCHANGED <<grants, bound, answered, releases>>

-----------------------------------------------------------------------------
\* Release: DELETE WHERE owner_ref.  A claim this owner has in flight may now
\* rightly come back empty-handed.
Release(o) ==
    /\ HasGrant(o)
    /\ releases < MaxReleases
    /\ releases' = releases + 1
    /\ grants' = Drop(grants, {i \in DOMAIN grants : grants[i].owner = o})
    /\ answered' = [answered EXCEPT ![o] = {}]
    /\ missed' = [c \in Claimers |-> IF claim[c].owner = o THEN {} ELSE missed[c]]
    /\ claim' = [c \in Claimers |-> IF claim[c].owner = o /\ claim[c].step \in StickySteps
                                     THEN [claim[c] EXCEPT !.since = FALSE] ELSE claim[c]]
    /\ UNCHANGED bound

\* A process on the host, managed or not, starts or stops listening.
Listen(v) ==
    /\ v \in Squatters /\ CanListen(v)
    /\ bound' = bound \cup {v}
    /\ missed' = [c \in Claimers |-> missed[c] \ {v}]
    /\ UNCHANGED <<grants, claim, answered, releases>>

Unlisten(v) ==
    /\ v \in bound
    /\ bound' = bound \ {v}
    /\ UNCHANGED <<grants, claim, answered, missed, releases>>

Step(c) ==
    \/ StickyTest(c) \/ StickyClose(c) \/ ClaimMark(c)
    \/ ClaimUsed(c) \/ ClaimWalk(c) \/ ClaimClose(c) \/ ClaimExhausted(c)
    \/ ClaimInsert(c) \/ ClaimRecheck(c)

Next ==
    \/ \E c \in Claimers : Step(c) \/ ClaimRecheckFails(c) \/ ClaimFails(c)
    \/ \E c \in Claimers, o \in Owners : ClaimSticky(c, o) \/ ClaimNew(c, o)
    \/ \E o \in Owners : Release(o)
    \/ \E v \in Squatters : Listen(v) \/ Unlisten(v)

Spec == Init /\ [][Next]_vars

\* A claim that was started runs on; nobody is obliged to claim or release.
FairSpec == Spec /\ \A c \in Claimers : WF_vars(Step(c))

-----------------------------------------------------------------------------
(* Properties. *)

\* No value of the pool is granted twice, however many claims race for it.
UniqueValue ==
    \A i, j \in DOMAIN grants : grants[i].value = grants[j].value => i = j

\* An owner has one grant, and every value a claim hands that owner, begun since
\* its last release, is the value on record: concurrent claims for one owner,
\* claims that lose a race and re-check, and claims that test and mark the grant
\* they found all come back with the same port.
Sticky ==
    /\ \A i, j \in DOMAIN grants : grants[i].owner = grants[j].owner => i = j
    /\ \A o \in Owners : \A v \in answered[o] :
           \E i \in DOMAIN grants : grants[i].owner = o /\ grants[i].value = v

\* Only values of the range that are not on the avoid list are granted, also when
\* the walk went on after losing races.
InPool == \A i \in DOMAIN grants : grants[i].value \in Values \ Avoid

\* "Pool exhausted" is never said for nothing.  A value of the pool that was free
\* at every moment of the claim is passed over in two cases only: when the claim
\* tested it, another claim's bind test had its listener open on it (which the code
\* takes for a squatter), or the re-check after a lost race failed.  The stale
\* snapshot of used values and the lost races themselves skip no value that was
\* free all along.
NoFalseExhaustion ==
    \A c \in Claimers : At(c, "walk") /\ Past(claim[c].v) => missed[c] = {}

\* Every claim comes back with an answer, whatever the others do meanwhile.
ClaimsEnd == \A c \in Claimers : claim[c] # Idle ~> claim[c] = Idle
=============================================================================
