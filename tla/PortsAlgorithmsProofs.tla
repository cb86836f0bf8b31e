------------------------ MODULE PortsAlgorithmsProofs ------------------------
(***************************************************************************)
(* Safety of Ports for any number of claimers, owners and values, and the  *)
(* answers of Algorithms for every input.                                  *)
(***************************************************************************)
EXTENDS Ports, Algorithms, TablesProofs, SequenceTheorems, FiniteSetTheorems

\* The row ids in use are bounded, so that the next one exists.
IdsBounded == \E n \in Nat : DOMAIN grants \subseteq 1..n

OnRecord(o, v) == \E i \in DOMAIN grants : grants[i].owner = o /\ grants[i].value = v

\* What a claim carries: its owner, a value that came out of the walk over the
\* range, or the value of the grant it found, on record until that is released.
Carries(k) ==
    /\ k.step # "idle" => k.owner \in Owners
    /\ k.step \in {"walk", "testing", "insert", "recheck"} => k.v >= RangeStart
    /\ k.step \in {"testing", "insert"} => k.v \in Values \ Avoid
    /\ k.step \in StickySteps /\ k.since => OnRecord(k.owner, k.v)

WalkSound == \A c \in Claimers : Carries(claim[c])

IInv == /\ TypeOK
        /\ IdsBounded
        /\ WalkSound
        /\ UniqueValue
        /\ Sticky
        /\ InPool

-----------------------------------------------------------------------------
\* GetPortByOwner returns a grant of that owner.
LEMMA GrantOfOwner ==
    ASSUME NEW o, HasGrant(o)
    PROVE  GrantOf(o) \in DOMAIN grants /\ grants[GrantOf(o)].owner = o
BY DEF HasGrant, GrantOf

\* A goroutine at rest is a well-formed claim state.
LEMMA IdleIsClaim == Idle \in Claim /\ Idle.step = "idle" /\ Carries(Idle)
BY DEF Idle, Claim, Carries, StickySteps

\* A step of one claim that leaves the grants alone.
LEMMA ClaimStepKeepsIInv ==
    ASSUME IInv, NEW c \in Claimers, NEW k \in Claim,
           claim' = [claim EXCEPT ![c] = k], Carries(k),
           missed' \in [Claimers -> SUBSET Nat],
           UNCHANGED <<grants, answered, bound, releases>>
    PROVE  IInv'
<1>1. TypeOK'
  BY DEF IInv, TypeOK
<1>2. WalkSound'
  BY DEF IInv, TypeOK, WalkSound, Carries, OnRecord
<1>3. IdsBounded' /\ UniqueValue' /\ Sticky' /\ InPool'
  BY DEF IInv, IdsBounded, UniqueValue, Sticky, InPool
<1> QED
  BY <1>1, <1>2, <1>3 DEF IInv

\* A claim that answers with a value its owner has on record, or whose owner has
\* released the grant since; the grants keep their owners and values.
LEMMA AnswerKeepsIInv ==
    ASSUME IInv, NEW c \in Claimers, NEW o \in Owners, NEW v \in Nat,
           AnswerWith(c, o, v), claim[c].since => OnRecord(o, v),
           DOMAIN grants' = DOMAIN grants,
           \A i \in DOMAIN grants : /\ grants'[i].owner = grants[i].owner
                                    /\ grants'[i].value = grants[i].value,
           grants' \in [DOMAIN grants' -> Grant],
           missed' \in [Claimers -> SUBSET Nat],
           UNCHANGED <<bound, releases>>
    PROVE  IInv'
<1>1. /\ claim' = [claim EXCEPT ![c] = Idle]
      /\ answered' = [answered EXCEPT ![o] = IF claim[c].since THEN @ \cup {v} ELSE @]
  BY DEF AnswerWith
<1>2. TypeOK'
  BY <1>1, IdleIsClaim DEF IInv, TypeOK
<1>3. WalkSound'
  BY <1>1, IdleIsClaim DEF IInv, TypeOK, WalkSound, Carries, OnRecord
<1>4. Sticky'
  <2>1. \A i, j \in DOMAIN grants' : grants'[i].owner = grants'[j].owner => i = j
    BY DEF IInv, Sticky
  <2>2. ASSUME NEW p \in Owners, NEW w \in answered'[p]
        PROVE  \E i \in DOMAIN grants' : grants'[i].owner = p /\ grants'[i].value = w
    <3>1. w \in answered[p] \/ (p = o /\ w = v /\ claim[c].since)
      BY <1>1, <2>2 DEF IInv, TypeOK
    <3>2. OnRecord(p, w)
      BY <3>1 DEF IInv, Sticky, OnRecord
    <3> QED
      BY <3>2 DEF OnRecord
  <2> QED
    BY <2>1, <2>2 DEF Sticky
<1>5. IdsBounded' /\ UniqueValue' /\ InPool'
  BY DEF IInv, IdsBounded, UniqueValue, InPool
<1> QED
  BY <1>2, <1>3, <1>4, <1>5 DEF IInv

\* The INSERT of a grant: the unique indexes on value and on owner are consulted
\* in the same statement, and the id is fresh.
LEMMA InsertKeepsIInv ==
    ASSUME IInv, NEW c \in Claimers, At(c, "insert"),
           ~ Conflict(claim[c].owner, claim[c].v),
           grants' = Put(grants, MaxPlusOne(DOMAIN grants),
                         [owner |-> claim[c].owner, value |-> claim[c].v, state |-> "active"]),
           AnswerWith(c, claim[c].owner, claim[c].v),
           missed' \in [Claimers -> SUBSET Nat],
           UNCHANGED <<bound, releases>>
    PROVE  IInv'
<1> DEFINE o == claim[c].owner
           v == claim[c].v
           id == MaxPlusOne(DOMAIN grants)
           g == [owner |-> o, value |-> v, state |-> "active"]
<1>1. o \in Owners /\ v \in Values \ Avoid /\ v \in Nat
  BY PoolAssumption DEF IInv, WalkSound, Carries, At, Values
<1>2. PICK n \in Nat : DOMAIN grants \subseteq 1..n
  BY DEF IInv, IdsBounded
<1>3. id \in 1..(n + 1) /\ id \notin DOMAIN grants
  BY <1>2, MaxPlusOneFresh
<1>4. g \in Grant /\ g.owner = o /\ g.value = v
  BY <1>1 DEF Grant
<1>5. \A i \in DOMAIN grants : grants[i].owner # o /\ grants[i].value # v
  BY DEF Conflict, HasGrant, Granted
<1>6. grants' = Put(grants, id, g)
  OBVIOUS
<1>7. /\ claim' = [claim EXCEPT ![c] = Idle]
      /\ answered' = [answered EXCEPT ![o] = IF claim[c].since THEN @ \cup {v} ELSE @]
  BY DEF AnswerWith
<1> HIDE DEF o, v, id, g
<1>8. /\ DOMAIN grants' = DOMAIN grants \cup {id}
      /\ grants'[id] = g
      /\ \A i \in DOMAIN grants : grants'[i] = grants[i]
      /\ grants' \in [DOMAIN grants' -> Grant]
  BY <1>3, <1>4, <1>6 DEF Put, IInv, TypeOK
<1>9. IdsBounded'
  <2>1. DOMAIN grants' \subseteq 1..(n + 1)
    BY <1>2, <1>3, <1>8
  <2> QED
    BY <2>1 DEF IdsBounded
<1>10. TypeOK'
  BY <1>1, <1>3, <1>7, <1>8, IdleIsClaim DEF IInv, TypeOK
<1>11. WalkSound'
  BY <1>7, <1>8, IdleIsClaim DEF IInv, TypeOK, WalkSound, Carries, OnRecord
<1>12. UniqueValue' /\ InPool'
  BY <1>1, <1>4, <1>5, <1>8 DEF IInv, UniqueValue, InPool
<1>13. Sticky'
  <2>1. \A i, j \in DOMAIN grants' : grants'[i].owner = grants'[j].owner => i = j
    BY <1>4, <1>5, <1>8 DEF IInv, Sticky
  <2>2. ASSUME NEW p \in Owners, NEW w \in answered'[p]
        PROVE  \E i \in DOMAIN grants' : grants'[i].owner = p /\ grants'[i].value = w
    <3>1. w \in answered[p] \/ (p = o /\ w = v)
      BY <1>7, <2>2 DEF IInv, TypeOK
    <3> QED
      BY <3>1, <1>4, <1>8 DEF IInv, Sticky
  <2> QED
    BY <2>1, <2>2 DEF Sticky
<1> QED
  BY <1>9, <1>10, <1>11, <1>12, <1>13 DEF IInv

\* Release: what is deleted is the owner's, and the owner starts afresh.
LEMMA ReleaseKeepsIInv ==
    ASSUME IInv, NEW o \in Owners, Release(o)
    PROVE  IInv'
<1> DEFINE K == {i \in DOMAIN grants : grants[i].owner = o}
<1>1. /\ grants' = Drop(grants, K) /\ answered' = [answered EXCEPT ![o] = {}]
      /\ releases' = releases + 1 /\ UNCHANGED bound
      /\ missed' = [c \in Claimers |-> IF claim[c].owner = o THEN {} ELSE missed[c]]
      /\ claim' = [c \in Claimers |-> IF claim[c].owner = o /\ claim[c].step \in StickySteps
                                      THEN [claim[c] EXCEPT !.since = FALSE] ELSE claim[c]]
  BY DEF Release
<1>2. /\ DOMAIN grants' = DOMAIN grants \ K
      /\ \A i \in DOMAIN grants' : grants'[i] = grants[i]
      /\ grants' \in [DOMAIN grants' -> Grant]
  BY <1>1 DEF Drop, IInv, TypeOK
<1> HIDE DEF K
<1>6. ASSUME NEW c \in Claimers
      PROVE  /\ claim'[c] \in Claim
             /\ claim'[c].step = claim[c].step /\ claim'[c].owner = claim[c].owner
             /\ claim'[c].v = claim[c].v
             /\ claim'[c].step \in StickySteps /\ claim'[c].since
                   => claim[c].since /\ claim[c].owner # o
  <2>1. claim[c] \in Claim
    BY DEF IInv, TypeOK
  <2> QED
    BY <1>1, <2>1 DEF Claim
<1>3. TypeOK'
  <2>1. DOMAIN grants' \subseteq Nat \ {0} /\ bound' \subseteq Nat /\ releases' \in Nat
    BY <1>1, <1>2 DEF IInv, TypeOK
  <2>2. answered' \in [Owners -> SUBSET Nat] /\ missed' \in [Claimers -> SUBSET Nat]
    BY <1>1 DEF IInv, TypeOK
  <2>3. claim' \in [Claimers -> Claim]
    BY <1>1, <1>6
  <2> QED
    BY <1>2, <2>1, <2>2, <2>3 DEF TypeOK
<1>4. IdsBounded' /\ WalkSound' /\ UniqueValue' /\ InPool'
  <2>1. IdsBounded'
    BY <1>2 DEF IInv, IdsBounded
  <2>2. ASSUME NEW c \in Claimers PROVE Carries(claim[c])'
    <3>1. Carries(claim[c])
      BY DEF IInv, WalkSound
    <3>2. claim'[c].step \in StickySteps /\ claim'[c].since => OnRecord(claim[c].owner, claim[c].v)'
      BY <1>2, <1>6, <3>1 DEF Carries, OnRecord, K
    <3> QED
      BY <1>6, <3>1, <3>2 DEF Carries
  <2>3. UniqueValue' /\ InPool'
    BY <1>2 DEF IInv, UniqueValue, InPool
  <2> QED
    BY <2>1, <2>2, <2>3 DEF WalkSound
<1>5. Sticky'
  <2>1. \A i, j \in DOMAIN grants' : grants'[i].owner = grants'[j].owner => i = j
    BY <1>2 DEF IInv, Sticky
  <2>2. ASSUME NEW p \in Owners, NEW w \in answered'[p]
        PROVE  \E i \in DOMAIN grants' : grants'[i].owner = p /\ grants'[i].value = w
    <3>1. p # o /\ w \in answered[p]
      BY <1>1, <2>2 DEF IInv, TypeOK
    <3>2. PICK i \in DOMAIN grants : grants[i].owner = p /\ grants[i].value = w
      BY <3>1 DEF IInv, Sticky
    <3> QED
      BY <1>2, <3>1, <3>2 DEF K
  <2> QED
    BY <2>1, <2>2 DEF Sticky
<1> QED
  BY <1>3, <1>4, <1>5 DEF IInv

\* MarkPortState changes neither owner nor value of the row it hits.
LEMMA MarkKeepsGrants ==
    ASSUME IInv, NEW c \in Claimers, ClaimMark(c)
    PROVE  /\ DOMAIN grants' = DOMAIN grants
           /\ \A i \in DOMAIN grants : /\ grants'[i].owner = grants[i].owner
                                        /\ grants'[i].value = grants[i].value
           /\ grants' \in [DOMAIN grants' -> Grant]
<1>1. grants \in [DOMAIN grants -> Grant]
  BY DEF IInv, TypeOK
<1>2. CASE UNCHANGED grants
  BY <1>1, <1>2
<1>3. CASE grants' = [i \in DOMAIN grants |->
                         IF i = claim[c].id
                         THEN [grants[i] EXCEPT !.state = "occupied-foreign"]
                         ELSE grants[i]]
  <2>1. \A i \in DOMAIN grants : /\ grants'[i].owner = grants[i].owner
                                 /\ grants'[i].value = grants[i].value
                                 /\ grants'[i] \in Grant
    BY <1>1, <1>3 DEF Grant
  <2> QED
    BY <1>3, <2>1
<1> QED
  BY <1>2, <1>3 DEF ClaimMark

\* A claim of the sticky path answers with the grant it found.
LEMMA StickyAnswerKeepsIInv ==
    ASSUME IInv, NEW c \in Claimers, ClaimMark(c) \/ StickyClose(c)
    PROVE  IInv'
<1>1. /\ claim[c] \in Claim /\ claim[c].step \in StickySteps
      /\ AnswerWith(c, claim[c].owner, claim[c].v)
      /\ UNCHANGED <<bound, missed, releases>>
  BY DEF ClaimMark, StickyClose, At, StickySteps, IInv, TypeOK
<1>2. claim[c].owner \in Owners /\ claim[c].v \in Nat
      /\ (claim[c].since => OnRecord(claim[c].owner, claim[c].v))
  BY <1>1 DEF IInv, WalkSound, Carries, StickySteps, Claim
<1>3. /\ DOMAIN grants' = DOMAIN grants
      /\ \A i \in DOMAIN grants : /\ grants'[i].owner = grants[i].owner
                                   /\ grants'[i].value = grants[i].value
      /\ grants' \in [DOMAIN grants' -> Grant]
  BY MarkKeepsGrants DEF StickyClose, IInv, TypeOK
<1>4. missed' \in [Claimers -> SUBSET Nat]
  BY <1>1 DEF IInv, TypeOK
<1> QED
  BY <1>1, <1>2, <1>3, <1>4, AnswerKeepsIInv

-----------------------------------------------------------------------------
\* The invariant holds of the empty pool.
LEMMA InitIInv == Init => IInv
<1> SUFFICES ASSUME Init PROVE IInv
  OBVIOUS
<1>1. DOMAIN grants = {} /\ DOMAIN grants \subseteq 1..0
  BY DEF Init
<1>2. TypeOK
  BY <1>1, IdleIsClaim, PoolAssumption DEF Init, TypeOK
<1>3. IdsBounded
  BY <1>1 DEF IdsBounded
<1>4. WalkSound /\ UniqueValue /\ Sticky /\ InPool
  BY <1>1, IdleIsClaim DEF Init, WalkSound, UniqueValue, Sticky, InPool
<1> QED
  BY <1>2, <1>3, <1>4 DEF IInv

\* The values a claim might be given are numbers.
LEMMA FreeValuesType == FreeValues \in SUBSET Nat
BY PoolAssumption DEF FreeValues, Values

\* Every step of claims, releases and host processes keeps the invariant.
LEMMA NextKeepsIInv == IInv /\ [Next]_vars => IInv'
<1> SUFFICES ASSUME IInv, [Next]_vars PROVE IInv'
  OBVIOUS
<1> USE IdleIsClaim
<1>1. ASSUME NEW c \in Claimers, Step(c) \/ ClaimRecheckFails(c) \/ ClaimFails(c) PROVE IInv'
  <2>1. claim[c] \in Claim /\ missed \in [Claimers -> SUBSET Nat] /\ Carries(claim[c])
    BY DEF IInv, TypeOK, WalkSound
  <2>2. CASE ClaimMark(c) \/ StickyClose(c)
    BY <2>2, StickyAnswerKeepsIInv
  <2>8. CASE StickyTest(c) \/ ClaimClose(c)
    <3>1. PICK p \in {"probing", "mark", "insert"} :
              /\ claim' = [claim EXCEPT ![c].step = p]
              /\ \/ p \in {"probing", "mark"} /\ claim[c].step = "check"
                 \/ p = "insert" /\ claim[c].step = "testing"
              /\ UNCHANGED <<grants, answered, bound, releases, missed>>
      BY <2>8 DEF StickyTest, ClaimClose, Goto, At
    <3> DEFINE k == [claim[c] EXCEPT !.step = p]
    <3>2. k \in Claim /\ k.step = p /\ k.owner = claim[c].owner /\ k.v = claim[c].v
          /\ k.since = claim[c].since
      BY <2>1, <3>1 DEF Claim, StickySteps
    <3>3. claim' = [claim EXCEPT ![c] = k]
      BY <3>1
    <3> HIDE DEF k
    <3>4. Carries(k)
      BY <2>1, <3>1, <3>2 DEF Carries, StickySteps
    <3> QED
      BY <2>1, <3>1, <3>2, <3>3, <3>4, ClaimStepKeepsIInv
  <2>3. CASE ClaimUsed(c)
    <3> DEFINE k == [claim[c] EXCEPT !.step = "walk", !.used = Granted, !.v = RangeStart]
    <3>1. claim' = [claim EXCEPT ![c] = k] /\ claim[c].owner \in Owners
      BY <2>1, <2>3 DEF ClaimUsed, At, Carries
    <3>2. Granted \in SUBSET Nat
      BY DEF Granted, IInv, TypeOK, Grant
    <3>3. k \in Claim /\ k.step = "walk" /\ k.owner \in Owners /\ k.v = RangeStart
      BY <2>1, <3>1, <3>2, PoolAssumption DEF Claim
    <3>5. UNCHANGED <<grants, answered, bound, releases, missed>>
      BY <2>3 DEF ClaimUsed
    <3> HIDE DEF k
    <3>4. Carries(k)
      BY <3>3, PoolAssumption DEF Carries, StickySteps
    <3> QED
      BY <2>1, <3>1, <3>3, <3>4, <3>5, ClaimStepKeepsIInv
  <2>4. CASE ClaimWalk(c) \/ ClaimRecheckFails(c) \/ (ClaimRecheck(c) /\ ~ HasGrant(claim[c].owner))
    <3> DEFINE up == [claim[c] EXCEPT !.step = "walk", !.v = @ + 1]
               go == [claim[c] EXCEPT !.step = "testing"]
    <3>1. /\ claim[c].owner \in Owners /\ claim[c].v >= RangeStart /\ claim[c].v \in Nat
          /\ claim[c].step \in {"walk", "recheck"}
      BY <2>1, <2>4 DEF ClaimWalk, ClaimRecheck, ClaimRecheckFails, At, Carries, Claim
    <3>2. UNCHANGED <<grants, answered, bound, releases>> /\ missed' \in [Claimers -> SUBSET Nat]
      BY <2>1, <2>4 DEF ClaimWalk, ClaimRecheck, ClaimRecheckFails
    <3>3. CASE claim' = [claim EXCEPT ![c] = up]
      <4>1. claim[c].v + 1 \in Nat /\ claim[c].v + 1 >= RangeStart
        BY <3>1, PoolAssumption
      <4>2. /\ up \in Claim /\ up.step = "walk" /\ up.owner = claim[c].owner
            /\ up.v = claim[c].v + 1
        BY <2>1, <4>1 DEF Claim
      <4> HIDE DEF up
      <4>3. Carries(up)
        BY <3>1, <4>1, <4>2 DEF Carries, StickySteps
      <4> QED
        BY <3>2, <3>3, <4>2, <4>3, ClaimStepKeepsIInv
    <3>4. CASE claim' = [claim EXCEPT ![c] = go] /\ ~ Past(claim[c].v) /\ ~ Skipped(c, claim[c].v)
      <4>1. go \in Claim /\ go.step = "testing" /\ go.owner \in Owners /\ go.v = claim[c].v
        BY <2>1, <3>1 DEF Claim
      <4>2. claim[c].v \in Values \ Avoid
        BY <3>1, <3>4, PoolAssumption DEF Past, Skipped, Values
      <4> HIDE DEF go
      <4>3. Carries(go)
        BY <3>1, <4>1, <4>2 DEF Carries, StickySteps
      <4> QED
        BY <2>1, <3>1, <3>2, <3>4, <4>1, <4>3, ClaimStepKeepsIInv
    <3>5. CASE ClaimWalk(c)
      <4>1. claim[c].step = "walk"
        BY <3>5 DEF ClaimWalk, At
      <4>2. CASE claim' = [claim EXCEPT ![c].v = @ + 1]
        <5>1. up = [claim[c] EXCEPT !.v = @ + 1]
          BY <2>1, <4>1 DEF Claim
        <5> QED
          BY <3>3, <4>2, <5>1
      <4> QED
        BY <3>4, <3>5, <4>2 DEF ClaimWalk, Goto
    <3> QED
      BY <2>4, <3>3, <3>5 DEF ClaimRecheck, ClaimRecheckFails
  <2>5. CASE ClaimExhausted(c) \/ ClaimFails(c)
    <3>1. /\ claim' = [claim EXCEPT ![c] = Idle] /\ missed' \in [Claimers -> SUBSET Nat]
          /\ UNCHANGED <<grants, answered, bound, releases>>
      BY <2>1, <2>5 DEF ClaimExhausted, ClaimFails
    <3> QED
      BY <3>1, ClaimStepKeepsIInv
  <2>6. CASE ClaimInsert(c)
    <3>1. At(c, "insert") /\ UNCHANGED <<bound, releases>>
      BY <2>6 DEF ClaimInsert
    <3>3. CASE Conflict(claim[c].owner, claim[c].v)
      <4> DEFINE k == [claim[c] EXCEPT !.step = "recheck"]
      <4>1. /\ claim' = [claim EXCEPT ![c] = k]
            /\ UNCHANGED <<grants, answered, missed, bound, releases>>
        BY <2>6, <3>3 DEF ClaimInsert, Goto
      <4>2. k \in Claim /\ k.step = "recheck" /\ k.owner = claim[c].owner /\ k.v = claim[c].v
        BY <2>1 DEF Claim
      <4>3. claim[c].owner \in Owners /\ claim[c].v >= RangeStart
        BY <2>1, <3>1 DEF At, Carries
      <4> HIDE DEF k
      <4>4. Carries(k)
        BY <4>2, <4>3 DEF Carries, StickySteps
      <4> QED
        BY <2>1, <4>1, <4>2, <4>4, ClaimStepKeepsIInv
    <3>4. CASE ~ Conflict(claim[c].owner, claim[c].v)
      <4>1. missed' \in [Claimers -> SUBSET Nat]
        BY <2>1, <2>6, <3>4 DEF ClaimInsert
      <4> QED
        BY <2>6, <3>1, <3>4, <4>1, InsertKeepsIInv DEF ClaimInsert
    <3> QED
      BY <3>3, <3>4
  <2>7. CASE ClaimRecheck(c) /\ HasGrant(claim[c].owner)
    <3> DEFINE o == claim[c].owner
               v == grants[GrantOf(o)].value
    <3>1. o \in Owners /\ UNCHANGED <<grants, bound, releases>>
      BY <2>1, <2>7 DEF ClaimRecheck, At, Carries
    <3>2. GrantOf(o) \in DOMAIN grants /\ grants[GrantOf(o)].owner = o
      BY <2>7, GrantOfOwner
    <3>3. v \in Nat /\ OnRecord(o, v) /\ grants \in [DOMAIN grants -> Grant]
      BY <3>2 DEF OnRecord, IInv, TypeOK, Grant
    <3>4. AnswerWith(c, o, v) /\ missed' \in [Claimers -> SUBSET Nat]
      BY <2>1, <2>7 DEF ClaimRecheck
    <3> HIDE DEF o, v
    <3> QED
      BY <3>1, <3>3, <3>4, AnswerKeepsIInv
  <2> QED
    BY <1>1, <2>2, <2>3, <2>4, <2>5, <2>6, <2>7, <2>8 DEF Step
<1>2. ASSUME NEW c \in Claimers, NEW o \in Owners, ClaimSticky(c, o) PROVE IInv'
  <2> DEFINE v == grants[GrantOf(o)].value
             k == [Idle EXCEPT !.step = "check", !.owner = o, !.id = GrantOf(o), !.v = v]
  <2>1. /\ HasGrant(o) /\ UNCHANGED <<grants, bound, answered, missed, releases>>
        /\ claim' = [claim EXCEPT ![c] = k]
    BY <1>2 DEF ClaimSticky
  <2>2. missed' \in [Claimers -> SUBSET Nat]
    BY <2>1 DEF IInv, TypeOK
  <2>3. GrantOf(o) \in DOMAIN grants /\ grants[GrantOf(o)].owner = o
    BY <2>1, GrantOfOwner
  <2>4. GrantOf(o) \in Nat /\ v \in Nat /\ OnRecord(o, v)
    BY <2>3 DEF IInv, TypeOK, Grant, OnRecord
  <2> HIDE DEF v
  <2>5. k \in Claim /\ k.step = "check" /\ k.owner = o /\ k.v = v
    BY <2>4 DEF Idle, Claim, StickySteps
  <2> HIDE DEF k
  <2>6. Carries(k)
    BY <2>4, <2>5 DEF Carries
  <2> QED
    BY <2>1, <2>2, <2>5, <2>6, ClaimStepKeepsIInv
<1>3. ASSUME NEW c \in Claimers, NEW o \in Owners, ClaimNew(c, o) PROVE IInv'
  <2> DEFINE k == [Idle EXCEPT !.step = "used", !.owner = o]
  <2>1. /\ claim' = [claim EXCEPT ![c] = k] /\ missed' = [missed EXCEPT ![c] = FreeValues]
        /\ UNCHANGED <<grants, bound, answered, releases>>
    BY <1>3 DEF ClaimNew
  <2>2. missed' \in [Claimers -> SUBSET Nat]
    BY <2>1, FreeValuesType DEF IInv, TypeOK
  <2>3. k \in Claim /\ k.step = "used" /\ k.owner = o
    BY DEF Idle, Claim
  <2> HIDE DEF k
  <2>4. Carries(k)
    BY <2>3 DEF Carries, StickySteps
  <2> QED
    BY <2>1, <2>2, <2>3, <2>4, ClaimStepKeepsIInv
<1>4. ASSUME NEW o \in Owners, Release(o) PROVE IInv'
  BY <1>4, ReleaseKeepsIInv
<1>5. ASSUME NEW v \in Squatters, Listen(v) \/ Unlisten(v) PROVE IInv'
  <2>1. UNCHANGED <<grants, claim, answered, releases>>
    BY <1>5 DEF Listen, Unlisten
  <2>2. bound' \subseteq Nat /\ missed' \in [Claimers -> SUBSET Nat]
    BY <1>5, PoolAssumption DEF Listen, Unlisten, IInv, TypeOK
  <2>3. TypeOK'
    BY <2>1, <2>2 DEF IInv, TypeOK
  <2> QED
    BY <2>1, <2>3 DEF IInv, IdsBounded, WalkSound, Carries, OnRecord, UniqueValue, Sticky, InPool
<1>6. CASE UNCHANGED vars
  <2>1. TypeOK'
    BY <1>6 DEF vars, IInv, TypeOK
  <2> QED
    BY <1>6, <2>1 DEF vars, IInv, IdsBounded, WalkSound, Carries, OnRecord, UniqueValue, Sticky,
                      InPool
<1> QED
  BY <1>1, <1>2, <1>3, <1>4, <1>5, <1>6 DEF Next

\* The inductive invariant holds in every reachable state of the port pool.
THEOREM Invariance == Spec => []IInv
BY InitIInv, NextKeepsIInv, PTL DEF Spec

\* Grants and claims in progress stay well typed.
THEOREM TypeCorrect == Spec => []TypeOK
<1>1. IInv => TypeOK
  BY DEF IInv
<1> QED
  BY Invariance, <1>1, PTL

\* No port is granted twice, however many claims race for it.
THEOREM ValuesAreUnique == Spec => []UniqueValue
<1>1. IInv => UniqueValue
  BY DEF IInv
<1> QED
  BY Invariance, <1>1, PTL

\* Every claim for an owner comes back with the one port on record for it.
THEOREM GrantsAreSticky == Spec => []Sticky
<1>1. IInv => Sticky
  BY DEF IInv
<1> QED
  BY Invariance, <1>1, PTL

\* Only values of the range that are not avoided are ever granted.
THEOREM GrantsAreInPool == Spec => []InPool
<1>1. IInv => InPool
  BY DEF IInv
<1> QED
  BY Invariance, <1>1, PTL

-----------------------------------------------------------------------------
(* The walk passes over no value that was free all along.                      *)

\* What was free since a claim began is neither granted nor bound now; it lies
\* ahead of the walk, unless another claim's test or a failed re-check hid it, and
\* outside the walk's snapshot.  After a lost race the owner has a grant, or the
\* value at hand was lost to another owner.
MissedSound(c) ==
    /\ missed[c] \subseteq (Values \ Avoid) \ (Granted \cup bound)
    /\ claim[c].step \in StickySteps \cup {"idle"} => missed[c] = {}
    /\ claim[c].step \in {"walk", "testing", "insert", "recheck"} =>
           \A w \in missed[c] : w >= claim[c].v /\ w \notin claim[c].used
    /\ claim[c].step = "recheck" => HasGrant(claim[c].owner) \/ claim[c].v \notin missed[c]

MInv == IInv /\ \A c \in Claimers : MissedSound(c)

\* A claim that does not move stays sound while what was free for it only
\* shrinks, by what others grant and bind at the least.
LEMMA MissedStays ==
    ASSUME NEW c \in Claimers, MissedSound(c),
           claim'[c].step = claim[c].step, claim'[c].owner = claim[c].owner,
           claim'[c].v = claim[c].v, claim'[c].used = claim[c].used,
           missed'[c] \subseteq missed[c],
           \A w \in missed'[c] : w \notin Granted' /\ w \notin bound',
           HasGrant(claim[c].owner) => HasGrant(claim[c].owner)' \/ missed'[c] = {}
    PROVE  MissedSound(c)'
BY DEF MissedSound, HasGrant

\* In particular where the grants and the bound ports stay as they are.
LEMMA MissedUndisturbed ==
    ASSUME MInv, NEW c \in Claimers, claim'[c] = claim[c], missed'[c] = missed[c],
           UNCHANGED <<grants, bound>>
    PROVE  MissedSound(c)'
BY DEF MInv, MissedSound, HasGrant, Granted

\* A claim that came to its end has missed nothing.
LEMMA MissedAtEnd ==
    ASSUME NEW c \in Claimers, claim'[c].step \in StickySteps \cup {"idle"}, missed'[c] = {}
    PROVE  MissedSound(c)'
BY DEF MissedSound, StickySteps

\* What the state says of the claim that moves.
LEMMA MissedFacts ==
    ASSUME MInv, NEW c \in Claimers
    PROVE  /\ claim[c] \in Claim /\ MissedSound(c)
           /\ \A w \in missed[c] : w \in Nat /\ w >= RangeStart /\ w <= RangeEnd
           /\ Granted \in SUBSET Nat
BY PoolAssumption DEF MInv, IInv, TypeOK, MissedSound, Values, Granted, Grant

\* The snapshot is taken: nothing free is in it, and everything is ahead.
LEMMA UsedKeepsMissed ==
    ASSUME MInv, NEW c \in Claimers, ClaimUsed(c)
    PROVE  MissedSound(c)'
<1> DEFINE k == [claim[c] EXCEPT !.step = "walk", !.used = Granted, !.v = RangeStart]
<1>1. claim'[c] = k /\ UNCHANGED <<grants, bound, missed>>
  BY DEF ClaimUsed, MInv, IInv, TypeOK
<1>2. k.step = "walk" /\ k.used = Granted /\ k.v = RangeStart
  BY MissedFacts DEF Claim
<1> HIDE DEF k
<1>3. Granted' = Granted
  BY <1>1 DEF Granted
<1>4. \A w \in missed[c] : w \notin Granted /\ w \notin bound
  BY MissedFacts DEF MissedSound
<1> QED
  BY <1>1, <1>2, <1>3, <1>4, MissedFacts DEF MissedSound, StickySteps

\* A claim goes on past a value it does not miss any more.
LEMMA PassingKeepsMissed ==
    ASSUME MInv, NEW c \in Claimers, claim[c].step \in {"walk", "recheck"},
           claim'[c].step = "walk", claim'[c].used = claim[c].used,
           claim'[c].v = claim[c].v + 1,
           missed'[c] \subseteq missed[c], claim[c].v \notin missed'[c],
           UNCHANGED <<grants, bound>>
    PROVE  MissedSound(c)'
<1>1. /\ claim[c].v \in Nat /\ MissedSound(c)
      /\ \A w \in missed[c] : w \in Nat
  BY MissedFacts DEF Claim
<1>3. Granted' = Granted
  BY DEF Granted
<1>4. \A w \in missed'[c] : w >= claim[c].v + 1 /\ w \notin claim[c].used
  BY <1>1 DEF MissedSound
<1> QED
  BY <1>1, <1>3, <1>4 DEF MissedSound, StickySteps

\* One turn of the walk passes over a value that was not free all along, or that
\* another claim's test holds.
LEMMA WalkKeepsMissed ==
    ASSUME MInv, NEW c \in Claimers, ClaimWalk(c)
    PROVE  MissedSound(c)'
<1> DEFINE v == claim[c].v
           go == [claim[c] EXCEPT !.step = "testing"]
<1>1. claim[c].step = "walk" /\ UNCHANGED <<grants, bound>> /\ Granted' = Granted
  BY DEF ClaimWalk, At, Granted
<1>2. /\ claim[c] \in Claim /\ v \in Nat /\ MissedSound(c)
      /\ claim \in [Claimers -> Claim] /\ missed \in [Claimers -> SUBSET Nat]
  BY MissedFacts DEF Claim, MInv, IInv, TypeOK
<1>3. CASE Skipped(c, v) \/ ~ CanListen(v)
  <2>1. /\ claim'[c] = [claim[c] EXCEPT !.v = @ + 1]
        /\ missed'[c] = IF v \in UnderTest THEN missed[c] \ {v} ELSE missed[c]
    BY <1>2, <1>3 DEF ClaimWalk
  <2>2. claim'[c].step = "walk" /\ claim'[c].used = claim[c].used /\ claim'[c].v = v + 1
    BY <1>1, <1>2, <2>1 DEF Claim
  <2>3. missed'[c] \subseteq missed[c] /\ v \notin missed'[c]
    BY <1>1, <1>2, <1>3, <2>1 DEF MissedSound, Skipped, CanListen
  <2> QED
    BY <1>1, <2>2, <2>3, PassingKeepsMissed
<1>4. CASE ~ (Skipped(c, v) \/ ~ CanListen(v))
  <2>1. claim'[c] = go /\ missed' = missed
    BY <1>2, <1>4 DEF ClaimWalk, Goto
  <2>2. go.step = "testing" /\ go.used = claim[c].used /\ go.v = v
    BY <1>2 DEF Claim
  <2> HIDE DEF go
  <2> QED
    BY <1>1, <1>2, <2>1, <2>2 DEF MissedSound, StickySteps
<1> QED
  BY <1>3, <1>4

\* The test closes its listener; nothing else changes.
LEMMA CloseKeepsMissed ==
    ASSUME MInv, NEW c \in Claimers, StickyTest(c) \/ ClaimClose(c)
    PROVE  MissedSound(c)'
<1>1. /\ claim[c] \in Claim /\ MissedSound(c) /\ UNCHANGED <<grants, bound, missed>>
      /\ Granted' = Granted
  BY MissedFacts DEF StickyTest, ClaimClose, Granted
<1>2. CASE StickyTest(c)
  <2>1. claim[c].step = "check" /\ claim'[c].step \in {"probing", "mark"}
    BY <1>1, <1>2 DEF StickyTest, Goto, At, Claim, MInv, IInv, TypeOK
  <2>2. missed'[c] = {}
    BY <1>1, <2>1 DEF MissedSound, StickySteps
  <2> QED
    BY <2>1, <2>2, MissedAtEnd DEF StickySteps
<1>3. CASE ClaimClose(c)
  <2> DEFINE k == [claim[c] EXCEPT !.step = "insert"]
  <2>1. claim[c].step = "testing" /\ claim'[c] = k
    BY <1>3 DEF ClaimClose, Goto, At, MInv, IInv, TypeOK
  <2>2. k.step = "insert" /\ k.used = claim[c].used /\ k.v = claim[c].v
    BY <1>1 DEF Claim
  <2> HIDE DEF k
  <2> QED
    BY <1>1, <2>1, <2>2 DEF MissedSound, StickySteps
<1> QED
  BY <1>2, <1>3

\* A lost race: the owner has a grant by now, or the value went to another.
LEMMA ConflictKeepsMissed ==
    ASSUME MInv, NEW c \in Claimers, ClaimInsert(c), Conflict(claim[c].owner, claim[c].v)
    PROVE  MissedSound(c)'
<1> DEFINE k == [claim[c] EXCEPT !.step = "recheck"]
<1>1. /\ claim'[c] = k /\ claim[c].step = "insert"
      /\ UNCHANGED <<grants, bound, missed>>
  BY DEF ClaimInsert, Goto, At, MInv, IInv, TypeOK
<1>2. k.step = "recheck" /\ k.used = claim[c].used /\ k.v = claim[c].v /\ k.owner = claim[c].owner
  BY MissedFacts DEF Claim
<1> HIDE DEF k
<1>3. Granted' = Granted
  BY <1>1 DEF Granted
<1>4. HasGrant(claim[c].owner) \/ claim[c].v \notin missed[c]
  BY MissedFacts DEF Conflict, MissedSound
<1> QED
  BY <1>1, <1>2, <1>3, <1>4, MissedFacts DEF MissedSound, HasGrant, StickySteps

\* The walk goes on past a value that was lost to another owner, or whose re-check
\* failed.
LEMMA RecheckKeepsMissed ==
    ASSUME MInv, NEW c \in Claimers,
           ClaimRecheckFails(c) \/ (ClaimRecheck(c) /\ ~ HasGrant(claim[c].owner))
    PROVE  MissedSound(c)'
<1>1. /\ claim[c].step = "recheck" /\ UNCHANGED <<grants, bound>>
      /\ claim \in [Claimers -> Claim] /\ missed \in [Claimers -> SUBSET Nat]
  BY DEF ClaimRecheck, ClaimRecheckFails, At, MInv, IInv, TypeOK
<1>2. /\ claim'[c].step = "walk" /\ claim'[c].used = claim[c].used
      /\ claim'[c].v = claim[c].v + 1
  BY <1>1 DEF ClaimRecheck, ClaimRecheckFails, Claim
<1>3. missed'[c] \subseteq missed[c] /\ claim[c].v \notin missed'[c]
  BY <1>1, MissedFacts DEF MissedSound, ClaimRecheck, ClaimRecheckFails
<1> QED
  BY <1>1, <1>2, <1>3, PassingKeepsMissed

\* A grant that is inserted is taken off what every other claim might be given.
LEMMA InsertKeepsMissed ==
    ASSUME MInv, NEW c \in Claimers, ClaimInsert(c), ~ Conflict(claim[c].owner, claim[c].v),
           NEW d \in Claimers
    PROVE  MissedSound(d)'
<1> DEFINE v == claim[c].v
           id == MaxPlusOne(DOMAIN grants)
           g == [owner |-> claim[c].owner, value |-> v, state |-> "active"]
<1>1. /\ grants' = Put(grants, id, g)
      /\ claim' = [claim EXCEPT ![c] = Idle]
      /\ missed' = [e \in Claimers |-> IF e = c THEN {} ELSE missed[e] \ {v}]
      /\ bound' = bound
  BY DEF ClaimInsert, AnswerWith
<1>2. id \notin DOMAIN grants
  <2>1. PICK n \in Nat : DOMAIN grants \subseteq 1..n
    BY DEF MInv, IInv, IdsBounded
  <2> QED
    BY <2>1, MaxPlusOneFresh
<1>3. g.value = v
  OBVIOUS
<1> HIDE DEF v, id, g
<1>4. /\ DOMAIN grants' = DOMAIN grants \cup {id} /\ grants'[id] = g
      /\ \A i \in DOMAIN grants : grants'[i] = grants[i]
  BY <1>1, <1>2 DEF Put
<1>5. CASE d = c
  <2>1. claim'[c] = Idle /\ missed'[c] = {}
    BY <1>1 DEF MInv, IInv, TypeOK
  <2> QED
    BY <1>5, <2>1, MissedAtEnd, IdleIsClaim
<1>6. CASE d # c
  <2>1. claim'[d] = claim[d] /\ missed'[d] = missed[d] \ {v} /\ MissedSound(d)
    BY <1>1, <1>6 DEF MInv, IInv, TypeOK
  <2>2. \A w \in Granted' : w \in Granted \/ w = v
    BY <1>3, <1>4 DEF Granted
  <2>3. \A w \in missed'[d] : w \notin Granted' /\ w \notin bound'
    BY <1>1, <2>1, <2>2 DEF MissedSound
  <2>4. HasGrant(claim[d].owner) => HasGrant(claim[d].owner)'
    BY <1>4, <2>1 DEF HasGrant
  <2> QED
    BY <2>1, <2>3, <2>4, MissedStays
<1> QED
  BY <1>5, <1>6

\* The answer of a claim of the sticky path: MarkPortState changes neither owners
\* nor values.
LEMMA StickyAnswerKeepsMissed ==
    ASSUME MInv, NEW c \in Claimers, ClaimMark(c) \/ StickyClose(c), NEW d \in Claimers
    PROVE  MissedSound(d)'
<1>1. /\ UNCHANGED <<bound, missed>> /\ claim' = [claim EXCEPT ![c] = Idle]
      /\ claim[c].step \in StickySteps
  BY DEF ClaimMark, StickyClose, AnswerWith, At, StickySteps
<1>2. DOMAIN grants' = DOMAIN grants
      /\ \A i \in DOMAIN grants : grants'[i].owner = grants[i].owner
                                  /\ grants'[i].value = grants[i].value
  BY MarkKeepsGrants DEF StickyClose, MInv
<1>3. Granted' = Granted
  BY <1>2 DEF Granted
<1>4. CASE d = c
  <2>1. claim'[c] = Idle /\ missed'[c] = {}
    BY <1>1 DEF MInv, IInv, TypeOK, MissedSound
  <2> QED
    BY <1>4, <2>1, MissedAtEnd, IdleIsClaim
<1>5. CASE d # c
  <2>1. claim'[d] = claim[d] /\ missed'[d] = missed[d] /\ MissedSound(d)
    BY <1>1, <1>5 DEF MInv, IInv, TypeOK
  <2>2. HasGrant(claim[d].owner) => HasGrant(claim[d].owner)'
    BY <1>2, <2>1 DEF HasGrant
  <2>3. \A w \in missed'[d] : w \notin Granted' /\ w \notin bound'
    BY <1>1, <1>3, <2>1 DEF MissedSound
  <2> QED
    BY <2>1, <2>2, <2>3, MissedStays
<1> QED
  BY <1>4, <1>5

\* A release frees its owner's value and ends the wait of that owner's claims.
LEMMA ReleaseKeepsMissed ==
    ASSUME MInv, NEW o \in Owners, Release(o), NEW d \in Claimers
    PROVE  MissedSound(d)'
<1> DEFINE K == {i \in DOMAIN grants : grants[i].owner = o}
<1>1. /\ grants' = Drop(grants, K) /\ UNCHANGED bound
      /\ missed' = [c \in Claimers |-> IF claim[c].owner = o THEN {} ELSE missed[c]]
      /\ claim'[d] = IF claim[d].owner = o /\ claim[d].step \in StickySteps
                     THEN [claim[d] EXCEPT !.since = FALSE] ELSE claim[d]
  BY DEF Release
<1>2. /\ DOMAIN grants' = DOMAIN grants \ K
      /\ \A i \in DOMAIN grants' : grants'[i] = grants[i]
  BY <1>1 DEF Drop
<1>3. Granted' \subseteq Granted
  BY <1>2 DEF Granted
<1>4. /\ claim'[d].step = claim[d].step /\ claim'[d].owner = claim[d].owner
      /\ claim'[d].v = claim[d].v /\ claim'[d].used = claim[d].used
      /\ missed'[d] \subseteq missed[d] /\ MissedSound(d)
      /\ claim[d].owner = o => missed'[d] = {}
  BY <1>1, MissedFacts DEF MInv, Claim
<1>5. claim[d].owner # o /\ HasGrant(claim[d].owner) => HasGrant(claim[d].owner)'
  BY <1>2, <1>4 DEF HasGrant
<1>6. \A w \in missed'[d] : w \notin Granted' /\ w \notin bound'
  BY <1>1, <1>3, <1>4 DEF MissedSound
<1> QED
  BY <1>4, <1>5, <1>6, MissedStays

\* Every step keeps what the claims may still be given ahead of their walks.
LEMMA NextKeepsMInv == MInv /\ [Next]_vars => MInv'
<1> SUFFICES ASSUME MInv, [Next]_vars, NEW d \in Claimers PROVE MissedSound(d)'
  BY NextKeepsIInv DEF MInv
<1>0. /\ claim \in [Claimers -> Claim] /\ missed \in [Claimers -> SUBSET Nat]
      /\ MissedSound(d)
  BY DEF MInv, IInv, TypeOK
<1>1. ASSUME NEW c \in Claimers, Step(c) \/ ClaimRecheckFails(c) \/ ClaimFails(c)
      PROVE  MissedSound(d)'
  <2>1. CASE \/ ClaimUsed(c) \/ ClaimWalk(c) \/ (ClaimInsert(c) /\ Conflict(claim[c].owner, claim[c].v))
             \/ (ClaimRecheck(c) /\ ~ HasGrant(claim[c].owner)) \/ ClaimRecheckFails(c)
             \/ StickyTest(c) \/ ClaimClose(c)
    <3>1. d = c => MissedSound(d)'
      BY <2>1, UsedKeepsMissed, WalkKeepsMissed, ConflictKeepsMissed, RecheckKeepsMissed,
         CloseKeepsMissed
    <3>2. UNCHANGED <<grants, bound>>
          /\ (d # c => claim'[d] = claim[d] /\ missed'[d] = missed[d])
      BY <1>0, <2>1 DEF ClaimUsed, ClaimWalk, ClaimInsert, ClaimRecheck, ClaimRecheckFails,
                        StickyTest, ClaimClose, Goto
    <3> QED
      BY <3>1, <3>2, MissedUndisturbed
  <2>2. CASE ClaimExhausted(c) \/ ClaimFails(c) \/ (ClaimRecheck(c) /\ HasGrant(claim[c].owner))
    <3>1. /\ claim' = [claim EXCEPT ![c] = Idle] /\ missed' = [missed EXCEPT ![c] = {}]
          /\ UNCHANGED <<grants, bound>>
      BY <2>2 DEF ClaimExhausted, ClaimFails, ClaimRecheck, AnswerWith
    <3>2. d = c => claim'[d].step = "idle" /\ missed'[d] = {}
      BY <1>0, <3>1, IdleIsClaim
    <3>3. d # c => claim'[d] = claim[d] /\ missed'[d] = missed[d]
      BY <1>0, <3>1
    <3> QED
      BY <3>1, <3>2, <3>3, MissedAtEnd, MissedUndisturbed
  <2>3. CASE ClaimInsert(c) /\ ~ Conflict(claim[c].owner, claim[c].v)
    BY <2>3, InsertKeepsMissed
  <2>4. CASE ClaimMark(c) \/ StickyClose(c)
    BY <2>4, StickyAnswerKeepsMissed
  <2> QED
    BY <1>1, <2>1, <2>2, <2>3, <2>4 DEF Step
<1>2. ASSUME NEW c \in Claimers, NEW o \in Owners, ClaimSticky(c, o) PROVE MissedSound(d)'
  <2> DEFINE k == [Idle EXCEPT !.step = "check", !.owner = o, !.id = GrantOf(o),
                               !.v = grants[GrantOf(o)].value]
  <2>0. k.step = "check"
    BY DEF Idle
  <2>1. /\ claim[c] = Idle /\ UNCHANGED <<grants, bound, missed>>
        /\ claim' = [claim EXCEPT ![c] = k]
    BY <1>2 DEF ClaimSticky
  <2> HIDE DEF k
  <2>2. d # c => claim'[d] = claim[d]
    BY <1>0, <2>1
  <2>3. d = c => claim'[d].step \in StickySteps
    BY <1>0, <2>0, <2>1 DEF StickySteps
  <2>4. d = c => missed'[d] = {}
    BY <1>0, <2>1, IdleIsClaim DEF MissedSound
  <2> QED
    BY <2>1, <2>2, <2>3, <2>4, MissedAtEnd, MissedUndisturbed
<1>3. ASSUME NEW c \in Claimers, NEW o \in Owners, ClaimNew(c, o) PROVE MissedSound(d)'
  <2>1. /\ claim' = [claim EXCEPT ![c] = [Idle EXCEPT !.step = "used", !.owner = o]]
        /\ missed' = [missed EXCEPT ![c] = FreeValues]
        /\ UNCHANGED <<grants, bound>>
    BY <1>3 DEF ClaimNew
  <2>2. d = c => claim'[d].step = "used" /\ missed'[d] = FreeValues
    BY <1>0, <2>1 DEF Idle
  <2>3. d # c => claim'[d] = claim[d] /\ missed'[d] = missed[d]
    BY <1>0, <2>1
  <2>4. FreeValues = (Values \ Avoid) \ (Granted' \cup bound')
    BY <2>1 DEF FreeValues, Granted
  <2> QED
    BY <2>1, <2>2, <2>3, <2>4, MissedUndisturbed DEF MissedSound, StickySteps
<1>4. ASSUME NEW o \in Owners, Release(o) PROVE MissedSound(d)'
  BY <1>4, ReleaseKeepsMissed
<1>5. ASSUME NEW v \in Squatters, Listen(v) \/ Unlisten(v) PROVE MissedSound(d)'
  <2>1. /\ UNCHANGED <<grants, claim>> /\ missed'[d] \subseteq missed[d]
        /\ \A w \in missed'[d] : w \notin bound'
    BY <1>0, <1>5 DEF Listen, Unlisten, MissedSound
  <2>2. Granted' = Granted /\ (HasGrant(claim[d].owner) => HasGrant(claim[d].owner)')
    BY <2>1 DEF Granted, HasGrant
  <2>3. \A w \in missed'[d] : w \notin Granted'
    BY <1>0, <2>1, <2>2 DEF MissedSound
  <2> QED
    BY <1>0, <2>1, <2>2, <2>3, MissedStays
<1>6. CASE UNCHANGED vars
  BY <1>6, MissedUndisturbed DEF vars
<1> QED
  BY <1>1, <1>2, <1>3, <1>4, <1>5, <1>6 DEF Next

\* "Pool exhausted" is said only when each value of the pool was granted or squatted
\* at some moment of the claim, under another claim's bind test when this one
\* tested it, or passed over because the re-check after a lost race failed.
THEOREM ExhaustionIsReal == Spec => []NoFalseExhaustion
<1>1. Init => MInv
  <2> SUFFICES ASSUME Init PROVE MInv
    OBVIOUS
  <2>1. \A c \in Claimers : claim[c].step = "idle" /\ missed[c] = {}
    BY DEF Init, Idle
  <2> QED
    BY <2>1, InitIInv DEF MInv, MissedSound, StickySteps
<1>2. MInv => NoFalseExhaustion
  <2> SUFFICES ASSUME MInv, NEW c \in Claimers, At(c, "walk"), Past(claim[c].v),
                      NEW w \in missed[c]
               PROVE  FALSE
    BY DEF NoFalseExhaustion
  <2>1. /\ w \in Nat /\ w <= RangeEnd /\ w >= claim[c].v /\ claim[c].v \in Nat
    BY MissedFacts DEF MissedSound, At, Claim
  <2> QED
    BY <2>1, PoolAssumption DEF Past
<1> QED
  BY <1>1, <1>2, NextKeepsMInv, PTL DEF Spec

-----------------------------------------------------------------------------
(* The walk ends.                                                              *)

\* The steps that a claim has left at most: four for each value its walk has not
\* passed yet, whatever the other claims, releases and processes do meanwhile.
Unpassed(v) == IF v <= RangeEnd THEN RangeEnd + 1 - v ELSE 0
StepsLeft(k) ==
    CASE k.step = "idle"    -> 0
      [] k.step \in {"probing", "mark"} -> 1
      [] k.step = "check"   -> 2
      [] k.step = "recheck" -> 4 * Unpassed(k.v)
      [] k.step = "insert"  -> 4 * Unpassed(k.v) + 1
      [] k.step = "testing" -> 4 * Unpassed(k.v) + 2
      [] k.step = "walk"    -> 4 * Unpassed(k.v) + 3
      [] k.step = "used"    -> 4 * Unpassed(RangeStart) + 4

\* A value whose INSERT met a conflict came from the walk.
RecheckSound == \A c \in Claimers : claim[c].step = "recheck" => claim[c].v <= RangeEnd

LEMMA UnpassedIsLess ==
    /\ \A v \in Nat : Unpassed(v) \in Nat
    /\ \A v \in Nat : v <= RangeEnd => Unpassed(v) = Unpassed(v + 1) + 1
BY PoolAssumption DEF Unpassed

LEMMA StepsLeftIs ==
    ASSUME NEW k \in Claim
    PROVE  /\ StepsLeft(k) \in Nat
           /\ k.step = "idle" => StepsLeft(k) = 0
           /\ k.step \in {"probing", "mark"} => StepsLeft(k) = 1
           /\ k.step = "check" => StepsLeft(k) = 2
           /\ k.step = "recheck" => StepsLeft(k) = 4 * Unpassed(k.v)
           /\ k.step = "insert" => StepsLeft(k) = 4 * Unpassed(k.v) + 1
           /\ k.step = "testing" => StepsLeft(k) = 4 * Unpassed(k.v) + 2
           /\ k.step = "walk" => StepsLeft(k) = 4 * Unpassed(k.v) + 3
           /\ k.step = "used" => StepsLeft(k) = 4 * Unpassed(RangeStart) + 4
<1>1. k.v \in Nat /\ Unpassed(k.v) \in Nat /\ Unpassed(RangeStart) \in Nat
  BY UnpassedIsLess, PoolAssumption DEF Claim
<1>2. k.step \in {"idle", "check", "probing", "mark", "used", "walk", "testing", "insert", "recheck"}
  BY DEF Claim, StickySteps
<1>3. /\ k.step = "idle" => StepsLeft(k) = 0
      /\ k.step \in {"probing", "mark"} => StepsLeft(k) = 1
      /\ k.step = "check" => StepsLeft(k) = 2
      /\ k.step = "recheck" => StepsLeft(k) = 4 * Unpassed(k.v)
      /\ k.step = "insert" => StepsLeft(k) = 4 * Unpassed(k.v) + 1
      /\ k.step = "testing" => StepsLeft(k) = 4 * Unpassed(k.v) + 2
      /\ k.step = "walk" => StepsLeft(k) = 4 * Unpassed(k.v) + 3
      /\ k.step = "used" => StepsLeft(k) = 4 * Unpassed(RangeStart) + 4
  BY <1>2 DEF StepsLeft
<1>4. StepsLeft(k) \in Nat
  BY <1>1, <1>2, <1>3
<1> QED
  BY <1>3, <1>4

\* A claim under way has at least one step left, and four for each value of the
\* range and four more at most.
LEMMA StepsLeftBounds ==
    ASSUME IInv, RecheckSound, NEW c \in Claimers, claim[c].step # "idle"
    PROVE  StepsLeft(claim[c]) \in 1 .. 4 * Unpassed(RangeStart) + 4
<1> DEFINE k == claim[c]
           x == Unpassed(k.v)
           y == Unpassed(RangeStart)
<1>1. k \in Claim /\ k.v \in Nat /\ RangeStart \in Nat /\ RangeEnd \in Nat
  BY PoolAssumption DEF IInv, TypeOK, Claim
<1>2. x \in Nat /\ y \in Nat
  BY <1>1, UnpassedIsLess
<1>3. k.step \in {"walk", "testing", "insert", "recheck"} => x <= y
  BY <1>1, PoolAssumption DEF IInv, WalkSound, Carries, Unpassed
<1>4. k.step = "recheck" => x >= 1
  BY <1>1 DEF RecheckSound, Unpassed
<1>5. k.step \in {"check", "probing", "mark", "used", "walk", "testing", "insert", "recheck"}
  BY <1>1 DEF Claim, StickySteps
<1> HIDE DEF x, y
<1>6. /\ k.step \in {"probing", "mark"} => StepsLeft(k) = 1
      /\ k.step = "check" => StepsLeft(k) = 2
      /\ k.step = "recheck" => StepsLeft(k) = 4 * x
      /\ k.step = "insert" => StepsLeft(k) = 4 * x + 1
      /\ k.step = "testing" => StepsLeft(k) = 4 * x + 2
      /\ k.step = "walk" => StepsLeft(k) = 4 * x + 3
      /\ k.step = "used" => StepsLeft(k) = 4 * y + 4
  BY <1>1, StepsLeftIs DEF x, y
<1> HIDE DEF k
<1>7. StepsLeft(k) \in 1 .. 4 * y + 4
  BY <1>2, <1>3, <1>4, <1>5, <1>6
<1> QED
  BY <1>7 DEF k, y

LEMMA EndingIsLess ==
    ASSUME IInv, RecheckSound, NEW c \in Claimers, claim[c].step # "idle",
           claim'[c] = Idle
    PROVE  StepsLeft(claim'[c]) < StepsLeft(claim[c])
<1>1. Idle \in Claim /\ Idle.step = "idle"
  BY IdleIsClaim DEF Idle
<1>2. StepsLeft(claim'[c]) = 0
  BY <1>1, StepsLeftIs
<1>3. StepsLeft(claim[c]) \in 1 .. 4 * Unpassed(RangeStart) + 4
  BY StepsLeftBounds
<1> QED
  BY <1>2, <1>3, UnpassedIsLess, PoolAssumption

\* Every step of a claim brings it nearer to its end.
LEMMA StepIsLess ==
    ASSUME IInv, RecheckSound, NEW c \in Claimers,
           Step(c) \/ ClaimRecheckFails(c) \/ ClaimFails(c)
    PROVE  /\ claim[c].step # "idle" => StepsLeft(claim'[c]) < StepsLeft(claim[c])
           /\ claim'[c].step = "recheck" => claim'[c].v <= RangeEnd
           /\ \A d \in Claimers \ {c} : claim'[d] = claim[d]
<1> DEFINE k == claim[c]
           m == claim'[c]
<1>1. /\ claim \in [Claimers -> Claim] /\ k \in Claim /\ k.v \in Nat /\ RangeEnd \in Nat
      /\ Unpassed(k.v) \in Nat /\ Unpassed(RangeStart) \in Nat /\ Unpassed(k.v + 1) \in Nat
      /\ k.v <= RangeEnd => Unpassed(k.v) = Unpassed(k.v + 1) + 1
  <2>1. claim \in [Claimers -> Claim] /\ k \in Claim /\ k.v \in Nat
    BY DEF IInv, TypeOK, Claim
  <2> HIDE DEF k
  <2> QED
    BY <2>1, UnpassedIsLess, PoolAssumption
<1>2. CASE claim' = [claim EXCEPT ![c] = Idle]
  <2>1. m = Idle /\ \A d \in Claimers \ {c} : claim'[d] = claim[d]
    BY <1>1, <1>2
  <2>2. m.step # "recheck"
    BY <2>1 DEF Idle
  <2> QED
    BY <2>1, <2>2, EndingIsLess
<1>3. CASE ClaimUsed(c)
  <2>1. claim' = [claim EXCEPT ![c].step = "walk", ![c].used = Granted, ![c].v = RangeStart]
        /\ k.step = "used"
    BY <1>3 DEF ClaimUsed, At
  <2>2. Granted \in SUBSET Nat /\ RangeStart \in Nat
    BY PoolAssumption DEF Granted, IInv, TypeOK, Grant
  <2>3. /\ m \in Claim /\ m.step = "walk" /\ m.v = RangeStart
        /\ \A d \in Claimers \ {c} : claim'[d] = claim[d]
    BY <1>1, <2>1, <2>2 DEF Claim
  <2>4. StepsLeft(k) = 4 * Unpassed(RangeStart) + 4 /\ StepsLeft(m) = 4 * Unpassed(RangeStart) + 3
    BY <1>1, <2>1, <2>3, StepsLeftIs
  <2>5. StepsLeft(m) < StepsLeft(k)
    BY <1>1, <2>4
  <2> QED
    BY <2>3, <2>5
<1>4. CASE ClaimWalk(c)
  <2>1. k.step = "walk" /\ k.v <= RangeEnd
    BY <1>1, <1>4 DEF ClaimWalk, At, Past
  <2>2. StepsLeft(k) = 4 * Unpassed(k.v) + 3
    BY <1>1, <2>1, StepsLeftIs
  <2>3. CASE claim' = [claim EXCEPT ![c].v = @ + 1]
    <3>1. /\ m \in Claim /\ m.step = "walk" /\ m.v = k.v + 1
          /\ \A d \in Claimers \ {c} : claim'[d] = claim[d]
      BY <1>1, <2>1, <2>3 DEF Claim
    <3>2. StepsLeft(m) = 4 * Unpassed(k.v + 1) + 3
      BY <3>1, StepsLeftIs
    <3>3. StepsLeft(m) < StepsLeft(k)
      BY <1>1, <2>1, <2>2, <3>2
    <3> QED
      BY <3>1, <3>3
  <2>4. CASE claim' = [claim EXCEPT ![c].step = "testing"]
    <3>1. /\ m \in Claim /\ m.step = "testing" /\ m.v = k.v
          /\ \A d \in Claimers \ {c} : claim'[d] = claim[d]
      BY <1>1, <2>4 DEF Claim
    <3>2. StepsLeft(m) = 4 * Unpassed(k.v) + 2
      BY <3>1, StepsLeftIs
    <3>3. StepsLeft(m) < StepsLeft(k)
      BY <1>1, <2>2, <3>2
    <3> QED
      BY <3>1, <3>3
  <2> QED
    BY <1>4, <2>3, <2>4 DEF ClaimWalk, Goto
<1>5. CASE ClaimInsert(c) /\ claim' # [claim EXCEPT ![c] = Idle]
  <2>1. claim' = [claim EXCEPT ![c].step = "recheck"] /\ k.step = "insert"
    BY <1>5 DEF ClaimInsert, AnswerWith, Goto, At
  <2>2. /\ m \in Claim /\ m.step = "recheck" /\ m.v = k.v
        /\ \A d \in Claimers \ {c} : claim'[d] = claim[d]
    BY <1>1, <2>1 DEF Claim
  <2>3. k.v <= RangeEnd
    BY <1>1, <2>1, PoolAssumption DEF IInv, WalkSound, Carries, Values
  <2>4. StepsLeft(k) = 4 * Unpassed(k.v) + 1 /\ StepsLeft(m) = 4 * Unpassed(k.v)
    BY <1>1, <2>1, <2>2, StepsLeftIs
  <2>5. StepsLeft(m) < StepsLeft(k)
    BY <1>1, <2>3, <2>4
  <2> QED
    BY <2>2, <2>3, <2>5
<1>6. CASE (ClaimRecheck(c) /\ claim' # [claim EXCEPT ![c] = Idle]) \/ ClaimRecheckFails(c)
  <2>1. claim' = [claim EXCEPT ![c].step = "walk", ![c].v = @ + 1] /\ k.step = "recheck"
    BY <1>6 DEF ClaimRecheck, ClaimRecheckFails, AnswerWith, At
  <2>2. /\ m \in Claim /\ m.step = "walk" /\ m.v = k.v + 1
        /\ \A d \in Claimers \ {c} : claim'[d] = claim[d]
    BY <1>1, <2>1 DEF Claim
  <2>3. k.v <= RangeEnd
    BY <2>1 DEF RecheckSound
  <2>4. StepsLeft(k) = 4 * Unpassed(k.v) /\ StepsLeft(m) = 4 * Unpassed(k.v + 1) + 3
    BY <1>1, <2>1, <2>2, StepsLeftIs
  <2>5. StepsLeft(m) < StepsLeft(k)
    BY <1>1, <2>3, <2>4
  <2> QED
    BY <2>2, <2>3, <2>5
<1>7. CASE StickyTest(c) \/ ClaimClose(c)
  <2>1. PICK p \in {"probing", "mark", "insert"} :
            /\ claim' = [claim EXCEPT ![c].step = p]
            /\ \/ p \in {"probing", "mark"} /\ k.step = "check"
               \/ p = "insert" /\ k.step = "testing"
    BY <1>7 DEF StickyTest, ClaimClose, Goto, At
  <2>2. /\ m \in Claim /\ m.step = p /\ m.v = k.v
        /\ \A d \in Claimers \ {c} : claim'[d] = claim[d]
    BY <1>1, <2>1 DEF Claim, StickySteps
  <2>3. /\ k.step = "check" => StepsLeft(k) = 2
        /\ k.step = "testing" => StepsLeft(k) = 4 * Unpassed(k.v) + 2
        /\ m.step \in {"probing", "mark"} => StepsLeft(m) = 1
        /\ m.step = "insert" => StepsLeft(m) = 4 * Unpassed(m.v) + 1
    BY <1>1, <2>2, StepsLeftIs
  <2>4. StepsLeft(m) < StepsLeft(k)
    BY <1>1, <2>1, <2>2, <2>3
  <2> QED
    BY <2>1, <2>2, <2>4
<1> QED
  BY <1>2, <1>3, <1>4, <1>5, <1>6, <1>7
  DEF Step, ClaimFails, ClaimMark, StickyClose, AnswerWith, ClaimExhausted

LEMMA OthersDoNotDisturb ==
    ASSUME IInv, [Next]_vars, NEW c \in Claimers,
           ~ Step(c), ~ ClaimRecheckFails(c), ~ ClaimFails(c)
    PROVE  \/ claim'[c].step = claim[c].step /\ claim'[c].v = claim[c].v
           \/ claim[c].step = "idle" /\ claim'[c].step # "recheck"
<1>1. claim \in [Claimers -> Claim]
  BY DEF IInv, TypeOK
<1>2. ASSUME NEW d \in Claimers, d # c, Step(d) \/ ClaimRecheckFails(d) \/ ClaimFails(d)
      PROVE  claim'[c] = claim[c]
  BY <1>1, <1>2 DEF Step, ClaimRecheckFails, ClaimFails, StickyTest, StickyClose, ClaimMark,
                    ClaimUsed, ClaimWalk, ClaimClose, ClaimExhausted, ClaimInsert, ClaimRecheck,
                    AnswerWith, Goto
<1>3. ASSUME NEW d \in Claimers, NEW o \in Owners, ClaimSticky(d, o) \/ ClaimNew(d, o)
      PROVE  \/ claim'[c] = claim[c]
             \/ claim[c].step = "idle" /\ claim'[c].step # "recheck"
  <2> DEFINE check == [Idle EXCEPT !.step = "check", !.owner = o, !.id = GrantOf(o),
                                   !.v = grants[GrantOf(o)].value]
             used == [Idle EXCEPT !.step = "used", !.owner = o]
  <2>1. Idle.step = "idle" /\ check.step = "check" /\ used.step = "used"
    BY DEF Idle
  <2>2. claim[d] = Idle /\ \E k \in {check, used} : claim' = [claim EXCEPT ![d] = k]
    BY <1>3 DEF ClaimSticky, ClaimNew
  <2> HIDE DEF check, used
  <2> QED
    BY <1>1, <2>1, <2>2
<1>4. ASSUME NEW o \in Owners, Release(o)
      PROVE  claim'[c].step = claim[c].step /\ claim'[c].v = claim[c].v
  BY <1>1, <1>4 DEF Release, Claim
<1> QED
  BY <1>2, <1>3, <1>4 DEF Next, Listen, Unlisten, vars

\* A claim under way ends after at most StepsLeft steps of its own, four for each
\* value of the range and four more, however many races it loses: the safety half
\* of ClaimsEnd (internal/service/ports.go).
Moves(c) == claim'[c].step # claim[c].step \/ claim'[c].v # claim[c].v
ClaimsWindDown ==
    [][\A c \in Claimers :
          claim[c].step # "idle" /\ Moves(c)
          => /\ StepsLeft(claim[c]) \in 1 .. 4 * Unpassed(RangeStart) + 4
             /\ StepsLeft(claim'[c]) < StepsLeft(claim[c])]_vars

THEOREM ClaimsRunOut == Spec => ClaimsWindDown
<1>1. Init => RecheckSound
  BY DEF Init, Idle, RecheckSound
<1>2. ASSUME IInv, RecheckSound, [Next]_vars, NEW c \in Claimers
      PROVE  /\ claim[c].step # "idle" /\ Moves(c)
                => StepsLeft(claim'[c]) < StepsLeft(claim[c])
             /\ claim'[c].step = "recheck" => claim'[c].v <= RangeEnd
  <2>1. CASE Step(c) \/ ClaimRecheckFails(c) \/ ClaimFails(c)
    BY <1>2, <2>1, StepIsLess
  <2>2. CASE ~ Step(c) /\ ~ ClaimRecheckFails(c) /\ ~ ClaimFails(c)
    BY <1>2, <2>2, OthersDoNotDisturb DEF RecheckSound, Moves
  <2> QED
    BY <2>1, <2>2
<1>3. IInv /\ RecheckSound /\ [Next]_vars => RecheckSound'
  BY <1>2 DEF RecheckSound
<1>4. IInv /\ RecheckSound /\ [Next]_vars
      => [\A c \in Claimers :
             claim[c].step # "idle" /\ Moves(c)
             => /\ StepsLeft(claim[c]) \in 1 .. 4 * Unpassed(RangeStart) + 4
                /\ StepsLeft(claim'[c]) < StepsLeft(claim[c])]_vars
  BY <1>2, StepsLeftBounds
<1> QED
  BY <1>1, <1>3, <1>4, Invariance, PTL DEF Spec, ClaimsWindDown

-----------------------------------------------------------------------------
(* The shadow check.                                                         *)

LEMMA SilenceMeansService ==
    ASSUME NEW routes, NEW r \in routes, NEW h \in HostsIn(r, Zone),
           ~ \E c \in ShadowCheck(Zone, routes) : c.host = h,
           NEW w \in Winners(h, routes)
    PROVE  \/ h \in HostsIn(w, Zone)
           \/ \E q \in routes : q.name = w.name /\ h \in HostsIn(q, Zone)
<1>1. Exact(h) \in ParseMatch(r.rule) /\ InClass(h, Zone)
  <2>1. PICK p \in ParseMatch(r.rule) : p.host = h /\ p.is = "exact" /\ InClass(p.host, Zone)
    BY Zenon DEF HostsIn
  <2>2. PICK i \in DOMAIN r.rule : p \in PatternsOf(r.rule[i])
    BY Zenon DEF ParseMatch
  <2>3. p = Exact(h)
    BY <2>1, <2>2 DEF PatternsOf, Exact, CatchAll, Other
  <2> QED
    BY <2>1, <2>3
<1>2. r \in Candidates(h, routes)
  BY <1>1 DEF Candidates
<1>3. w \in Candidates(h, routes) /\ w \in routes /\ Shadows(r, w)
  BY <1>2 DEF Winners, Candidates, Shadows
<1>4. \/ Exact(h) \in ParseMatch(w.rule)
      \/ CatchAll(Zone) \in ParseMatch(w.rule)
  BY <1>3, Zenon DEF Candidates
<1>5. CASE Exact(h) \in ParseMatch(w.rule)
  <2>1. Exact(h).is = "exact" /\ Exact(h).host = h
    BY DEF Exact
  <2>2. Exact(h) \in {q \in ParseMatch(w.rule) : q.is = "exact" /\ InClass(q.host, Zone)}
    BY <1>1, <1>5, <2>1
  <2> QED
    BY <2>1, <2>2 DEF HostsIn
<1>6. CASE CatchAll(Zone) \in ParseMatch(w.rule) /\ r.name # w.name
  <2> DEFINE found == [host |-> h, route |-> r.name, related |-> w.name]
             over(q) == {c \in routes : /\ CatchAll(Zone) \in ParseMatch(c.rule)
                                       /\ q.name # c.name /\ Shadows(q, c)}
             of(q) == {[host |-> g, route |-> q.name, related |-> c.name] :
                          g \in HostsIn(q, Zone), c \in over(q)}
  <2>1. w \in over(r)
    BY <1>3, <1>6
  <2>2. found \in of(r)
    <3> HIDE DEF over
    <3> QED
      BY <2>1
  <2>3. ShadowCheck(Zone, routes) = UNION {of(q) : q \in routes}
    BY DEF ShadowCheck
  <2>4. found \in ShadowCheck(Zone, routes)
    <3> HIDE DEF of, found
    <3> QED
      BY <2>2, <2>3
  <2>5. found.host = h
    OBVIOUS
  <2> QED
    BY <2>4, <2>5, Zenon
<1>7. CASE r.name = w.name
  BY <1>7
<1> QED
  BY <1>4, <1>5, <1>6, <1>7

-----------------------------------------------------------------------------
(* Hostnames and zones.                                                      *)

Sized(z) == z \in Seq(STRING) /\ \A j \in DOMAIN z : Len(z[j]) \in Nat \ {0}

\* What the recursion in Size computes.
SizesOf(f, z) ==
    /\ f \in [0..Len(z) -> Nat] /\ f[0] = 0
    /\ \A i \in 1..Len(z) : f[i] = IF i = 1 THEN Len(z[i]) ELSE f[i - 1] + 1 + Len(z[i])

LEMMA SizeIs ==
    ASSUME NEW z, Sized(z)
    PROVE  \E f : SizesOf(f, z) /\ Size(z) = f[Len(z)]
<1> DEFINE n == Len(z)
           len(i) == Len(z[i])
           G == [i \in 1..n |-> [x \in Nat |-> IF i = 1 THEN len(i) ELSE x + 1 + len(i)]]
           Rec(f) == [i \in 0..n |-> IF i = 0 THEN 0
                                     ELSE IF i = 1 THEN Len(z[1]) ELSE f[i - 1] + 1 + Len(z[i])]
           sz == CHOOSE f : f = Rec(f)
<1>1. n \in Nat /\ \A i \in 1..n : len(i) \in Nat
  BY DEF Sized
<1> HIDE DEF n, len
<1>2. \A i \in 1..n : /\ G[i] \in [Nat -> Nat]
                      /\ \A x \in Nat : G[i][x] = IF i = 1 THEN len(i) ELSE x + 1 + len(i)
  BY <1>1
<1>3. StepsOn(G, n, Nat)
  <2>1. G = [i \in 1..n |-> G[i]]
    OBVIOUS
  <2> HIDE DEF G
  <2> QED
    BY <1>2, <2>1 DEF StepsOn
<1>4. PICK f : Iterates(f, n, Nat, 0, G)
  <2> HIDE DEF G
  <2>1. 0 \in Nat
    OBVIOUS
  <2> QED
    BY <1>1, <1>3, <2>1, IterationExists, Zenon
<1>5. f \in [0..n -> Nat] /\ f[0] = 0 /\ \A i \in 1..n : f[i] = G[i][f[i - 1]]
  BY <1>4, Zenon DEF Iterates
<1>6. \A i \in 1..n : f[i] = IF i = 1 THEN len(i) ELSE f[i - 1] + 1 + len(i)
  <2> SUFFICES ASSUME NEW i \in 1..n PROVE f[i] = IF i = 1 THEN len(i) ELSE f[i - 1] + 1 + len(i)
    OBVIOUS
  <2>1. f[i - 1] \in Nat
    BY <1>1, <1>5
  <2> HIDE DEF G
  <2> QED
    BY <1>2, <1>5, <2>1
<1>7. SizesOf(f, z)
  <2> HIDE DEF G
  <2> QED
    BY <1>5, <1>6 DEF SizesOf, n, len
<1>8. f = Rec(f)
  <2> HIDE DEF G
  <2>1. \A i \in 0..n : f[i] = IF i = 0 THEN 0
                               ELSE IF i = 1 THEN Len(z[1]) ELSE f[i - 1] + 1 + Len(z[i])
    BY <1>1, <1>5, <1>6 DEF len
  <2> QED
    BY <1>5, <2>1
<1>9. sz = Rec(sz)
  <2> HIDE DEF Rec
  <2> QED
    BY <1>8
<1>10. \A i \in 0..n : sz[i] = IF i = 0 THEN 0
                               ELSE IF i = 1 THEN Len(z[1]) ELSE sz[i - 1] + 1 + Len(z[i])
  <2> HIDE DEF sz
  <2>1. \A i \in 0..n : Rec(sz)[i] = IF i = 0 THEN 0
                                     ELSE IF i = 1 THEN Len(z[1]) ELSE sz[i - 1] + 1 + Len(z[i])
    OBVIOUS
  <2> HIDE DEF Rec
  <2> QED
    BY <1>9, <2>1
<1>11. n \in {i \in 0..n : sz[i] = f[i]}
  <2> DEFINE S == {i \in 0..n : sz[i] = f[i]}
  <2> HIDE DEF sz, G, Rec
  <2>1. 0 \in S
    BY <1>1, <1>5, <1>10
  <2>2. ASSUME NEW i \in 1..n, i - 1 \in S PROVE i \in S
    <3>1. sz[i - 1] = f[i - 1] /\ i \in 0..n /\ i # 0
      BY <1>1, <2>2
    <3>2. sz[i] = f[i]
      BY <1>6, <1>10, <3>1 DEF len
    <3> QED
      BY <3>1, <3>2
  <2> HIDE DEF S
  <2>3. 0..n \subseteq S
    BY <1>1, <2>1, <2>2, UpTo
  <2> QED
    BY <1>1, <2>3 DEF S
<1>12. Size(z) = sz[n]
  BY DEF Size, n
<1>13. Size(z) = f[n]
  <2> HIDE DEF sz
  <2> QED
    BY <1>11, <1>12
<1> QED
  BY <1>7, <1>13 DEF n

\* A zone above a host is the end of its name.
LEMMA UnderIsEnd ==
    ASSUME NEW host \in Seq(STRING), NEW z \in Seq(STRING), Under(host, z)
    PROVE  \A i \in 1..Len(z) : z[i] = host[Len(host) - Len(z) + i]
<1> DEFINE m == Len(host) - Len(z) + 1
           n == Len(host)
<1>1. m \in Int /\ n \in Int /\ Len(z) \in Nat /\ n - m + 1 = Len(z) /\ m \in 1..(n + 1)
  BY DEF Under
<1>2. \A i \in m..n : host[i] \in STRING
  BY <1>1
<1>3. z = SubSeq(host, m, n)
  BY DEF Under
<1> HIDE DEF m, n
<1>4. \A i \in 1..(n - m + 1) : SubSeq(host, m, n)[i] = host[m + i - 1]
  BY <1>1, <1>2, SubSeqProperties
<1>5. \A i \in 1..Len(z) : z[i] = host[m + i - 1]
  BY <1>1, <1>3, <1>4
<1> QED
  BY <1>1, <1>5 DEF m

LEMMA SumsKeepOrder ==
    ASSUME NEW a \in Nat, NEW b \in Nat, NEW l \in Nat, NEW x \in Nat, NEW y \in Nat,
           a < b, x <= a + 1 + l, y = b + 1 + l
    PROVE  x < y
OBVIOUS

\* Of two zones above one host the one with more labels has the longer name.
LEMMA LongerIsBigger ==
    ASSUME NEW host \in Seq(STRING), NEW y, NEW z, Sized(y), Sized(z),
           Under(host, y), Under(host, z), Len(y) < Len(z)
    PROVE  Size(y) < Size(z)
<1> DEFINE d == Len(z) - Len(y)
<1>1. /\ Len(y) \in Nat /\ Len(z) \in Nat /\ d \in Nat /\ d >= 1 /\ Len(host) \in Nat
      /\ DOMAIN y = 1..Len(y) /\ DOMAIN z = 1..Len(z)
  BY DEF Sized
<1>2. \A i \in 1..Len(y) : y[i] = z[i + d]
  <2> SUFFICES ASSUME NEW i \in 1..Len(y) PROVE y[i] = z[i + d]
    OBVIOUS
  <2>1. y[i] = host[Len(host) - Len(y) + i]
    BY UnderIsEnd DEF Sized
  <2>2. i + d \in 1..Len(z)
    BY <1>1
  <2>3. z[i + d] = host[Len(host) - Len(z) + (i + d)]
    <3> HIDE DEF d
    <3> QED
      BY <2>2, UnderIsEnd DEF Sized
  <2>4. Len(host) - Len(z) + (i + d) = Len(host) - Len(y) + i
    BY <1>1
  <2> QED
    BY <2>1, <2>3, <2>4
<1>3. PICK f : SizesOf(f, y) /\ Size(y) = f[Len(y)]
  BY SizeIs
<1>4. PICK g : SizesOf(g, z) /\ Size(z) = g[Len(z)]
  BY SizeIs
<1> DEFINE S == {i \in 0..Len(y) : f[i] < g[i + d]}
<1> HIDE DEF d
<1>a. f \in [0..Len(y) -> Nat] /\ g \in [0..Len(z) -> Nat] /\ f[0] = 0
  BY <1>3, <1>4 DEF SizesOf
<1>b. /\ \A i \in 1..Len(y) : Len(y[i]) \in Nat
      /\ \A i \in 1..Len(z) : Len(z[i]) \in Nat \ {0}
  BY <1>1 DEF Sized
<1>5. 0 \in S
  <2>1. d \in 1..Len(z) /\ d - 1 \in 0..Len(z) /\ 0 + d = d /\ 0 \in 0..Len(y)
    BY <1>1 DEF d
  <2>2. Len(z[d]) \in Nat \ {0} /\ g[d - 1] \in Nat
    BY <1>a, <1>b, <2>1
  <2>3. g[d] = IF d = 1 THEN Len(z[d]) ELSE g[d - 1] + 1 + Len(z[d])
    BY <1>4, <2>1 DEF SizesOf
  <2>4. g[d] > 0
    BY <2>2, <2>3
  <2> QED
    BY <1>a, <2>1, <2>4
<1>6. ASSUME NEW i \in 1..Len(y), i - 1 \in S PROVE i \in S
  <2>1. i + d \in 1..Len(z) /\ i + d # 1 /\ (i - 1) + d = (i + d) - 1 /\ (i + d) - 1 \in 0..Len(z) /\ i - 1 \in 0..Len(y)
    BY <1>1 DEF d
  <2>2. Len(y[i]) \in Nat /\ y[i] = z[i + d]
    BY <1>b, <1>2
  <2>3. g[i + d] = g[(i + d) - 1] + 1 + Len(y[i])
    BY <1>4, <2>1, <2>2 DEF SizesOf
  <2>4. f[i] = IF i = 1 THEN Len(y[i]) ELSE f[i - 1] + 1 + Len(y[i])
    BY <1>3 DEF SizesOf
  <2>5. f[i - 1] < g[(i + d) - 1] /\ f[i - 1] \in Nat /\ g[(i + d) - 1] \in Nat
    BY <1>6, <1>a, <2>1
  <2>6. f[i] <= f[i - 1] + 1 + Len(y[i])
    <3>1. CASE i = 1
      BY <2>2, <2>4, <2>5, <3>1
    <3>2. CASE i # 1
      BY <2>2, <2>4, <2>5, <3>2
    <3> QED
      BY <3>1, <3>2
  <2>7. f[i] \in Nat /\ g[i + d] \in Nat
    BY <1>a, <1>1, <2>1
  <2>8. f[i] < g[i + d]
    BY <2>2, <2>3, <2>5, <2>6, <2>7, SumsKeepOrder, Zenon
  <2> QED
    BY <2>8
<1>7. 0..Len(y) \subseteq S
  <2> HIDE DEF S
  <2> QED
    BY <1>1, <1>5, <1>6, UpTo
<1>8. f[Len(y)] < g[Len(y) + d] /\ Len(y) + d = Len(z)
  BY <1>1, <1>7 DEF d
<1> QED
  BY <1>3, <1>4, <1>8

\* Among zones there is a first one of the longest.
LEMMA FirstLongestExists ==
    ASSUME NEW zones, NEW n \in Nat, NEW I \in SUBSET (1..n), I # {},
           \A i \in I : Size(zones[i]) \in Nat
    PROVE  \E i \in I : \A j \in I : \/ Size(zones[j]) < Size(zones[i])
                                     \/ Size(zones[j]) = Size(zones[i]) /\ i <= j
<1> DEFINE Ahead(i, j) == \/ Size(zones[j]) < Size(zones[i])
                          \/ Size(zones[j]) = Size(zones[i]) /\ i <= j
           S == {m \in 0..n : I \cap 1..m # {} => \E i \in I \cap 1..m : \A j \in I \cap 1..m : Ahead(i, j)}
<1>1. 0 \in S
  OBVIOUS
<1>2. ASSUME NEW m \in 1..n, m - 1 \in S PROVE m \in S
  <2>1. 1..m = 1..(m - 1) \cup {m}
    OBVIOUS
  <2>2. CASE m \notin I
    <3>1. I \cap 1..m = I \cap 1..(m - 1)
      BY <2>1, <2>2
    <3> HIDE DEF Ahead
    <3> QED
      BY <1>2, <3>1
  <2>3. CASE m \in I /\ I \cap 1..(m - 1) = {}
    <3>1. I \cap 1..m = {m} /\ Ahead(m, m)
      BY <2>1, <2>3
    <3> HIDE DEF Ahead
    <3> QED
      BY <3>1
  <2>4. CASE m \in I /\ I \cap 1..(m - 1) # {}
    <3>1. PICK i \in I \cap 1..(m - 1) : \A j \in I \cap 1..(m - 1) : Ahead(i, j)
      <4> HIDE DEF Ahead
      <4> QED
        BY <1>2, <2>4
    <3>2. CASE Size(zones[i]) < Size(zones[m])
      <4>1. \A j \in I \cap 1..m : Ahead(m, j)
        <5> SUFFICES ASSUME NEW j \in I \cap 1..m PROVE Ahead(m, j)
          OBVIOUS
        <5>1. CASE j = m
          BY <5>1
        <5>2. CASE j # m
          <6>1. j \in I \cap 1..(m - 1)
            BY <2>1, <5>2
          <6>2. Ahead(i, j) /\ i \in I /\ j \in I
            <7> HIDE DEF Ahead
            <7> QED
              BY <3>1, <6>1
          <6>3. Size(zones[j]) \in Nat /\ Size(zones[i]) \in Nat /\ Size(zones[m]) \in Nat
            BY <2>4, <6>2
          <6>4. Size(zones[j]) < Size(zones[m])
            BY <3>2, <6>2, <6>3
          <6> QED
            BY <6>4
        <5> QED
          BY <5>1, <5>2
      <4>2. m \in I \cap 1..m
        BY <2>4
      <4> HIDE DEF Ahead
      <4> QED
        BY <4>1, <4>2
    <3>3. CASE ~ (Size(zones[i]) < Size(zones[m]))
      <4>1. Ahead(i, m)
        BY <2>4, <3>3
      <4>2. \A j \in I \cap 1..m : Ahead(i, j)
        <5> HIDE DEF Ahead
        <5> QED
          BY <2>1, <3>1, <4>1
      <4>3. i \in I \cap 1..m
        BY <2>1
      <4> HIDE DEF Ahead
      <4> QED
        BY <4>2, <4>3
    <3> QED
      BY <3>2, <3>3
  <2> QED
    BY <2>2, <2>3, <2>4
<1>3. 0..n \subseteq S
  <2> HIDE DEF S
  <2> QED
    BY <1>1, <1>2, UpTo
<1>4. n \in S
  <2> HIDE DEF S
  <2> QED
    BY <1>3
<1>5. I \cap 1..n = I
  OBVIOUS
<1> QED
  <2> HIDE DEF Ahead
  <2>1. \E i \in I : \A j \in I : Ahead(i, j)
    BY <1>4, <1>5
  <2> QED
    BY <2>1 DEF Ahead

\* A label and its zone make up the hostname again.
LEMMA LabelAndZone ==
    ASSUME NEW host \in Seq(STRING), \A i \in DOMAIN host : host[i] # "@",
           NEW zone \in Seq(STRING), Under(host, zone)
    PROVE  /\ Prefix(host, zone) \in Seq(STRING)
           /\ Prefix(host, zone) \notin {<<>>, Apex}
           /\ FQDN(Prefix(host, zone), zone) = host
<1> DEFINE k == Len(host) - Len(zone)
           n == Len(host)
<1>1. n \in Nat /\ Len(zone) \in Nat /\ k \in Nat /\ k >= 1 /\ k <= n /\ n = k + Len(zone)
  BY DEF Under
<1>2. Prefix(host, zone) = SubSeq(host, 1, k)
  BY DEF Prefix
<1>3. \A i \in 1..n : host[i] \in STRING
  OBVIOUS
<1> HIDE DEF k, n
<1>4. /\ SubSeq(host, 1, k) \in Seq(STRING) /\ Len(SubSeq(host, 1, k)) = k
      /\ \A i \in 1..k : SubSeq(host, 1, k)[i] = host[i]
  <2>1. \A i \in 1..k : host[i] \in STRING
    BY <1>1, <1>3
  <2>2. 1 \in Int /\ k \in Int
    BY <1>1
  <2>3. /\ SubSeq(host, 1, k) \in Seq(STRING) /\ Len(SubSeq(host, 1, k)) = IF 1 <= k THEN k - 1 + 1 ELSE 0
        /\ \A i \in 1..(k - 1 + 1) : SubSeq(host, 1, k)[i] = host[1 + i - 1]
    BY <2>1, <2>2, SubSeqProperties
  <2> QED
    BY <1>1, <2>3
<1>5. SubSeq(host, 1, k) # <<>> /\ SubSeq(host, 1, k) # Apex
  <2> DEFINE p == SubSeq(host, 1, k)
  <2>1. Len(p) = k /\ p[1] = host[1] /\ 1 \in DOMAIN host
    BY <1>1, <1>4 DEF n
  <2> HIDE DEF p
  <2>2. p # <<>>
    BY <1>1, <2>1
  <2>3. p[1] # "@"
    BY <2>1
  <2>4. p # Apex
    BY <2>3 DEF Apex
  <2> QED
    BY <2>2, <2>4 DEF p
<1>6. SubSeq(host, 1, k) \o zone = host
  <2> DEFINE p == SubSeq(host, 1, k)
  <2>1. /\ p \o zone \in Seq(STRING) /\ Len(p \o zone) = k + Len(zone)
        /\ \A i \in 1..(k + Len(zone)) : (p \o zone)[i] = IF i <= k THEN p[i] ELSE zone[i - k]
    BY <1>4, ConcatProperties
  <2> HIDE DEF p
  <2>2. ASSUME NEW i \in 1..n PROVE (p \o zone)[i] = host[i]
    <3>1. CASE i <= k
      BY <1>1, <1>4, <2>1, <3>1 DEF p
    <3>2. CASE ~ (i <= k)
      <4>1. i - k \in 1..Len(zone) /\ n - Len(zone) + (i - k) = i
        BY <1>1, <3>2
      <4>2. zone[i - k] = host[n - Len(zone) + (i - k)]
        BY <4>1, UnderIsEnd DEF n
      <4> QED
        BY <1>1, <2>1, <3>2, <4>1, <4>2
    <3> QED
      BY <3>1, <3>2
  <2>3. Len(p \o zone) = Len(host) /\ \A i \in 1..Len(host) : (p \o zone)[i] = host[i]
    BY <1>1, <2>1, <2>2 DEF n
  <2>4. p \o zone = host
    BY <2>1, <2>3, SeqEqual
  <2> QED
    BY <2>4 DEF p
<1> QED
  BY <1>2, <1>4, <1>5, <1>6 DEF FQDN

Above(host, zones) == {z \in SeqSet(zones) : LabelForZone(host, z) # Invalid}

LEMMA OneHome ==
    ASSUME NEW host \in Hosts, NEW zones \in ZoneLists
    PROVE  LET home  == SplitByZones(host, zones)
               above == Above(host, zones)
           IN  /\ (home = NoHome) = (above = {})
               /\ Matches(host, zones) = (above # {})
               /\ (Handle(host, "A", zones, "v4") = "NXDOMAIN") = (above = {})
               /\ above # {} =>
                     /\ home.zone \in above
                     /\ home.label = LabelForZone(host, home.zone)
                     /\ FQDN(home.label, home.zone) = host
                     /\ \A z \in above : Len(z) <= Len(home.zone)
<1> DEFINE home  == SplitByZones(host, zones)
           above == Above(host, zones)
           I == {i \in DOMAIN zones : Under(host, zones[i])}
<1>1. host \in Seq(STRING) /\ \A i \in DOMAIN host : host[i] # "@"
  BY HostsAssumption
<1>2. /\ zones \in Seq(Seq(STRING) \ {<<>>}) /\ Len(zones) \in Nat /\ DOMAIN zones = 1..Len(zones)
      /\ \A i \in DOMAIN zones : Sized(zones[i])
  BY HostsAssumption DEF Sized
<1>3. \A i \in DOMAIN zones :
         /\ zones[i] \in Seq(STRING) /\ Len(zones[i]) \in Nat
         /\ Under(host, zones[i]) => /\ Prefix(host, zones[i]) \notin {<<>>, Apex}
                                     /\ FQDN(Prefix(host, zones[i]), zones[i]) = host
                                     /\ Len(zones[i]) < Len(host) /\ zones[i] # host
  <2> SUFFICES ASSUME NEW i \in DOMAIN zones
               PROVE  /\ zones[i] \in Seq(STRING) /\ Len(zones[i]) \in Nat
                      /\ Under(host, zones[i]) => /\ Prefix(host, zones[i]) \notin {<<>>, Apex}
                                                  /\ FQDN(Prefix(host, zones[i]), zones[i]) = host
                                                  /\ Len(zones[i]) < Len(host) /\ zones[i] # host
    OBVIOUS
  <2>1. zones[i] \in Seq(STRING)
    BY <1>2 DEF Sized
  <2>2. Len(zones[i]) \in Nat /\ Len(host) \in Nat
    BY <1>1, <2>1
  <2>3. Under(host, zones[i]) => Len(zones[i]) < Len(host)
    BY <2>2 DEF Under
  <2> QED
    BY <1>1, <2>1, <2>2, <2>3, LabelAndZone
<1>4. \A i \in DOMAIN zones : /\ zones[i] \in above <=> (zones[i] = host \/ i \in I)
                              /\ LabelForZone(host, zones[i]) = IF zones[i] = host THEN Apex
                                                               ELSE IF i \in I THEN Prefix(host, zones[i])
                                                               ELSE Invalid
  <2>1. Apex # Invalid
    BY DEF Apex, Invalid
  <2> QED
    BY <1>3, <2>1 DEF LabelForZone, Above, SeqSet, Invalid
<1>5. \A z \in above : \E i \in DOMAIN zones : z = zones[i]
  BY DEF Above, SeqSet
<1>6. Matches(host, zones) = (above # {})
  BY <1>4, <1>5 DEF Matches
<1>7. (Handle(host, "A", zones, "v4") = "NXDOMAIN") = (above = {})
  <2>1. Handle(host, "A", zones, "v4") = IF ~ Matches(host, zones) THEN "NXDOMAIN" ELSE "answer"
    BY DEF Handle
  <2> QED
    BY <1>6, <2>1
<1>8. CASE \E i \in DOMAIN zones : zones[i] = host
  <2>1. home = [zone |-> host, label |-> Apex]
    BY <1>8 DEF SplitByZones
  <2>2. home.zone = host /\ home.label = Apex /\ home # NoHome
    BY <2>1 DEF NoHome, Apex, Invalid
  <2>3. host \in above /\ LabelForZone(host, host) = Apex
    BY <1>4, <1>8 DEF LabelForZone
  <2>4. FQDN(Apex, host) = host
    BY DEF FQDN
  <2>5. \A z \in above : Len(z) <= Len(host)
    <3> SUFFICES ASSUME NEW z \in above PROVE Len(z) <= Len(host)
      OBVIOUS
    <3>1. PICK i \in DOMAIN zones : z = zones[i]
      BY <1>5
    <3>2. Len(host) \in Nat
      BY <1>1
    <3> QED
      BY <1>3, <1>4, <3>1, <3>2
  <2> HIDE DEF home, above
  <2>6. (home = NoHome) = (above = {})
    BY <2>2, <2>3
  <2>7. above # {} => /\ home.zone \in above
                      /\ home.label = LabelForZone(host, home.zone)
                      /\ FQDN(home.label, home.zone) = host
                      /\ \A z \in above : Len(z) <= Len(home.zone)
    BY <2>2, <2>3, <2>4, <2>5
  <2> QED
    BY <1>6, <1>7, <2>6, <2>7 DEF home, above
<1>9. CASE I = {} /\ ~ \E i \in DOMAIN zones : zones[i] = host
  <2>1. home = NoHome
    BY <1>9 DEF SplitByZones
  <2>2. above = {}
    BY <1>4, <1>5, <1>9
  <2> HIDE DEF home, above
  <2> QED
    BY <1>6, <1>7, <2>1, <2>2 DEF home, above
<1>10. CASE I # {} /\ ~ \E i \in DOMAIN zones : zones[i] = host
  <2> DEFINE Ahead(i, j) == \/ Size(zones[j]) < Size(zones[i])
                            \/ Size(zones[j]) = Size(zones[i]) /\ i <= j
             first == CHOOSE i \in I : \A j \in I : Ahead(i, j)
  <2>1. home = [zone |-> zones[first], label |-> Prefix(host, zones[first])]
    BY <1>10 DEF SplitByZones
  <2>2. \A i \in DOMAIN zones : Size(zones[i]) \in Nat
    <3> SUFFICES ASSUME NEW i \in DOMAIN zones PROVE Size(zones[i]) \in Nat
      OBVIOUS
    <3>1. PICK f : SizesOf(f, zones[i]) /\ Size(zones[i]) = f[Len(zones[i])]
      BY <1>2, SizeIs
    <3> QED
      BY <1>3, <3>1 DEF SizesOf
  <2>3. first \in I /\ \A j \in I : Ahead(first, j)
    <3>1. \E i \in I : \A j \in I : Ahead(i, j)
      BY <1>2, <1>10, <2>2, FirstLongestExists
    <3> HIDE DEF Ahead, I
    <3> QED
      BY <3>1
  <2> HIDE DEF first
  <2>4. home.zone = zones[first] /\ home.label = Prefix(host, zones[first])
    BY <2>1
  <2>5. zones[first] \in above /\ LabelForZone(host, zones[first]) = Prefix(host, zones[first])
    BY <1>4, <1>10, <2>3
  <2>6. FQDN(Prefix(host, zones[first]), zones[first]) = host /\ Prefix(host, zones[first]) # Invalid
    BY <1>3, <2>3 DEF Invalid
  <2>7. \A z \in above : Len(z) <= Len(zones[first])
    <3> SUFFICES ASSUME NEW z \in above, ~ (Len(z) <= Len(zones[first])) PROVE FALSE
      OBVIOUS
    <3>1. PICK i \in DOMAIN zones : z = zones[i]
      BY <1>5
    <3>2. i \in I
      BY <1>4, <1>10, <3>1
    <3>3. Len(zones[first]) < Len(zones[i])
      BY <1>3, <2>3, <3>1
    <3>4. Under(host, zones[i]) /\ Under(host, zones[first]) /\ Sized(zones[i]) /\ Sized(zones[first])
      BY <1>2, <2>3, <3>2
    <3>5. Size(zones[first]) < Size(zones[i])
      BY <1>1, <3>3, <3>4, LongerIsBigger
    <3> QED
      BY <2>2, <2>3, <3>2, <3>5
  <2> HIDE DEF home, above
  <2>8. (home = NoHome) = (above = {})
    BY <2>4, <2>5, <2>6 DEF NoHome
  <2>9. above # {} => /\ home.zone \in above
                      /\ home.label = LabelForZone(host, home.zone)
                      /\ FQDN(home.label, home.zone) = host
                      /\ \A z \in above : Len(z) <= Len(home.zone)
    BY <2>4, <2>5, <2>6, <2>7
  <2> QED
    BY <1>6, <1>7, <2>8, <2>9 DEF home, above
<1> QED
  BY <1>8, <1>9, <1>10

-----------------------------------------------------------------------------
(* Labels.                                                                   *)

LEMMA CanonicalTwice ==
    ASSUME NEW p, Canonical(p) # Bad
    PROVE  Canonical(Canonical(p)) = Canonical(p)
<1> DEFINE c == IF p \in DOMAIN Odd THEN Odd[p] ELSE p
<1>1. Canonical(p) = c /\ c # Bad /\ Len(c) \in 1..LabelMax
  BY DEF Canonical
<1>2. c \notin DOMAIN Odd
  BY OddAssumption
<1> HIDE DEF c
<1>3. Canonical(c) = c
  BY <1>1, <1>2 DEF Canonical
<1> QED
  BY <1>1, <1>3

\* Normalize answers in normal form, whatever it is asked.
LEMMA NormalizeTwice ==
    ASSUME NEW X, NEW label \in Seq(X), NEW kind, Normalize(label, kind) # Invalid
    PROVE  Normalize(Normalize(label, kind), kind) = Normalize(label, kind)
<1> DEFINE n == Normalize(label, kind)
           N == [i \in DOMAIN label |-> IF IsWild(label) /\ i = 1 THEN "*" ELSE Canonical(label[i])]
           R == {N[i] : i \in DOMAIN label}
<1>1. CASE label = Apex
  BY <1>1 DEF Normalize
<1>2. CASE n = Apex
  BY <1>2 DEF Normalize
<1>3. CASE label # Apex /\ n # Apex
  <2>1. /\ label # <<>> /\ n = N
        /\ kind # "platform" => ~ IsWild(label) /\ ~ (Len(Base(label)) > 1)
        /\ \A i \in DOMAIN Base(label) : Canonical(Base(label)[i]) # Bad
    BY <1>3 DEF Normalize
  <2>2. DOMAIN label = 1..Len(label) /\ Len(label) \in Nat /\ Len(label) >= 1
    BY <2>1
  <2>3. N \in [1..Len(label) -> R]
    BY <2>2
  <2>4. n \in Seq(R) /\ Len(n) = Len(label) /\ DOMAIN n = DOMAIN label
    <3> HIDE DEF N, R, n
    <3>1. N \in Seq(R) /\ Len(N) = Len(label)
      BY <2>2, <2>3
    <3> QED
      BY <2>1, <2>2, <3>1
  <2>5. ASSUME NEW i \in DOMAIN label, ~ (IsWild(label) /\ i = 1)
        PROVE  n[i] = Canonical(label[i]) /\ n[i] # Bad /\ Canonical(n[i]) = n[i]
    <3>1. n[i] = Canonical(label[i])
      BY <2>1, <2>5
    <3>2. Canonical(label[i]) # Bad
      <4>1. CASE IsWild(label)
        <5>1. i - 1 \in DOMAIN Tail(label) /\ Tail(label)[i - 1] = label[i]
          BY <2>2, <2>5, <4>1 DEF IsWild
        <5> QED
          BY <2>1, <4>1, <5>1 DEF Base
      <4>2. CASE ~ IsWild(label)
        BY <2>1, <4>2 DEF Base
      <4> QED
        BY <4>1, <4>2
    <3> QED
      BY <3>1, <3>2, CanonicalTwice
  <2>6. ASSUME IsWild(label) PROVE IsWild(n) /\ n[1] = "*"
    <3>1. 1 \in DOMAIN label /\ Len(label) > 1
      BY <2>2, <2>6 DEF IsWild
    <3>2. n[1] = "*"
      BY <2>1, <2>6, <3>1
    <3> HIDE DEF n
    <3> QED
      BY <2>4, <3>1, <3>2 DEF IsWild
  <2>7. \A i \in DOMAIN n : IF IsWild(n) /\ i = 1 THEN n[i] = "*" ELSE n[i] # Bad /\ Canonical(n[i]) = n[i]
    <3> SUFFICES ASSUME NEW i \in DOMAIN n
                 PROVE  IF IsWild(n) /\ i = 1 THEN n[i] = "*" ELSE n[i] # Bad /\ Canonical(n[i]) = n[i]
      OBVIOUS
    <3>1. IsWild(n) => n[1] = "*"
      <4> HIDE DEF n
      <4> QED
        BY <2>4 DEF IsWild
    <3> QED
      <4> HIDE DEF n
      <4> QED
        BY <2>4, <2>5, <2>6, <3>1
  <2>8. kind # "platform" => ~ IsWild(n) /\ ~ (Len(Base(n)) > 1)
    <3> SUFFICES ASSUME kind # "platform" PROVE ~ IsWild(n) /\ ~ (Len(Base(n)) > 1)
      OBVIOUS
    <3>1. Len(label) = 1
      BY <2>1, <2>2 DEF Base
    <3> HIDE DEF n
    <3>2. Len(n) = 1
      BY <2>4, <3>1
    <3>3. ~ (Len(n) > 1)
      BY <3>2
    <3>4. ~ IsWild(n)
      BY <3>3, Zenon DEF IsWild
    <3>5. Base(n) = n
      BY <3>4, Zenon DEF Base
    <3> QED
      BY <3>3, <3>4, <3>5
  <2>9. \A i \in DOMAIN Base(n) : Canonical(Base(n)[i]) # Bad
    <3> HIDE DEF n
    <3> SUFFICES ASSUME NEW i \in DOMAIN Base(n) PROVE Canonical(Base(n)[i]) # Bad
      OBVIOUS
    <3>1. CASE IsWild(n)
      <4>1. i + 1 \in DOMAIN n /\ i + 1 # 1 /\ Tail(n)[i] = n[i + 1]
        BY <2>2, <2>4, <3>1 DEF Base, IsWild
      <4> QED
        BY <2>7, <3>1, <4>1 DEF Base
    <3>2. CASE ~ IsWild(n)
      BY <2>7, <3>2 DEF Base
    <3> QED
      BY <3>1, <3>2
  <2>10. n # <<>>
    <3> HIDE DEF n
    <3> QED
      BY <2>2, <2>4
  <2>11. Normalize(n, kind) = [i \in DOMAIN n |-> IF IsWild(n) /\ i = 1 THEN "*" ELSE Canonical(n[i])]
    <3> HIDE DEF n
    <3> QED
      BY <1>3, <2>8, <2>9, <2>10 DEF Normalize
  <2>12. n = [i \in DOMAIN n |-> n[i]]
    <3> HIDE DEF n
    <3> QED
      BY <2>4
  <2> HIDE DEF n
  <2>13. Normalize(n, kind) = [i \in DOMAIN n |-> n[i]]
    BY <2>7, <2>11
  <2> QED
    BY <2>12, <2>13 DEF n
<1> QED
  BY <1>1, <1>2, <1>3

\* A candidate is as it is written once normalized, or refused.
LEMMA CandidateIsPlain ==
    ASSUME NEW c, Canonical(c) \in {c, Bad}
    PROVE  Normalize(<<c>>, "tenant") \in {Invalid, <<c>>}
<1>1. Len(<<c>>) = 1 /\ <<c>>[1] = c /\ DOMAIN <<c>> = {1}
  OBVIOUS
<1>2. ~ IsWild(<<c>>) /\ Base(<<c>>) = <<c>>
  BY <1>1 DEF IsWild, Base
<1>3. CASE <<c>> = Apex
  BY <1>3 DEF Normalize
<1>4. CASE <<c>> # Apex /\ Canonical(c) = Bad
  BY <1>1, <1>2, <1>4 DEF Normalize
<1>5. CASE <<c>> # Apex /\ Canonical(c) # Bad
  <2>1. Normalize(<<c>>, "tenant") = [i \in DOMAIN <<c>> |-> Canonical(<<c>>[i])]
    <3> DEFINE l == <<c>>
    <3>1. /\ DOMAIN l = {1} /\ l[1] = c /\ l # <<>> /\ l # Apex /\ ~ (Len(l) > 1)
          /\ ~ IsWild(l) /\ Base(l) = l
      BY <1>1, <1>2, <1>5
    <3> HIDE DEF l
    <3>2. Normalize(l, "tenant") = [i \in DOMAIN l |-> Canonical(l[i])]
      BY <1>5, <3>1 DEF Normalize
    <3> QED
      BY <3>2 DEF l
  <2>2. \A i \in DOMAIN <<c>> : Canonical(<<c>>[i]) = <<c>>[i]
    BY <1>1, <1>5
  <2>3. <<c>> = [i \in DOMAIN <<c>> |-> <<c>>[i]]
    OBVIOUS
  <2> QED
    BY <2>1, <2>2, <2>3
<1> QED
  BY <1>3, <1>4, <1>5

\* Elements of a sequence that are different are counted by its length.
LEMMA DifferentElements ==
    ASSUME NEW X, NEW s \in Seq(X), \A i, j \in DOMAIN s : s[i] = s[j] => i = j
    PROVE  Len(s) = Cardinality(SeqSet(s))
<1>1. Len(s) \in Nat /\ DOMAIN s = 1..Len(s)
  OBVIOUS
<1>2. s \in [1..Len(s) -> SeqSet(s)]
  BY <1>1 DEF SeqSet
<1>3. ExistsBijection(1..Len(s), SeqSet(s))
  <2>1. \A t \in SeqSet(s) : \E i \in 1..Len(s) : s[i] = t
    BY <1>1 DEF SeqSet
  <2>2. s \in Bijection(1..Len(s), SeqSet(s))
    BY <1>1, <1>2, <2>1 DEF Bijection, Injection, Surjection, IsInjective
  <2> QED
    BY <2>2 DEF ExistsBijection
<1> QED
  BY <1>1, <1>3, FS_CountingElements

\* What FilterAvailable keeps is free, in normal form, and no word twice.
KeptOf(s, m, c, table, policy) ==
    /\ \A j \in DOMAIN s : /\ Free(s[j], table, policy) /\ Normalize(s[j], "tenant") = s[j]
                           /\ \E i \in 1..m : s[j] = <<c[i]>>
    /\ \A j, k \in DOMAIN s : s[j] = s[k] => j = k

LEMMA KeepsOneMore ==
    ASSUME NEW Y, NEW s \in Seq(Y), NEW c, NEW table, NEW policy, NEW m \in Nat \ {0},
           KeptOf(s, m - 1, c, table, policy), \A i \in 1..(m - 1) : <<c[i]>> # <<c[m]>>,
           <<c[m]>> \in Y, Free(<<c[m]>>, table, policy), Normalize(<<c[m]>>, "tenant") = <<c[m]>>
    PROVE  KeptOf(Append(s, <<c[m]>>), m, c, table, policy)
<1> DEFINE w == <<c[m]>>
           t == Append(s, w)
           Fit(x) == Free(x, table, policy) /\ Normalize(x, "tenant") = x
<1> HIDE DEF w
<1>1. /\ Len(s) \in Nat /\ DOMAIN s = 1..Len(s) /\ DOMAIN t = 1..(Len(s) + 1)
      /\ \A j \in DOMAIN t : t[j] = IF j = Len(s) + 1 THEN w ELSE s[j]
  BY DEF w
<1>2. \A j \in DOMAIN s : s[j] # w /\ Fit(s[j]) /\ \E i \in 1..(m - 1) : s[j] = <<c[i]>>
  <2> SUFFICES ASSUME NEW j \in DOMAIN s
               PROVE  s[j] # w /\ Fit(s[j]) /\ \E i \in 1..(m - 1) : s[j] = <<c[i]>>
    OBVIOUS
  <2>1. PICK i \in 1..(m - 1) : s[j] = <<c[i]>>
    BY Zenon DEF KeptOf
  <2>2. s[j] # w
    BY <2>1 DEF w
  <2>3. Fit(s[j])
    BY Zenon DEF KeptOf
  <2> QED
    BY <2>1, <2>2, <2>3, Zenon
<1>3. Fit(w)
  BY DEF w
<1> HIDE DEF t, Fit
<1>4. \A j \in DOMAIN t : Fit(t[j]) /\ \E i \in 1..m : t[j] = <<c[i]>>
  <2> SUFFICES ASSUME NEW j \in DOMAIN t PROVE Fit(t[j]) /\ \E i \in 1..m : t[j] = <<c[i]>>
    OBVIOUS
  <2>1. CASE j = Len(s) + 1
    <3>1. t[j] = <<c[m]>> /\ m \in 1..m
      BY <1>1, <2>1 DEF w
    <3> QED
      BY <1>3, <3>1 DEF w
  <2>2. CASE j # Len(s) + 1
    <3>1. j \in DOMAIN s /\ t[j] = s[j]
      BY <1>1, <2>2
    <3>2. PICK i \in 1..(m - 1) : s[j] = <<c[i]>>
      BY <1>2, <3>1
    <3>3. i \in 1..m
      OBVIOUS
    <3> QED
      BY <1>2, <3>1, <3>2, <3>3
  <2> QED
    BY <2>1, <2>2
<1>5. \A j, k \in DOMAIN s : s[j] = s[k] => j = k
  BY Zenon DEF KeptOf
<1>6. \A j, k \in DOMAIN t : t[j] = t[k] => j = k
  BY <1>1, <1>2, <1>5
<1> QED
  BY <1>4, <1>6, Zenon DEF KeptOf, Fit, t, w

LEMMA FilterIsSound ==
    ASSUME NEW X, NEW c \in Seq(X), NEW table, NEW policy,
           \A i \in DOMAIN c : Canonical(c[i]) \in {c[i], Bad},
           \A i, j \in DOMAIN c : c[i] = c[j] => i = j
    PROVE  /\ FilterAvailable(c, table, policy) \in Seq({<<x>> : x \in X})
           /\ KeptOf(FilterAvailable(c, table, policy), Len(c), c, table, policy)
<1> DEFINE n == Len(c)
           Y == {<<x>> : x \in X}
           norm == [i \in DOMAIN c |-> Normalize(<<c[i]>>, "tenant")]
           Kept(x, i) == Len(x) < 3 /\ Free(norm[i], table, policy)
           G == [i \in 1..n |-> [x \in Seq(Y) |-> IF Kept(x, i) THEN Append(x, norm[i]) ELSE x]]
           Rec(f) == [i \in 0..n |-> IF i = 0 THEN <<>>
                                     ELSE IF Kept(f[i - 1], i) THEN Append(f[i - 1], norm[i])
                                     ELSE f[i - 1]]
           out == CHOOSE f : f = Rec(f)
<1>1. n \in Nat /\ DOMAIN c = 1..n
  OBVIOUS
<1>2. ASSUME NEW i \in 1..n, NEW x, Kept(x, i)
      PROVE  /\ norm[i] = <<c[i]>> /\ norm[i] \in Y
             /\ Free(norm[i], table, policy) /\ Normalize(norm[i], "tenant") = norm[i]
  <2>1. norm[i] = Normalize(<<c[i]>>, "tenant") /\ norm[i] # Invalid /\ c[i] \in X
    <3>1. Free(norm[i], table, policy)
      BY <1>2
    <3>2. norm[i] # Invalid
      <4> HIDE DEF norm
      <4> QED
        BY <3>1, Zenon DEF Free
    <3>3. i \in DOMAIN c
      BY <1>1
    <3>4. norm[i] = Normalize(<<c[i]>>, "tenant") /\ c[i] \in X
      BY <3>3
    <3> QED
      BY <3>2, <3>4
  <2>2. norm[i] = <<c[i]>>
    BY <1>1, <2>1, CandidateIsPlain
  <2> HIDE DEF norm
  <2> QED
    BY <1>2, <2>1, <2>2
<1> HIDE DEF n, norm, Y
<1>3. StepsOn(G, n, Seq(Y))
  <2> HIDE DEF Kept
  <2>1. \A i \in 1..n : G[i] \in [Seq(Y) -> Seq(Y)]
    <3> SUFFICES ASSUME NEW i \in 1..n
                 PROVE  [x \in Seq(Y) |-> IF Kept(x, i) THEN Append(x, norm[i]) ELSE x] \in [Seq(Y) -> Seq(Y)]
      OBVIOUS
    <3>1. \A x \in Seq(Y) : (IF Kept(x, i) THEN Append(x, norm[i]) ELSE x) \in Seq(Y)
      BY <1>2
    <3> QED
      BY <3>1
  <2>2. G = [i \in 1..n |-> G[i]]
    OBVIOUS
  <2> HIDE DEF G
  <2> QED
    BY <2>1, <2>2 DEF StepsOn
<1>4. \A i \in 1..n : \A x \in Seq(Y) : G[i][x] = IF Kept(x, i) THEN Append(x, norm[i]) ELSE x
  <2> HIDE DEF Kept
  <2> QED
    OBVIOUS
<1>5. PICK f : Iterates(f, n, Seq(Y), <<>>, G)
  <2> HIDE DEF G
  <2>1. <<>> \in Seq(Y)
    OBVIOUS
  <2> QED
    BY <1>1, <1>3, <2>1, IterationExists, Zenon
<1>6. f \in [0..n -> Seq(Y)] /\ f[0] = <<>> /\ \A i \in 1..n : f[i] = G[i][f[i - 1]]
  BY <1>5, Zenon DEF Iterates
<1> HIDE DEF G, Kept
<1>7. f = Rec(f)
  <2>1. \A i \in 1..n : f[i - 1] \in Seq(Y)
    BY <1>1, <1>6
  <2>2. \A i \in 1..n : f[i] = IF Kept(f[i - 1], i) THEN Append(f[i - 1], norm[i]) ELSE f[i - 1]
    BY <1>4, <1>6, <2>1
  <2>3. \A i \in 0..n : f[i] = IF i = 0 THEN <<>>
                               ELSE IF Kept(f[i - 1], i) THEN Append(f[i - 1], norm[i])
                               ELSE f[i - 1]
    <3> SUFFICES ASSUME NEW i \in 0..n
                 PROVE  f[i] = IF i = 0 THEN <<>>
                               ELSE IF Kept(f[i - 1], i) THEN Append(f[i - 1], norm[i])
                               ELSE f[i - 1]
      OBVIOUS
    <3>1. CASE i = 0
      BY <1>6, <3>1, Zenon
    <3>2. CASE i # 0
      <4>1. i \in 1..n
        BY <1>1, <3>2
      <4> QED
        BY <2>2, <3>2, <4>1, Zenon
    <3> QED
      BY <3>1, <3>2
  <2> QED
    BY <1>6, <2>3
<1>8. out = Rec(out)
  <2> HIDE DEF Rec
  <2> QED
    BY <1>7
<1> HIDE DEF out
<1>9. \A i \in 0..n : Rec(out)[i] = IF i = 0 THEN <<>>
                                    ELSE IF Kept(out[i - 1], i) THEN Append(out[i - 1], norm[i])
                                    ELSE out[i - 1]
  OBVIOUS
<1> HIDE DEF Rec
<1>10. \A i \in 0..n : out[i] = IF i = 0 THEN <<>>
                                ELSE IF Kept(out[i - 1], i) THEN Append(out[i - 1], norm[i])
                                ELSE out[i - 1]
  BY <1>8, <1>9
<1> DEFINE S == {m \in 0..n : out[m] \in Seq(Y) /\ KeptOf(out[m], m, c, table, policy)}
<1>11. 0 \in S
  <2>1. out[0] = <<>> /\ 0 \in 0..n
    BY <1>1, <1>10
  <2>2. KeptOf(<<>>, 0, c, table, policy)
    BY DEF KeptOf
  <2>3. out[0] \in Seq(Y) /\ KeptOf(out[0], 0, c, table, policy)
    BY <2>1, <2>2
  <2> QED
    BY <2>1, <2>3, Zenon
<1>12. ASSUME NEW m \in 1..n, m - 1 \in S PROVE m \in S
  <2>1. m \in 0..n /\ m # 0 /\ m \in Nat \ {0} /\ m \in DOMAIN c
    BY <1>1
  <2>2. out[m - 1] \in Seq(Y) /\ KeptOf(out[m - 1], m - 1, c, table, policy)
    BY <1>12
  <2>3. CASE Kept(out[m - 1], m)
    <3>1. /\ norm[m] = <<c[m]>> /\ norm[m] \in Y
          /\ Free(norm[m], table, policy) /\ Normalize(norm[m], "tenant") = norm[m]
      BY <1>2, <2>3
    <3>2. out[m] = Append(out[m - 1], <<c[m]>>)
      BY <1>10, <2>1, <2>3, <3>1
    <3>3. \A i \in 1..(m - 1) : <<c[i]>> # <<c[m]>>
      BY <1>1, <2>1
    <3>4. KeptOf(Append(out[m - 1], <<c[m]>>), m, c, table, policy)
      BY <2>1, <2>2, <3>1, <3>3, KeepsOneMore
    <3>5. Append(out[m - 1], <<c[m]>>) \in Seq(Y)
      BY <2>2, <3>1
    <3> QED
      BY <2>1, <3>2, <3>4, <3>5
  <2>4. CASE ~ Kept(out[m - 1], m)
    <3>1. out[m] = out[m - 1]
      BY <1>10, <2>1, <2>4
    <3>2. \A j \in DOMAIN out[m] : \E i \in 1..m : out[m][j] = <<c[i]>>
      <4> SUFFICES ASSUME NEW j \in DOMAIN out[m] PROVE \E i \in 1..m : out[m][j] = <<c[i]>>
        OBVIOUS
      <4>1. PICK i \in 1..(m - 1) : out[m][j] = <<c[i]>>
        BY <2>2, <3>1, Zenon DEF KeptOf
      <4>2. i \in 1..m
        OBVIOUS
      <4> QED
        BY <4>1, <4>2
    <3>3. KeptOf(out[m], m, c, table, policy)
      BY <2>2, <3>1, <3>2, Zenon DEF KeptOf
    <3> QED
      BY <2>1, <2>2, <3>1, <3>3
  <2> QED
    BY <2>3, <2>4
<1>13. n \in S
  <2> HIDE DEF S
  <2>1. 0..n \subseteq S
    BY <1>1, <1>11, <1>12, UpTo
  <2> QED
    BY <1>1, <2>1
<1>14. FilterAvailable(c, table, policy) = out[n]
  BY DEF FilterAvailable, out, Rec, Kept, norm, n
<1>15. out[n] \in Seq(Y) /\ KeptOf(out[n], n, c, table, policy)
  BY <1>13
<1> QED
  BY <1>14, <1>15 DEF n, Y

Suggestions(s, table, policy) ==
    /\ Len(s) = Cardinality(SeqSet(s))
    /\ \A t \in SeqSet(s) : ClaimReason(t, table, policy) = ""

LEMMA SuggestionsCanBeClaimed ==
    ASSUME NEW raw \in RawLabels, NEW table, NEW policy
    PROVE  Suggestions(Availability(raw, table, policy).suggestions, table, policy)
<1> DEFINE label == Normalize(raw, "tenant")
           c == Suggest(label)
           s == FilterAvailable(c, table, policy)
<1>1. ASSUME NEW X, NEW t \in Seq(X), NEW d, KeptOf(t, Len(d), d, table, policy)
      PROVE  Suggestions(t, table, policy)
  <2>1. Len(t) = Cardinality(SeqSet(t))
    <3>1. \A i, j \in DOMAIN t : t[i] = t[j] => i = j
      BY <1>1, Zenon DEF KeptOf
    <3> QED
      BY <3>1, DifferentElements
  <2>2. ASSUME NEW u \in SeqSet(t) PROVE ClaimReason(u, table, policy) = ""
    <3>1. Free(u, table, policy) /\ Normalize(u, "tenant") = u
      BY <1>1, <2>2, Zenon DEF KeptOf, SeqSet
    <3> QED
      BY <3>1 DEF ClaimReason, Free
  <2> QED
    BY <2>1, <2>2, Zenon DEF Suggestions
<1>2. Suggestions(<<>>, table, policy)
  <2>1. <<>> \in Seq({}) /\ KeptOf(<<>>, Len(<<>>), <<>>, table, policy)
    BY DEF KeptOf
  <2> QED
    BY <1>1, <2>1, Zenon
<1>3. Suggestions(s, table, policy)
  <2>1. \E X : c \in Seq(X)
    <3>1. CASE Len(label) # 1
      <4>1. c = <<>>
        BY <3>1 DEF Suggest
      <4>2. <<>> \in Seq({})
        OBVIOUS
      <4> HIDE DEF c
      <4> QED
        BY <4>1, <4>2
    <3>2. CASE Len(label) = 1
      <4>1. c = <<label[1] \o "-app", label[1] \o "-hq", label[1] \o "-team",
                  "get" \o label[1], label[1] \o "-2">>
        BY <3>2 DEF Suggest
      <4>2. ASSUME NEW t, NEW u, NEW v, NEW w, NEW x PROVE <<t, u, v, w, x>> \in Seq({t, u, v, w, x})
        OBVIOUS
      <4> HIDE DEF c, label
      <4>3. c \in Seq({label[1] \o "-app", label[1] \o "-hq", label[1] \o "-team",
                      "get" \o label[1], label[1] \o "-2"})
        BY <4>1, <4>2, Zenon
      <4> QED
        BY <4>3
    <3> QED
      BY <3>1, <3>2
  <2>2. PICK X : c \in Seq(X)
    BY <2>1
  <2>3. \A i \in DOMAIN c : /\ Canonical(c[i]) \in {c[i], Bad}
                            /\ \A j \in DOMAIN c : c[i] = c[j] => i = j
    BY SuggestAssumption, Zenon
  <2> HIDE DEF c
  <2>4. s \in Seq({<<x>> : x \in X}) /\ KeptOf(s, Len(c), c, table, policy)
    BY <2>2, <2>3, FilterIsSound
  <2> QED
    BY <1>1, <2>4, Zenon
<1>4. Availability(raw, table, policy).suggestions \in {<<>>, s}
  BY DEF Availability
<1> QED
  BY <1>2, <1>3, <1>4

LEMMA AnswersAgree ==
    ASSUME NEW raw \in RawLabels, NEW table, NEW policy
    PROVE  LET says == Availability(raw, table, policy)
               found == ClaimReason(raw, table, policy)
               label == Normalize(raw, "tenant")
           IN  /\ \/ says.reason = found
                  \/ label \in DOMAIN table /\ table[label].state = "released"
               /\ says.suggestions # <<>> => says.reason # ""
               /\ Len(says.suggestions) = Cardinality(SeqSet(says.suggestions))
               /\ \A s \in SeqSet(says.suggestions) : ClaimReason(s, table, policy) = ""
               /\ label # Invalid => Availability(label, table, policy) = says
               /\ \A kind \in {"tenant", "platform"} :
                     LET n == Normalize(raw, kind)
                     IN  n # Invalid => Normalize(n, kind) = n
<1> DEFINE says == Availability(raw, table, policy)
           label == Normalize(raw, "tenant")
<1>1. \A kind : Normalize(raw, kind) # Invalid => Normalize(Normalize(raw, kind), kind) = Normalize(raw, kind)
  BY LabelsAssumption, NormalizeTwice
<1>2. \/ says.reason = ClaimReason(raw, table, policy)
      \/ label \in DOMAIN table /\ table[label].state = "released"
  BY DEF Availability, ClaimReason
<1>3. says.suggestions # <<>> => says.reason # ""
  BY DEF Availability
<1>4. Suggestions(says.suggestions, table, policy)
  BY SuggestionsCanBeClaimed
<1>5. label # Invalid => Availability(label, table, policy) = says
  <2>1. label # Invalid => Normalize(label, "tenant") = label
    BY <1>1
  <2> HIDE DEF label
  <2> QED
    BY <2>1, Zenon DEF Availability, label
<1> HIDE DEF says, label
<1> QED
  BY <1>1, <1>2, <1>3, <1>4, <1>5, Zenon DEF Suggestions, says, label

-----------------------------------------------------------------------------
(* Files: the rows of the catalog bundle.                                    *)

LEMMA RowIs ==
    ASSUME NEW m, NEW e \in Rows(m)
    PROVE  \/ e = <<"application", "">> /\ CatalogBundle(m)[e].id = ApplicationID(m)
           \/ \E k \in DOMAIN m.services : e = <<"service", k>> /\ CatalogBundle(m)[e].id = ServiceID(m, k)
           \/ \E k \in DOMAIN m.services : e = <<"deployment", k>> /\ CatalogBundle(m)[e].id = DeploymentID(m, k)
           \/ \E k \in DOMAIN m.services :
                 /\ e = <<"capability", k>>
                 /\ CatalogBundle(m)[e].id = <<"capability", ServiceID(m, k), m.services[k].version>>
           \/ \E k \in DOMAIN m.resources :
                 /\ e = <<"resource", k>>
                 /\ CatalogBundle(m)[e].id = ResourceID(m, k) /\ CatalogBundle(m)[e].uses = Uses(m, k)
<1> DEFINE B == CatalogBundle(m)
<1>1. CASE e = <<"application", "">>
  <2>1. B[e].id = ApplicationID(m)
    BY <1>1 DEF CatalogBundle
  <2> QED
    BY <1>1, <2>1
<1>2. ASSUME NEW k \in DOMAIN m.services, e = <<"service", k>> PROVE B[e].id = ServiceID(m, k)
  BY <1>2 DEF CatalogBundle
<1>3. ASSUME NEW k \in DOMAIN m.services, e = <<"deployment", k>> PROVE B[e].id = DeploymentID(m, k)
  BY <1>3 DEF CatalogBundle
<1>4. ASSUME NEW k \in DOMAIN m.services, e = <<"capability", k>>
      PROVE  B[e].id = <<"capability", ServiceID(m, k), m.services[k].version>>
  BY <1>4 DEF CatalogBundle
<1>5. ASSUME NEW k \in DOMAIN m.resources, e = <<"resource", k>>
      PROVE  B[e].id = ResourceID(m, k) /\ B[e].uses = Uses(m, k)
  BY <1>5 DEF CatalogBundle
<1>6. \/ e = <<"application", "">>
      \/ \E k \in DOMAIN m.services : e = <<"service", k>> \/ e = <<"deployment", k>> \/ e = <<"capability", k>>
      \/ \E k \in DOMAIN m.resources : e = <<"resource", k>>
  <2>1. \/ e = <<"application", "">>
        \/ e \in {"service", "deployment"} \X DOMAIN m.services
        \/ e \in {"capability"} \X {k \in DOMAIN m.services : m.services[k].version # ""}
        \/ e \in {"resource"} \X DOMAIN m.resources
    BY Zenon DEF Rows
  <2>2. CASE e \in {"service", "deployment"} \X DOMAIN m.services
    <3>1. e = <<e[1], e[2]>> /\ e[1] \in {"service", "deployment"} /\ e[2] \in DOMAIN m.services
      BY <2>2
    <3> QED
      BY <3>1, Zenon
  <2>3. CASE e \in {"capability"} \X {k \in DOMAIN m.services : m.services[k].version # ""}
    <3> DEFINE D == {k \in DOMAIN m.services : m.services[k].version # ""}
    <3>2. D \subseteq DOMAIN m.services
      OBVIOUS
    <3> HIDE DEF D
    <3>3. e \in {"capability"} \X D
      BY <2>3 DEF D
    <3>4. e = <<e[1], e[2]>> /\ e[1] = "capability" /\ e[2] \in D
      BY <3>3
    <3>1. e = <<e[1], e[2]>> /\ e[1] = "capability" /\ e[2] \in DOMAIN m.services
      BY <3>2, <3>4
    <3> QED
      BY <3>1, Zenon
  <2>4. CASE e \in {"resource"} \X DOMAIN m.resources
    <3>1. e = <<e[1], e[2]>> /\ e[1] = "resource" /\ e[2] \in DOMAIN m.resources
      BY <2>4
    <3> QED
      BY <3>1, Zenon
  <2> QED
    BY <2>1, <2>2, <2>3, <2>4
<1> HIDE DEF B
<1>7. \/ e = <<"application", "">> /\ B[e].id = ApplicationID(m)
      \/ \E k \in DOMAIN m.services : e = <<"service", k>> /\ B[e].id = ServiceID(m, k)
      \/ \E k \in DOMAIN m.services : e = <<"deployment", k>> /\ B[e].id = DeploymentID(m, k)
      \/ \E k \in DOMAIN m.services :
            e = <<"capability", k>> /\ B[e].id = <<"capability", ServiceID(m, k), m.services[k].version>>
      \/ \E k \in DOMAIN m.resources :
            e = <<"resource", k>> /\ B[e].id = ResourceID(m, k) /\ B[e].uses = Uses(m, k)
  BY <1>1, <1>2, <1>3, <1>4, <1>5, <1>6, Zenon DEF B
<1> QED
  BY <1>7, Zenon DEF B

LEMMA TupleLengths ==
    /\ \A a : Len(<<a>>) = 1
    /\ \A a, b : Len(<<a, b>>) = 2
    /\ \A a, b, c : Len(<<a, b, c>>) = 3
    /\ \A a, b, c, d, e : Len(<<a, b, c, d, e>>) = 5
    /\ \A a, b, c, d, e, f : Len(<<a, b, c, d, e, f>>) = 6
OBVIOUS

\* The lengths tell the kinds of derived ids apart, and the fifth part is the workspace.
IdShape(m, e, id) ==
    /\ Len(id) \in {1, 2, 3, 5, 6}
    /\ e[1] \in {"deployment", "resource"} => Len(id) \in {1, 5, 6}
    /\ Len(id) \in {5, 6} => id[5] = m.workspace

LEMMA IdsHaveShape ==
    ASSUME NEW m, NEW e \in Rows(m)
    PROVE  IdShape(m, e, CatalogBundle(m)[e].id)
<1> DEFINE id == CatalogBundle(m)[e].id
<1>1. CASE e = <<"application", "">> /\ id = ApplicationID(m)
  <2>1. id = <<m.appId>> \/ id = <<"app", m.project>>
    BY <1>1, Zenon DEF ApplicationID, Stated
  <2>2. e[1] = "application"
    BY <1>1
  <2> HIDE DEF id
  <2>3. IdShape(m, e, id)
    BY <2>1, <2>2 DEF IdShape
  <2> QED
    BY <2>3 DEF id
<1>2. ASSUME NEW k, e = <<"service", k>>, id = ServiceID(m, k) PROVE IdShape(m, e, id)
  <2>1. id = <<m.services[k].id>> \/ id = <<"service", ApplicationID(m), k>>
    BY <1>2, Zenon DEF ServiceID, Stated
  <2>2. e[1] = "service"
    BY <1>2
  <2> HIDE DEF id
  <2> QED
    BY <2>1, <2>2 DEF IdShape
<1>3. ASSUME NEW k, e = <<"capability", k>>, id = <<"capability", ServiceID(m, k), m.services[k].version>>
      PROVE  IdShape(m, e, id)
  <2>1. e[1] = "capability"
    BY <1>3
  <2> HIDE DEF id
  <2> QED
    BY <1>3, <2>1 DEF IdShape
<1>4. ASSUME NEW k, e = <<"deployment", k>>, id = DeploymentID(m, k) PROVE IdShape(m, e, id)
  <2>1. \/ id = <<m.services[k].deployment>>
        \/ id = <<"deployment", ApplicationID(m), ServiceID(m, k), Environment(m), m.workspace, m.zone>>
    BY <1>4, Zenon DEF DeploymentID, Stated
  <2>2. e[1] = "deployment"
    BY <1>4
  <2> HIDE DEF id
  <2> QED
    BY <2>1, <2>2 DEF IdShape
<1>5. ASSUME NEW k, e = <<"resource", k>>, id = ResourceID(m, k) PROVE IdShape(m, e, id)
  <2>1. \/ id = <<m.resources[k].id>>
        \/ id = <<"resource", ApplicationID(m), k, Environment(m), m.workspace>>
    BY <1>5, Zenon DEF ResourceID, Stated
  <2>2. e[1] = "resource"
    BY <1>5
  <2> HIDE DEF id
  <2> QED
    BY <2>1, <2>2 DEF IdShape
<1> HIDE DEF id
<1>6. \/ e = <<"application", "">> /\ id = ApplicationID(m)
      \/ \E k \in DOMAIN m.services : e = <<"service", k>> /\ id = ServiceID(m, k)
      \/ \E k \in DOMAIN m.services : e = <<"deployment", k>> /\ id = DeploymentID(m, k)
      \/ \E k \in DOMAIN m.services :
            e = <<"capability", k>> /\ id = <<"capability", ServiceID(m, k), m.services[k].version>>
      \/ \E k \in DOMAIN m.resources : e = <<"resource", k>> /\ id = ResourceID(m, k)
  BY RowIs, Zenon DEF id
<1>7. IdShape(m, e, id)
  BY <1>1, <1>2, <1>3, <1>4, <1>5, <1>6, Zenon DEF id
<1> QED
  BY <1>7 DEF id

LEMMA WorkspacesAreApart ==
    ASSUME NEW m, m \in File(m)
    PROVE  WorkspacesApart(m)
<1> DEFINE n == [m EXCEPT !.workspace = IF m.workspace = "" THEN "other" ELSE ""]
           B == CatalogBundle(m)
           C == CatalogBundle(n)
<1>1. /\ n.workspace # m.workspace /\ n.project = m.project
      /\ n.workspace = "" <=> m.workspace # ""
  BY DEF File
<1> HIDE DEF n
<1>2. ASSUME NEW j, NEW k PROVE OwnerRef(m, j) # OwnerRef(n, k)
  <2>1. OwnerRef(m, j)[1] = RoutingProject(m) /\ OwnerRef(n, k)[1] = RoutingProject(n)
    BY DEF OwnerRef
  <2>2. CASE m.workspace = ""
    <3>1. RoutingProject(m) = <<m.project>> /\ RoutingProject(n) = <<n.project, n.workspace>>
      BY <1>1, <2>2, Zenon DEF RoutingProject
    <3>2. Len(RoutingProject(m)) = 1 /\ Len(RoutingProject(n)) = 2
      BY <3>1
    <3> QED
      BY <2>1, <3>2
  <2>3. CASE m.workspace # ""
    <3>1. RoutingProject(n) = <<n.project>> /\ RoutingProject(m) = <<m.project, m.workspace>>
      BY <1>1, <2>3, Zenon DEF RoutingProject
    <3>2. Len(RoutingProject(n)) = 1 /\ Len(RoutingProject(m)) = 2
      BY <3>1
    <3> QED
      BY <2>1, <3>2
  <2> QED
    BY <2>2, <2>3
<1>3. ASSUME NEW e \in DOMAIN B, NEW f \in DOMAIN C, e[1] \in {"deployment", "resource"}, B[e].id = C[f].id
      PROVE  Len(B[e].id) = 1
  <2>1. e \in Rows(m) /\ f \in Rows(n)
    BY DEF CatalogBundle
  <2>2. IdShape(m, e, B[e].id) /\ IdShape(n, f, C[f].id)
    BY <2>1, IdsHaveShape
  <2> HIDE DEF B, C
  <2>3. Len(B[e].id) \in {1, 5, 6}
    BY <1>3, <2>2, Zenon DEF IdShape
  <2>4. Len(B[e].id) \in {5, 6} => B[e].id[5] = m.workspace
    BY <2>2, Zenon DEF IdShape
  <2>5. Len(C[f].id) \in {5, 6} => C[f].id[5] = n.workspace
    BY <2>2, Zenon DEF IdShape
  <2>6. ~ Len(B[e].id) \in {5, 6}
    BY <1>1, <1>3, <2>4, <2>5
  <2> QED
    BY <2>3, <2>6
<1> QED
  BY <1>2, <1>3, Zenon DEF WorkspacesApart, n

-----------------------------------------------------------------------------
NothingStated(m) ==
    /\ \A k \in DOMAIN m.services : m.services[k].id = "" /\ m.services[k].deployment = ""
    /\ \A k \in DOMAIN m.resources : m.resources[k].id = "" /\ m.resources[k].uses \subseteq DOMAIN m.services

\* The row an id is of.
RowOf(id) ==
    IF Len(id) \in {1, 2} THEN <<"application", "">>
    ELSE IF Len(id) = 5 THEN <<"resource", id[3]>>
    ELSE IF Len(id) = 6 THEN <<"deployment", id[3][3]>>
    ELSE IF id[1] = "service" THEN <<"service", id[3]>>
    ELSE <<"capability", id[2][3]>>

LEMMA IdTellsRow ==
    ASSUME NEW m, NothingStated(m), NEW e \in Rows(m)
    PROVE  e = RowOf(CatalogBundle(m)[e].id)
<1> DEFINE id == CatalogBundle(m)[e].id
<1>1. \A k \in DOMAIN m.services : ServiceID(m, k) = <<"service", ApplicationID(m), k>>
  BY Zenon DEF ServiceID, Stated, NothingStated
<1>2. CASE e = <<"application", "">> /\ id = ApplicationID(m)
  <2>1. id = <<m.appId>> \/ id = <<"app", m.project>>
    BY <1>2, Zenon DEF ApplicationID, Stated
  <2> HIDE DEF id
  <2>2. Len(id) \in {1, 2}
    BY <2>1
  <2>3. e = RowOf(id)
    BY <1>2, <2>2 DEF RowOf
  <2> QED
    BY <2>3 DEF id
<1>3. ASSUME NEW k \in DOMAIN m.services, e = <<"service", k>>, id = ServiceID(m, k) PROVE e = RowOf(id)
  <2>1. id = <<"service", ApplicationID(m), k>>
    BY <1>1, <1>3, Zenon
  <2> HIDE DEF id
  <2>2. Len(id) = 3 /\ id[1] = "service" /\ id[3] = k
    BY <2>1
  <2> QED
    BY <1>3, <2>2 DEF RowOf
<1>4. ASSUME NEW k \in DOMAIN m.services, e = <<"capability", k>>,
             id = <<"capability", ServiceID(m, k), m.services[k].version>>
      PROVE  e = RowOf(id)
  <2>1. ServiceID(m, k)[3] = k
    BY <1>1
  <2> HIDE DEF id
  <2>2. Len(id) = 3 /\ id[1] = "capability" /\ id[2] = ServiceID(m, k)
    BY <1>4
  <2> QED
    BY <1>4, <2>1, <2>2 DEF RowOf
<1>5. ASSUME NEW k \in DOMAIN m.services, e = <<"deployment", k>>, id = DeploymentID(m, k) PROVE e = RowOf(id)
  <2>1. id = <<"deployment", ApplicationID(m), ServiceID(m, k), Environment(m), m.workspace, m.zone>>
    BY <1>5, Zenon DEF DeploymentID, Stated, NothingStated
  <2>2. ServiceID(m, k)[3] = k
    BY <1>1
  <2> HIDE DEF id
  <2>3. Len(id) = 6 /\ id[3] = ServiceID(m, k)
    BY <2>1
  <2> QED
    BY <1>5, <2>2, <2>3 DEF RowOf
<1>6. ASSUME NEW k \in DOMAIN m.resources, e = <<"resource", k>>, id = ResourceID(m, k) PROVE e = RowOf(id)
  <2>1. id = <<"resource", ApplicationID(m), k, Environment(m), m.workspace>>
    BY <1>6, Zenon DEF ResourceID, Stated, NothingStated
  <2> HIDE DEF id
  <2>2. Len(id) = 5 /\ id[3] = k
    BY <2>1
  <2> QED
    BY <1>6, <2>2 DEF RowOf
<1> HIDE DEF id
<1>7. \/ e = <<"application", "">> /\ id = ApplicationID(m)
      \/ \E k \in DOMAIN m.services : e = <<"service", k>> /\ id = ServiceID(m, k)
      \/ \E k \in DOMAIN m.services : e = <<"deployment", k>> /\ id = DeploymentID(m, k)
      \/ \E k \in DOMAIN m.services :
            e = <<"capability", k>> /\ id = <<"capability", ServiceID(m, k), m.services[k].version>>
      \/ \E k \in DOMAIN m.resources : e = <<"resource", k>> /\ id = ResourceID(m, k)
  BY RowIs, Zenon DEF id
<1>8. e = RowOf(id)
  BY <1>2, <1>3, <1>4, <1>5, <1>6, <1>7, Zenon DEF id
<1> QED
  BY <1>8 DEF id

LEMMA BundleIsValid ==
    ASSUME NEW m, NothingStated(m)
    PROVE  ValidBundle(CatalogBundle(m))
<1> DEFINE B == CatalogBundle(m)
<1>1. DOMAIN B = Rows(m)
  BY DEF CatalogBundle
<1>2. \A e \in Rows(m) : e = RowOf(B[e].id)
  BY IdTellsRow
<1>3. \A e, f \in Rows(m) : B[e].id = B[f].id => e = f
  <2> HIDE DEF B
  <2> QED
    BY <1>2, Zenon
<1>4. ASSUME NEW e \in Rows(m), e[1] = "resource"
      PROVE  B[e].uses \subseteq {B[f].id : f \in {g \in Rows(m) : g[1] = "service"}}
  <2>1. PICK k \in DOMAIN m.resources : e = <<"resource", k>> /\ B[e].uses = Uses(m, k)
    <3>1. \A k : <<"service", k>>[1] # "resource" /\ <<"deployment", k>>[1] # "resource"
                 /\ <<"capability", k>>[1] # "resource" /\ <<"application", k>>[1] # "resource"
      OBVIOUS
    <3> QED
      BY <1>4, <3>1, RowIs, Zenon
  <2>2. ASSUME NEW u \in m.resources[k].uses
        PROVE  ServiceID(m, u) \in {B[f].id : f \in {g \in Rows(m) : g[1] = "service"}}
    <3> DEFINE g == <<"service", u>>
    <3>1. u \in DOMAIN m.services
      BY DEF NothingStated
    <3>2. g \in Rows(m) /\ g[1] = "service"
      BY <3>1 DEF Rows
    <3>3. B[g].id = ServiceID(m, u)
      BY <3>2 DEF CatalogBundle
    <3> HIDE DEF g, B
    <3> QED
      BY <3>2, <3>3
  <2>3. \A t \in Uses(m, k) : \E u \in m.resources[k].uses : t = ServiceID(m, u)
    BY DEF Uses, NothingStated
  <2> HIDE DEF B
  <2> QED
    BY <2>1, <2>2, <2>3
<1> HIDE DEF B
<1> QED
  BY <1>1, <1>3, <1>4, Zenon DEF ValidBundle, B

-----------------------------------------------------------------------------
(* What the proxy answers.                                                   *)

\* The routes of a service that answer on a port.
Answers(routes, i, port) == routes[i].listen = port \/ (routes[i].listen = 0 /\ port \in DefaultPorts)

LEMMA RouteForAnswers ==
    ASSUME NEW routes, NEW n \in Nat, DOMAIN routes = 1..n, NEW port
    PROVE  \/ RouteFor(routes, port) = NoRoute /\ \A i \in DOMAIN routes : ~ Answers(routes, i, port)
           \/ RouteFor(routes, port) \in DOMAIN routes /\ Answers(routes, RouteFor(routes, port), port)
<1> DEFINE named   == {i \in DOMAIN routes : routes[i].listen = port}
           default == {i \in DOMAIN routes : routes[i].listen = 0 /\ port \in DefaultPorts}
           least == CHOOSE i \in named : \A j \in named : i <= j
           last == CHOOSE i \in default : \A j \in default : j <= i
<1>1. RouteFor(routes, port) = IF named # {} THEN least ELSE IF default # {} THEN last ELSE NoRoute
  BY Zenon DEF RouteFor
<1>2. named \in SUBSET Nat /\ default \in SUBSET (0..n)
  OBVIOUS
<1>3. CASE named # {}
  <2>1. \E i \in named : \A j \in named : i <= j
    <3> HIDE DEF named
    <3> QED
      BY <1>2, <1>3, LeastExists
  <2>2. least \in named
    <3> HIDE DEF named
    <3> QED
      BY <2>1
  <2> HIDE DEF least
  <2>3. RouteFor(routes, port) = least
    BY <1>1, <1>3
  <2> QED
    BY <2>2, <2>3 DEF Answers
<1>4. CASE named = {} /\ default # {}
  <2>1. last \in default
    <3> HIDE DEF default
    <3>1. Greatest(default) \in default
      BY <1>2, <1>4, GreatestExists
    <3> QED
      BY <3>1, Zenon DEF Greatest
  <2> HIDE DEF last
  <2>2. RouteFor(routes, port) = last
    BY <1>1, <1>4
  <2> QED
    BY <2>1, <2>2 DEF Answers
<1>5. CASE named = {} /\ default = {}
  BY <1>1, <1>5 DEF Answers
<1> QED
  BY <1>3, <1>4, <1>5

\* A backend that is up but for what the fields of the file need.
UpFor(backend, f, has) ==
    /\ backend # Unfilled
    /\ UpstreamFor(backend, has) # "unknown host"
    /\ UpstreamFor(backend, has) = Down => ~ Needs(f) \subseteq has

LEMMA FilledIsUp ==
    ASSUME NEW f, NEW has
    PROVE  /\ "docker" \in f => UpFor(Filled("docker", ""), f, has)
           /\ UpFor(Filled("address", "given"), f, has)
           /\ "supervised" \in f => UpFor(Filled("supervised", ""), f, has)
           /\ UpFor(Filled("address", "@local"), f, has)
<1>1. ASSUME "docker" \in f PROVE UpFor(Filled("docker", ""), f, has)
  <2>1. "docker" \in Needs(f)
    BY <1>1 DEF Needs
  <2>2. UpstreamFor(Filled("docker", ""), has) = IF "docker" \in has THEN "Ensure(relay)" ELSE Down
    BY DEF UpstreamFor, Filled
  <2>3. Filled("docker", "") # Unfilled
    BY DEF Filled, Unfilled
  <2> QED
    BY <2>1, <2>2, <2>3 DEF Down, UpFor
<1>2. UpFor(Filled("address", "given"), f, has)
  <2>1. UpstreamFor(Filled("address", "given"), has) = "given"
    BY DEF UpstreamFor, Filled
  <2>2. Filled("address", "given") # Unfilled
    BY DEF Filled, Unfilled
  <2> QED
    BY <2>1, <2>2 DEF Down, UpFor
<1>3. ASSUME "supervised" \in f PROVE UpFor(Filled("supervised", ""), f, has)
  <2>1. "starter" \in Needs(f)
    BY <1>3 DEF Needs
  <2>2. UpstreamFor(Filled("supervised", ""), has) = IF "starter" \in has THEN "Ensure(process)" ELSE Down
    BY DEF UpstreamFor, Filled
  <2>3. Filled("supervised", "") # Unfilled
    BY DEF Filled, Unfilled
  <2> QED
    BY <2>1, <2>2, <2>3 DEF Down, UpFor
<1>4. UpFor(Filled("address", "@local"), f, has)
  <2>1. UpstreamFor(Filled("address", "@local"), has) \in {"host.docker.internal", "127.0.0.1"}
    BY DEF UpstreamFor, Filled, LocalBackendHost
  <2>2. Filled("address", "@local") # Unfilled
    BY DEF Filled, Unfilled
  <2> QED
    BY <2>1, <2>2 DEF Down, UpFor
<1> QED
  BY <1>1, <1>2, <1>3, <1>4

\* A backend with something to serve from is up but for what it needs.
LEMMA ServesFromFilled ==
    ASSUME NEW b, b.fields \in SUBSET Backends, b.fields # {}, b.refused \in BOOLEAN,
           ~ NoUpstream(b), NEW has
    PROVE  UpFor(BackendFrom(b.fields, b.refused), b.fields, has)
<1> DEFINE f == b.fields
           from == BackendFrom(f, b.refused)
<1>1. "bad_address" \notin f /\ (f = {"port_pool"} => ~ b.refused)
  BY Zenon DEF NoUpstream
<1>2. CASE "docker" \in f
  <2>1. from = Filled("docker", "")
    BY <1>2, Zenon DEF BackendFrom
  <2> QED
    BY <1>2, <2>1, FilledIsUp, Zenon
<1>3. CASE "docker" \notin f /\ "address" \in f
  <2>1. from = Filled("address", "given")
    BY <1>1, <1>3, Zenon DEF BackendFrom
  <2> QED
    BY <2>1, FilledIsUp, Zenon
<1>4. CASE "docker" \notin f /\ "address" \notin f /\ "supervised" \in f
  <2>1. from = Filled("supervised", "")
    BY <1>1, <1>4, Zenon DEF BackendFrom
  <2> QED
    BY <1>4, <2>1, FilledIsUp, Zenon
<1>5. CASE "docker" \notin f /\ "address" \notin f /\ "supervised" \notin f
  <2>1. "bad_address" \notin f
    BY <1>1, Zenon
  <2>2. f = {"port_pool"}
    <3> HIDE DEF from
    <3> QED
      BY <1>5, <2>1 DEF Backends
  <2>3. from = Filled("address", "@local")
    BY <1>1, <1>5, <2>2, Zenon DEF BackendFrom
  <2> QED
    BY <2>3, FilledIsUp, Zenon
<1> QED
  BY <1>2, <1>3, <1>4, <1>5, Zenon

LEMMA FilledCounts == ASSUME NEW f, NEW others, CountOf(f, others) = 1 PROVE f # {}
<1> SUFFICES ASSUME f = {} PROVE FALSE
  OBVIOUS
<1>1. {} \ {"port_pool"} = {} /\ (IF "port_pool" \in {} /\ {} \cap others = {} THEN 1 ELSE 0) = 0
  OBVIOUS
<1>2. CountOf({}, others) = Cardinality({}) + 0
  BY <1>1, Zenon DEF CountOf
<1>3. CountOf({}, others) = 0
  BY <1>2, FS_EmptySet
<1>4. CountOf({}, others) = 1
  OBVIOUS
<1> HIDE DEF CountOf
<1> QED
  BY <1>3, <1>4

\* Nothing else is filled in beside an address that is.
LEMMA OneFilled ==
    ASSUME NEW f \in SUBSET Backends, NEW others, CountOf(f, others) = 1,
           "bad_address" \in f, "docker" \in f
    PROVE  FALSE
<1> DEFINE g == f \ {"port_pool"}
           h == g \ {"docker"}
<1>1. IsFiniteSet(Backends)
  <2>1. IsFiniteSet({} \cup {"address"})
    BY FS_EmptySet, FS_AddElement
  <2>2. IsFiniteSet(({} \cup {"address"}) \cup {"bad_address"})
    BY <2>1, FS_AddElement
  <2>3. IsFiniteSet((({} \cup {"address"}) \cup {"bad_address"}) \cup {"port_pool"})
    BY <2>2, FS_AddElement
  <2>4. IsFiniteSet(((({} \cup {"address"}) \cup {"bad_address"}) \cup {"port_pool"}) \cup {"supervised"})
    BY <2>3, FS_AddElement
  <2>5. IsFiniteSet((((({} \cup {"address"}) \cup {"bad_address"}) \cup {"port_pool"}) \cup {"supervised"}) \cup {"docker"})
    BY <2>4, FS_AddElement
  <2>6. Backends = (((({} \cup {"address"}) \cup {"bad_address"}) \cup {"port_pool"}) \cup {"supervised"}) \cup {"docker"}
    BY DEF Backends
  <2> QED
    BY <2>5, <2>6
<1>2. IsFiniteSet(g) /\ IsFiniteSet(h) /\ "docker" \in g /\ "bad_address" \in h
  BY <1>1, FS_Subset
<1>3. Cardinality(h) = Cardinality(g) - 1 /\ Cardinality(g) \in Nat /\ Cardinality(h) \in Nat
  BY <1>2, FS_RemoveElement, FS_CardinalityType
<1>4. Cardinality(h) # 0
  <2> HIDE DEF h
  <2> QED
    BY <1>2, FS_EmptySet
<1>5. Cardinality(g) + (IF "port_pool" \in f /\ f \cap others = {} THEN 1 ELSE 0) = 1
  BY Zenon DEF CountOf
<1> HIDE DEF g, h
<1> QED
  BY <1>3, <1>4, <1>5

\* A backend with one thing filled in fails if there is nothing to serve from.
LEMMA FailsWithoutUpstream ==
    ASSUME NEW f \in SUBSET Backends, NEW others, CountOf(f, others) = 1, NEW r,
           "bad_address" \in f \/ (f = {"port_pool"} /\ r = TRUE)
    PROVE  BackendFrom(f, r) = Unfilled
<1>1. CASE "bad_address" \in f
  <2>1. "docker" \notin f
    BY <1>1, OneFilled
  <2> QED
    BY <1>1, <2>1 DEF BackendFrom
<1>2. CASE f = {"port_pool"} /\ r = TRUE
  <2>1. BackendFrom({"port_pool"}, TRUE) = Unfilled
    BY DEF BackendFrom
  <2> QED
    BY <1>2, <2>1
<1> QED
  BY <1>1, <1>2

Fields(svc) == {svc.backend} \cup {svc.routes[i].backend : i \in DOMAIN svc.routes}

\* A backend of the file that Parse accepts: one thing is filled in.
Single(b) ==
    /\ b.fields \in SUBSET Backends /\ b.refused \in BOOLEAN
    /\ b.fields # {} /\ \E others : CountOf(b.fields, others) = 1

LEMMA BackendsAreSingle ==
    ASSUME NEW svc \in Service, OneBackend(svc), NEW b \in BackendsOf(svc)
    PROVE  Single(b) /\ b.fields \in Fields(svc)
<1>0. svc.routes \in Seq(RouteSpec) /\ svc.backend \in SUBSET Backends
  BY DEF Service
<1>1. CASE svc.routes # <<>>
  <2>1. PICK i \in DOMAIN svc.routes : b = [fields |-> svc.routes[i].backend, refused |-> i \in svc.refused]
    BY <1>1, Zenon DEF BackendsOf
  <2>2. svc.routes[i] \in RouteSpec
    BY <1>0
  <2>3. b.fields = svc.routes[i].backend /\ b.refused \in BOOLEAN
    BY <2>1
  <2>4. b.fields \in SUBSET Backends /\ b.fields \in Fields(svc)
    BY <2>2, <2>3 DEF RouteSpec, Fields
  <2>5. CountOf(b.fields, Addresses \cup {"supervised", "docker"}) = 1
    BY <1>1, <2>3, Zenon DEF OneBackend
  <2> QED
    BY <2>3, <2>4, <2>5, FilledCounts, Zenon DEF Single
<1>2. CASE svc.routes = <<>>
  <2>1. b = [fields |-> svc.backend, refused |-> 0 \in svc.refused]
    BY <1>2, Zenon DEF BackendsOf
  <2>2. b.fields = svc.backend /\ b.refused \in BOOLEAN
    BY <2>1
  <2>3. CountOf(b.fields, Addresses \cup {"supervised"}) = 1
    BY <1>2, <2>2, Zenon DEF OneBackend
  <2>4. b.fields \in Fields(svc)
    BY <2>2 DEF Fields
  <2> QED
    BY <1>0, <2>2, <2>3, <2>4, FilledCounts, Zenon DEF Single
<1> QED
  BY <1>1, <1>2

\* The routes of a service have each a backend of the file, every backend is that of a
\* route, and they listen on the ports declared.
LEMMA RoutesAreFilled ==
    ASSUME NEW svc \in Service
    PROVE  \E n \in Nat :
              /\ DOMAIN RoutesOf(svc) = 1..n
              /\ \A i \in 1..n : \E b \in BackendsOf(svc) :
                    RoutesOf(svc)[i].backend = BackendFrom(b.fields, b.refused)
              /\ \A b \in BackendsOf(svc) : \E i \in 1..n :
                    RoutesOf(svc)[i].backend = BackendFrom(b.fields, b.refused)
              /\ PortsOf(svc) = LET listens == {RoutesOf(svc)[i].listen : i \in DOMAIN RoutesOf(svc)}
                                IN  (listens \ {0}) \cup (IF 0 \in listens THEN DefaultPorts ELSE {})
<1>0. svc.routes \in Seq(RouteSpec) /\ svc.listen \in Seq(Int)
  BY DEF Service
<1>1. CASE svc.routes # <<>>
  <2> DEFINE Of(i) == [fields |-> svc.routes[i].backend, refused |-> i \in svc.refused]
  <2>1. RoutesOf(svc) = [i \in DOMAIN svc.routes |->
                           [listen |-> svc.routes[i].listen,
                            backend |-> BackendFrom(svc.routes[i].backend, i \in svc.refused)]]
    BY <1>1 DEF RoutesOf
  <2>2. DOMAIN RoutesOf(svc) = 1..Len(svc.routes) /\ Len(svc.routes) \in Nat /\ DOMAIN svc.routes = 1..Len(svc.routes)
    BY <1>0, <2>1
  <2>3. \A i \in 1..Len(svc.routes) :
           RoutesOf(svc)[i].backend = BackendFrom(Of(i).fields, Of(i).refused)
    BY <2>1, <2>2
  <2>4. BackendsOf(svc) = {Of(i) : i \in 1..Len(svc.routes)}
    BY <1>1, <2>2, Zenon DEF BackendsOf
  <2>5. {RoutesOf(svc)[i].listen : i \in DOMAIN RoutesOf(svc)} = {svc.routes[i].listen : i \in DOMAIN svc.routes}
    BY <2>1, <2>2
  <2>6. PortsOf(svc) = LET listens == {RoutesOf(svc)[i].listen : i \in DOMAIN RoutesOf(svc)}
                       IN  (listens \ {0}) \cup (IF 0 \in listens THEN DefaultPorts ELSE {})
    BY <1>1, <2>5, Zenon DEF PortsOf
  <2> HIDE DEF Of
  <2>7. /\ \A i \in 1..Len(svc.routes) : \E b \in BackendsOf(svc) :
              RoutesOf(svc)[i].backend = BackendFrom(b.fields, b.refused)
        /\ \A b \in BackendsOf(svc) : \E i \in 1..Len(svc.routes) :
              RoutesOf(svc)[i].backend = BackendFrom(b.fields, b.refused)
    BY <2>3, <2>4
  <2> QED
    BY <2>2, <2>6, <2>7, Zenon
<1>2. CASE svc.routes = <<>>
  <2> DEFINE only == [fields |-> svc.backend, refused |-> 0 \in svc.refused]
  <2>1. RoutesOf(svc) = [i \in DOMAIN Listens(svc) |->
                           [listen |-> Listens(svc)[i],
                            backend |-> BackendFrom(svc.backend, 0 \in svc.refused)]]
    BY <1>2 DEF RoutesOf
  <2>2. Listens(svc) \in Seq(Int) /\ Len(Listens(svc)) # 0
    BY <1>0 DEF Listens
  <2>3. DOMAIN RoutesOf(svc) = 1..Len(Listens(svc)) /\ Len(Listens(svc)) \in Nat /\ DOMAIN Listens(svc) = 1..Len(Listens(svc))
    BY <2>1, <2>2
  <2>4. BackendsOf(svc) = {only}
    BY <1>2, Zenon DEF BackendsOf
  <2>5. \A i \in 1..Len(Listens(svc)) : RoutesOf(svc)[i].backend = BackendFrom(only.fields, only.refused)
    BY <2>1, <2>3
  <2>6. {RoutesOf(svc)[i].listen : i \in DOMAIN RoutesOf(svc)} = SeqSet(Listens(svc))
    BY <2>1, <2>3 DEF SeqSet
  <2>7. PortsOf(svc) = LET listens == {RoutesOf(svc)[i].listen : i \in DOMAIN RoutesOf(svc)}
                       IN  (listens \ {0}) \cup (IF 0 \in listens THEN DefaultPorts ELSE {})
    BY <1>2, <2>6, Zenon DEF PortsOf
  <2>8. 1 \in 1..Len(Listens(svc))
    BY <2>2, <2>3
  <2> HIDE DEF only
  <2>9. /\ \A i \in 1..Len(Listens(svc)) : \E b \in BackendsOf(svc) :
              RoutesOf(svc)[i].backend = BackendFrom(b.fields, b.refused)
        /\ \A b \in BackendsOf(svc) : \E i \in 1..Len(Listens(svc)) :
              RoutesOf(svc)[i].backend = BackendFrom(b.fields, b.refused)
    BY <2>4, <2>5, <2>8
  <2> QED
    BY <2>3, <2>7, <2>9, Zenon
<1> QED
  BY <1>1, <1>2

\* What a route table of filled backends answers on a port.
AnswersAsDeclared(r, port, has, declared, fields) ==
    /\ (Serve(r, port, has) = "unknown host") = (port \notin declared)
    /\ Serve(r, port, has) = Down => \E f \in fields : ~ Needs(f) \subseteq has

LEMMA TableAnswers ==
    ASSUME NEW r, NEW n \in Nat, DOMAIN r = 1..n, NEW port, NEW has, NEW declared, NEW fields,
           port \in declared <=> \E i \in DOMAIN r : Answers(r, i, port),
           \A i \in 1..n : \E b : /\ Single(b) /\ ~ NoUpstream(b) /\ b.fields \in fields
                                  /\ r[i].backend = BackendFrom(b.fields, b.refused)
    PROVE  AnswersAsDeclared(r, port, has, declared, fields)
<1>1. CASE RouteFor(r, port) = NoRoute /\ \A i \in DOMAIN r : ~ Answers(r, i, port)
  <2>1. Serve(r, port, has) = "unknown host"
    BY <1>1, Zenon DEF Serve
  <2>2. port \notin declared
    BY <1>1, Zenon
  <2>3. Down # "unknown host"
    BY DEF Down
  <2> QED
    BY <2>1, <2>2, <2>3, Zenon DEF AnswersAsDeclared
<1>2. CASE RouteFor(r, port) \in DOMAIN r /\ Answers(r, RouteFor(r, port), port)
  <2> DEFINE i == RouteFor(r, port)
  <2>1. i # NoRoute
    BY <1>2 DEF NoRoute
  <2>2. Serve(r, port, has) = UpstreamFor(r[i].backend, has)
    BY <2>1, Zenon DEF Serve
  <2>3. PICK b : /\ Single(b) /\ ~ NoUpstream(b) /\ b.fields \in fields
                 /\ r[i].backend = BackendFrom(b.fields, b.refused)
    BY <1>2, Zenon
  <2> DEFINE f == b.fields
  <2>4. /\ UpstreamFor(BackendFrom(f, b.refused), has) # "unknown host"
        /\ UpstreamFor(BackendFrom(f, b.refused), has) = Down => ~ Needs(f) \subseteq has
    <3>1. b.fields \in SUBSET Backends /\ b.fields # {} /\ b.refused \in BOOLEAN
      BY <2>3, Zenon DEF Single
    <3>2. UpFor(BackendFrom(f, b.refused), f, has)
      <4> HIDE DEF f
      <4>1. UpFor(BackendFrom(b.fields, b.refused), b.fields, has)
        <5>1. ~ NoUpstream(b)
          BY <2>3, Zenon
        <5> QED
          BY <3>1, <5>1, ServesFromFilled, Zenon
      <4> QED
        BY <4>1 DEF f
    <3> QED
      BY <3>2, Zenon DEF UpFor
  <2>5. port \in declared
    BY <1>2, Zenon
  <2>6. Serve(r, port, has) = UpstreamFor(BackendFrom(f, b.refused), has)
    BY <2>2, <2>3, Zenon
  <2> QED
    <3>1. f \in fields
      BY <2>3, Zenon
    <3>2. Serve(r, port, has) # "unknown host" /\ (Serve(r, port, has) = Down => ~ Needs(f) \subseteq has)
      BY <2>4, <2>6, Zenon
    <3> HIDE DEF f
    <3> QED
      BY <2>5, <3>1, <3>2, Zenon DEF AnswersAsDeclared
<1> QED
  BY <1>1, <1>2, RouteForAnswers, Zenon

LEMMA AcceptedIsServed ==
    ASSUME NEW svc \in Service, OneBackend(svc), \A b \in BackendsOf(svc) : ~ NoUpstream(b),
           NEW c, c.routes = RoutesOf(svc)
    PROVE  ServedAsDeclared(svc, c)
<1> DEFINE r == RoutesOf(svc)
           listens == {r[i].listen : i \in DOMAIN r}
<1>1. PICK n \in Nat :
         /\ DOMAIN r = 1..n
         /\ \A i \in 1..n : \E b \in BackendsOf(svc) : r[i].backend = BackendFrom(b.fields, b.refused)
         /\ PortsOf(svc) = (listens \ {0}) \cup (IF 0 \in listens THEN DefaultPorts ELSE {})
  BY RoutesAreFilled, Zenon
<1> HIDE DEF r
<1>2. 0 \notin Tried(svc)
  BY <1>1 DEF Tried, DefaultPorts
<1> SUFFICES ASSUME NEW port \in Tried(svc), NEW has \in SUBSET {"starter", "docker", "container"}
             PROVE  AnswersAsDeclared(c.routes, port, has, PortsOf(svc), Fields(svc))
  BY Zenon DEF ServedAsDeclared, AnswersAsDeclared, Fields
<1>3. port \in PortsOf(svc) <=> \E i \in DOMAIN r : Answers(r, i, port)
  BY <1>1, <1>2 DEF Answers
<1>4. AnswersAsDeclared(r, port, has, PortsOf(svc), Fields(svc))
  <2>1. \A i \in 1..n : \E b : /\ Single(b) /\ ~ NoUpstream(b) /\ b.fields \in Fields(svc)
                                /\ r[i].backend = BackendFrom(b.fields, b.refused)
    BY <1>1, BackendsAreSingle, Zenon
  <2> QED
    BY <1>1, <1>3, <2>1, TableAnswers, Zenon
<1>5. c.routes = r
  BY DEF r
<1> QED
  BY <1>4, <1>5, Zenon

-----------------------------------------------------------------------------
(* The walk over the services.                                               *)

\* What the file asks for, a service at a time, and when it asks too much.
ClaimsOf(m, k) == {ClaimFor(m, k, l) : l \in Labels(m, k)}
Wanted(m, K) == UNION {ClaimsOf(m, k) : k \in K}
Clash(m, K) ==
    \/ \E k \in K : \E b \in BackendsOf(m.services[k]) : NoUpstream(b)
    \/ \E k \in K : Invalid \in Labels(m, k)
    \/ \E j, k \in K : j # k /\ Labels(m, j) \cap Labels(m, k) # {}

\* What the walk has come to once the services of K are done.
Walked(m, done, K) ==
    /\ done.failed = Clash(m, K)
    /\ done.failed => done.claims = {}
    /\ ~ done.failed => done.claims = Wanted(m, K)

Accepted(m) == \A k \in DOMAIN m.services : m.services[k] \in Service /\ (k \in Routed(m) => OneBackend(m.services[k]))

LEMMA ClaimFields ==
    \A m, k, l :
       /\ ClaimFor(m, k, l).label = l /\ ClaimFor(m, k, l).owner = OwnerRef(m, k)
       /\ ClaimFor(m, k, l).service = k /\ ClaimFor(m, k, l).routes = RoutesOf(m.services[k])
       /\ ClaimFor(m, k, l).wildcard = \E i \in DOMAIN m.services[k].hostnames :
                                          /\ LabelFor(m, m.services[k].hostnames[i]) = l
                                          /\ IsWild(m.services[k].hostnames[i])
  BY DEF ClaimFor

LEMMA WantedIs ==
    \A m, K, c : c \in Wanted(m, K) <=> \E k \in K : \E l \in Labels(m, k) : c = ClaimFor(m, k, l)
<1>1. \A m, k, c : c \in ClaimsOf(m, k) <=> \E l \in Labels(m, k) : c = ClaimFor(m, k, l)
  BY DEF ClaimsOf
<1>2. \A m, K, c : c \in Wanted(m, K) <=> \E k \in K : c \in ClaimsOf(m, k)
  BY DEF Wanted
<1> QED
  BY <1>1, <1>2

\* The walk fails for a backend with nothing to serve from, and no other.
LEMMA UnfilledMeans ==
    ASSUME NEW svc \in Service, OneBackend(svc)
    PROVE  Unfilled \in {RoutesOf(svc)[i].backend : i \in DOMAIN RoutesOf(svc)}
              <=> \E b \in BackendsOf(svc) : NoUpstream(b)
<1>1. PICK n \in Nat :
         /\ DOMAIN RoutesOf(svc) = 1..n
         /\ \A i \in 1..n : \E b \in BackendsOf(svc) :
               RoutesOf(svc)[i].backend = BackendFrom(b.fields, b.refused)
         /\ \A b \in BackendsOf(svc) : \E i \in 1..n :
               RoutesOf(svc)[i].backend = BackendFrom(b.fields, b.refused)
  BY RoutesAreFilled, Zenon
<1>2. ASSUME NEW b \in BackendsOf(svc)
      PROVE  BackendFrom(b.fields, b.refused) = Unfilled <=> NoUpstream(b)
  <2>1. Single(b)
    BY BackendsAreSingle
  <2>2. PICK others : CountOf(b.fields, others) = 1
    BY <2>1, Zenon DEF Single
  <2>3. NoUpstream(b) => BackendFrom(b.fields, b.refused) = Unfilled
    <3>1. b.fields \in SUBSET Backends
      BY <2>1, Zenon DEF Single
    <3>2. NoUpstream(b) => "bad_address" \in b.fields \/ (b.fields = {"port_pool"} /\ b.refused = TRUE)
      BY <2>1, Zenon DEF Single, NoUpstream
    <3> QED
      BY <2>2, <3>1, <3>2, FailsWithoutUpstream, Zenon
  <2>4. ~ NoUpstream(b) => BackendFrom(b.fields, b.refused) # Unfilled
    BY <2>1, ServesFromFilled, Zenon DEF Single, UpFor
  <2> QED
    BY <2>3, <2>4
<1> QED
  BY <1>1, <1>2

\* A service is claimed unless it clashes with those before it.
Pending(m, k, K, done) ==
    /\ k \in DOMAIN m.services /\ K \subseteq Routed(m) /\ k \notin K
    /\ done.failed \in BOOLEAN /\ Walked(m, done, K)

LEMMA OneMoreService ==
    ASSUME NEW m, Accepted(m), NEW k, NEW K, NEW done, Pending(m, k, K, done)
    PROVE  /\ k \in Routed(m) => Walked(m, ClaimService(m, done, k), K \cup {k})
           /\ k \notin Routed(m) => Walked(m, ClaimService(m, done, k), K)
<1> DEFINE svc == m.services[k]
           backends == {RoutesOf(svc)[i].backend : i \in DOMAIN RoutesOf(svc)}
           granted == done.granted \cup {o \in {OwnerRef(m, k)} : PortGranted(RoutesOf(svc))}
           bad == Unfilled \in backends \/ Invalid \in Labels(m, k) \/ Collides(m, done.claims, k)
           next == ClaimService(m, done, k)
           L == K \cup {k}
<1>0. /\ k \in DOMAIN m.services /\ K \subseteq Routed(m) /\ k \notin K
      /\ done.failed \in BOOLEAN /\ Walked(m, done, K)
  BY DEF Pending
<1>1. next = IF done.failed \/ svc.catalogOnly THEN done
             ELSE IF bad THEN [Failed EXCEPT !.granted = granted]
             ELSE [failed |-> FALSE, granted |-> granted, claims |-> done.claims \cup ClaimsOf(m, k)]
  BY DEF ClaimService, ClaimsOf
<1> HIDE DEF next, granted, backends
<1>2. k \in Routed(m) <=> ~ svc.catalogOnly
  BY <1>0 DEF Routed
<1>3. Clash(m, K) => Clash(m, L)
  BY DEF Clash
<1>4. CASE svc.catalogOnly
  <2>1. next = done
    BY <1>1, <1>4
  <2>2. k \notin Routed(m)
    BY <1>2, <1>4
  <2> QED
    BY <1>0, <2>1, <2>2 DEF next
<1>5. CASE ~ svc.catalogOnly /\ done.failed
  <2>1. next = done /\ k \in Routed(m)
    BY <1>1, <1>2, <1>5
  <2>2. Clash(m, L)
    BY <1>0, <1>3, <1>5 DEF Walked
  <2>3. Walked(m, done, L)
    BY <1>0, <1>5, <2>2 DEF Walked
  <2> QED
    BY <2>1, <2>3, Zenon DEF next
<1>6. CASE ~ svc.catalogOnly /\ ~ done.failed
  <2>1. k \in Routed(m) /\ OneBackend(svc) /\ svc \in Service
    BY <1>0, <1>2, <1>6 DEF Accepted
  <2>2. Unfilled \in backends <=> \E b \in BackendsOf(svc) : NoUpstream(b)
    BY <2>1, UnfilledMeans, Zenon DEF backends
  <2>3. done.claims = Wanted(m, K) /\ ~ Clash(m, K)
    BY <1>0, <1>6 DEF Walked
  <2>4. Collides(m, done.claims, k) <=> \E j \in K : Labels(m, j) \cap Labels(m, k) # {}
    <3>1. \A c \in Wanted(m, K) : \E j \in K : \E l \in Labels(m, j) : c = ClaimFor(m, j, l) /\ c.label = l
      BY WantedIs, ClaimFields
    <3>2. \A j \in K : \A l \in Labels(m, j) : ClaimFor(m, j, l) \in Wanted(m, K) /\ ClaimFor(m, j, l).label = l
      BY WantedIs, ClaimFields
    <3> QED
      BY <2>3, <3>1, <3>2 DEF Collides
  <2>5. bad <=> Clash(m, L)
    <3>1. Clash(m, L) <=> \/ \E b \in BackendsOf(svc) : NoUpstream(b)
                          \/ Invalid \in Labels(m, k)
                          \/ \E j \in K : Labels(m, j) \cap Labels(m, k) # {}
      <4> HIDE DEF svc
      <4>1. svc = m.services[k]
        BY DEF svc
      <4> QED
        BY <1>0, <2>3, <4>1 DEF Clash
    <3> QED
      BY <2>2, <2>4, <3>1
  <2>6. CASE bad
    <3>1. next = [Failed EXCEPT !.granted = granted]
      BY <1>1, <1>6, <2>6
    <3>2. next.failed = TRUE /\ next.claims = {}
      BY <3>1 DEF Failed
    <3>3. Clash(m, L) = TRUE
      BY <2>5, <2>6 DEF Clash
    <3>4. Walked(m, next, L)
      BY <3>2, <3>3, Zenon DEF Walked
    <3> QED
      BY <2>1, <3>4, Zenon DEF next
  <2>7. CASE ~ bad
    <3>1. next = [failed |-> FALSE, granted |-> granted, claims |-> done.claims \cup ClaimsOf(m, k)]
      BY <1>1, <1>6, <2>7
    <3>2. next.failed = FALSE /\ next.claims = Wanted(m, K) \cup ClaimsOf(m, k)
      BY <2>3, <3>1
    <3>3. Wanted(m, L) = Wanted(m, K) \cup ClaimsOf(m, k)
      BY DEF Wanted
    <3>4. Clash(m, L) = FALSE
      BY <2>5, <2>7 DEF Clash
    <3>5. Walked(m, next, L)
      BY <3>2, <3>3, <3>4, Zenon DEF Walked
    <3> QED
      BY <2>1, <3>5, Zenon DEF next
  <2> QED
    BY <2>6, <2>7
<1> QED
  BY <1>4, <1>5, <1>6

\* Whatever the order the services are walked in, all of them are claimed, or none.
LEMMA WalkIsSound ==
    ASSUME NEW m, Accepted(m), NEW order \in Seq(DOMAIN m.services), SeqSet(order) = DOMAIN m.services,
           \A i, j \in DOMAIN order : order[i] = order[j] => i = j
    PROVE  Walked(m, Claims(m, order), Routed(m)) /\ Claims(m, order).failed \in BOOLEAN
<1> DEFINE n == Len(order)
           Owners_ == {OwnerRef(m, k) : k \in DOMAIN m.services}
           All == Wanted(m, DOMAIN m.services)
           X == [failed : BOOLEAN, claims : SUBSET All, granted : SUBSET Owners_]
           start == [failed |-> FALSE, claims |-> {}, granted |-> {}]
           step(x, i) == ClaimService(m, x, order[i])
           G == [i \in 1..n |-> [x \in X |-> step(x, i)]]
           Rec(f) == [i \in 0..n |-> IF i = 0 THEN start ELSE step(f[i - 1], i)]
           walk == CHOOSE f : f = Rec(f)
<1>1. n \in Nat /\ DOMAIN order = 1..n /\ \A i \in 1..n : order[i] \in DOMAIN m.services
  OBVIOUS
<1>2. ASSUME NEW k \in DOMAIN m.services, NEW x \in X PROVE ClaimService(m, x, k) \in X
  <2> DEFINE svc == m.services[k]
             backends == {RoutesOf(svc)[i].backend : i \in DOMAIN RoutesOf(svc)}
             granted == x.granted \cup {o \in {OwnerRef(m, k)} : PortGranted(RoutesOf(svc))}
             bad == Unfilled \in backends \/ Invalid \in Labels(m, k) \/ Collides(m, x.claims, k)
  <2>1. ClaimService(m, x, k) = IF x.failed \/ svc.catalogOnly THEN x
                                ELSE IF bad THEN [Failed EXCEPT !.granted = granted]
                                ELSE [failed |-> FALSE, granted |-> granted, claims |-> x.claims \cup ClaimsOf(m, k)]
    BY DEF ClaimService, ClaimsOf
  <2>2. granted \in SUBSET Owners_
    OBVIOUS
  <2> HIDE DEF granted, bad
  <2>3. ClaimsOf(m, k) \subseteq All
    BY DEF Wanted
  <2> HIDE DEF All, Owners_
  <2>4. [failed |-> FALSE, granted |-> granted, claims |-> x.claims \cup ClaimsOf(m, k)] \in X
    BY <2>2, <2>3
  <2>5. [Failed EXCEPT !.granted = granted] \in X
    BY <2>2 DEF Failed
  <2> HIDE DEF X
  <2> QED
    BY <2>1, <2>4, <2>5
<1>3. start \in X
  OBVIOUS
<1> HIDE DEF X, n, start
<1>4. StepsOn(G, n, X)
  <2>1. \A i \in 1..n : G[i] \in [X -> X]
    <3> SUFFICES ASSUME NEW i \in 1..n PROVE [x \in X |-> step(x, i)] \in [X -> X]
      OBVIOUS
    <3>1. \A x \in X : step(x, i) \in X
      BY <1>1, <1>2
    <3> HIDE DEF step
    <3> QED
      BY <3>1
  <2>2. G = [i \in 1..n |-> G[i]]
    OBVIOUS
  <2> HIDE DEF G
  <2> QED
    BY <2>1, <2>2 DEF StepsOn
<1> HIDE DEF step
<1>5. \A i \in 1..n : \A x \in X : G[i][x] = step(x, i)
  OBVIOUS
<1> HIDE DEF G
<1>6. PICK f : Iterates(f, n, X, start, G)
  BY <1>1, <1>3, <1>4, IterationExists, Zenon
<1>7. f \in [0..n -> X] /\ f[0] = start /\ \A i \in 1..n : f[i] = G[i][f[i - 1]]
  BY <1>6, Zenon DEF Iterates
<1>8. f = Rec(f)
  <2>1. \A i \in 1..n : f[i - 1] \in X
    BY <1>1, <1>7
  <2>2. \A i \in 1..n : f[i] = step(f[i - 1], i)
    BY <1>5, <1>7, <2>1
  <2>3. \A i \in 0..n : f[i] = IF i = 0 THEN start ELSE step(f[i - 1], i)
    BY <1>1, <1>7, <2>2
  <2> QED
    BY <1>7, <2>3
<1>9. walk = Rec(walk)
  <2> HIDE DEF Rec
  <2> QED
    BY <1>8
<1> HIDE DEF walk
<1>10. \A i \in 0..n : Rec(walk)[i] = IF i = 0 THEN start ELSE step(walk[i - 1], i)
  OBVIOUS
<1> HIDE DEF Rec
<1>11. \A i \in 0..n : walk[i] = IF i = 0 THEN start ELSE step(walk[i - 1], i)
  BY <1>9, <1>10
<1> DEFINE Seen(i) == {order[j] : j \in 1..i}
           S == {i \in 0..n : walk[i] \in X /\ Walked(m, walk[i], Seen(i) \cap Routed(m))}
<1>12. 0 \in S
  <2>1. walk[0] = start /\ 0 \in 0..n /\ walk[0] \in X
    BY <1>1, <1>3, <1>11
  <2>2. Seen(0) \cap Routed(m) = {}
    OBVIOUS
  <2>3. Clash(m, {}) = FALSE /\ Wanted(m, {}) = {}
    BY DEF Clash, Wanted
  <2>4. Walked(m, start, {})
    BY <2>3 DEF Walked, start
  <2> HIDE DEF Seen
  <2> QED
    BY <2>1, <2>2, <2>4
<1>13. ASSUME NEW i \in 1..n, i - 1 \in S PROVE i \in S
  <2> DEFINE K == Seen(i - 1) \cap Routed(m)
             k == order[i]
  <2>1. i \in 0..n /\ i # 0 /\ k \in DOMAIN m.services
    BY <1>1
  <2>2. walk[i - 1] \in X /\ Walked(m, walk[i - 1], K)
    BY <1>13
  <2>3. walk[i] = ClaimService(m, walk[i - 1], k)
    BY <1>11, <2>1 DEF step
  <2>4. walk[i] \in X
    BY <1>2, <2>1, <2>2, <2>3
  <2>5. k \notin K
    BY <1>1
  <2>6. Seen(i) \cap Routed(m) = IF k \in Routed(m) THEN K \cup {k} ELSE K
    <3>1. 1..i = 1..(i - 1) \cup {i}
      BY <1>1
    <3>2. Seen(i) = Seen(i - 1) \cup {k}
      BY <3>1
    <3> HIDE DEF Seen
    <3> QED
      BY <3>2
  <2>7. walk[i - 1].failed \in BOOLEAN
    BY <2>2 DEF X
  <2>8. K \in SUBSET Routed(m)
    OBVIOUS
  <2> HIDE DEF K, k, Seen
  <2>9. /\ k \in Routed(m) => Walked(m, ClaimService(m, walk[i - 1], k), K \cup {k})
        /\ k \notin Routed(m) => Walked(m, ClaimService(m, walk[i - 1], k), K)
    <3>1. Pending(m, k, K, walk[i - 1])
      BY <2>1, <2>2, <2>5, <2>7, <2>8 DEF Pending
    <3> QED
      BY <3>1, OneMoreService, Zenon
  <2>10. Walked(m, walk[i], Seen(i) \cap Routed(m))
    BY <2>3, <2>6, <2>9
  <2> QED
    BY <2>1, <2>4, <2>10
<1>14. n \in S
  <2> HIDE DEF S
  <2>1. 0..n \subseteq S
    BY <1>1, <1>12, <1>13, UpTo
  <2> QED
    BY <1>1, <2>1
<1>15. Claims(m, order) = walk[n]
  BY DEF Claims, walk, Rec, step, start, n
<1>16. Seen(n) \cap Routed(m) = Routed(m)
  <2>1. Seen(n) = DOMAIN m.services
    BY <1>1 DEF SeqSet
  <2>2. Routed(m) \subseteq DOMAIN m.services
    BY DEF Routed
  <2> HIDE DEF Seen
  <2> QED
    BY <2>1, <2>2
<1>17. walk[n] \in X /\ Walked(m, walk[n], Routed(m))
  <2> HIDE DEF Seen
  <2> QED
    BY <1>14, <1>16
<1>18. walk[n].failed \in BOOLEAN
  BY <1>17 DEF X
<1> QED
  BY <1>15, <1>17, <1>18

-----------------------------------------------------------------------------
(* What is claimed and what the catalog launches.                            *)

Named(host) == host \in Seq(STRING) /\ "@" \notin SeqSet(host)

LEMMA BaseIsNamed ==
    ASSUME NEW h, Named(h)
    PROVE  Named(Base(h))
<1>1. CASE IsWild(h)
  <2>1. Base(h) = Tail(h) /\ h # <<>>
    BY <1>1 DEF Base, IsWild, Named
  <2>2. /\ Tail(h) \in Seq(STRING)
        /\ \A i \in DOMAIN Tail(h) : i + 1 \in DOMAIN h /\ Tail(h)[i] = h[i + 1]
    BY <2>1 DEF Named
  <2>3. "@" \notin SeqSet(Tail(h))
    BY <2>2 DEF Named, SeqSet
  <2> QED
    BY <2>1, <2>2, <2>3 DEF Named
<1>2. CASE ~ IsWild(h)
  BY <1>2 DEF Base
<1> QED
  BY <1>1, <1>2

\* A hostname in the zone of its file is its label and the zone.
LEMMA LabelNamesHost ==
    ASSUME NEW m, m.zone \in Seq(STRING), NEW h, Named(h), LabelFor(m, h) # Invalid
    PROVE  FQDN(LabelFor(m, h), m.zone) = Base(h)
<1> DEFINE b == Base(h)
<1>1. b \in Seq(STRING) /\ \A i \in DOMAIN b : b[i] # "@"
  BY BaseIsNamed DEF Named, SeqSet
<1> HIDE DEF b
<1>2. LabelForZone(b, m.zone) # Invalid /\ LabelFor(m, h) = LabelForZone(b, m.zone)
  BY DEF LabelFor, b
<1>3. CASE b = m.zone
  <2>1. LabelForZone(b, m.zone) = Apex
    BY <1>3, Zenon DEF LabelForZone
  <2>2. FQDN(Apex, m.zone) = m.zone
    BY DEF FQDN
  <2> QED
    BY <1>2, <1>3, <2>1, <2>2 DEF b
<1>4. CASE b # m.zone
  <2>1. Under(b, m.zone) /\ LabelForZone(b, m.zone) = Prefix(b, m.zone)
    BY <1>2, <1>4, Zenon DEF LabelForZone
  <2>2. FQDN(Prefix(b, m.zone), m.zone) = b
    BY <1>1, <2>1, LabelAndZone
  <2> QED
    BY <1>2, <2>1, <2>2 DEF b
<1> QED
  BY <1>3, <1>4

\* A file whose hostnames are names in its zone, none of them in two services.
Clean(m) ==
    /\ Accepted(m) /\ m.zone \in Seq(STRING)
    /\ \A k \in DOMAIN m.services : \A h \in SeqSet(m.services[k].hostnames) : Named(h)
    /\ ~ Clash(m, Routed(m))

LEMMA LabelsAre ==
    \A m, k, l : l \in Labels(m, k) <=> \E h \in SeqSet(m.services[k].hostnames) : l = LabelFor(m, h)
  BY DEF Labels, SeqSet

LEMMA EachHostIsClaimed ==
    ASSUME NEW m, Clean(m), NEW k \in Routed(m), NEW h \in SeqSet(m.services[k].hostnames)
    PROVE  \E c \in Wanted(m, Routed(m)) :
              /\ c.service = k /\ FQDN(c.label, m.zone) = Base(h)
              /\ IsWild(h) => c.wildcard
              /\ \A d \in Wanted(m, Routed(m)) : FQDN(d.label, m.zone) = Base(h) => d = c
<1> DEFINE l == LabelFor(m, h)
           c == ClaimFor(m, k, l)
<1>0. \A j \in Routed(m) : j \in DOMAIN m.services
  BY DEF Routed
<1>1. l \in Labels(m, k)
  BY LabelsAre
<1>2. \A j \in Routed(m) : \A g \in SeqSet(m.services[j].hostnames) :
         LabelFor(m, g) # Invalid /\ FQDN(LabelFor(m, g), m.zone) = Base(g)
  <2> SUFFICES ASSUME NEW j \in Routed(m), NEW g \in SeqSet(m.services[j].hostnames)
               PROVE  LabelFor(m, g) # Invalid /\ FQDN(LabelFor(m, g), m.zone) = Base(g)
    OBVIOUS
  <2>1. LabelFor(m, g) \in Labels(m, j)
    BY LabelsAre
  <2>2. LabelFor(m, g) # Invalid
    BY <2>1, Zenon DEF Clean, Clash
  <2>3. Named(g) /\ m.zone \in Seq(STRING)
    BY <1>0, Zenon DEF Clean
  <2> QED
    BY <2>2, <2>3, LabelNamesHost, Zenon
<1>3. c \in Wanted(m, Routed(m))
  BY <1>1, WantedIs
<1>4. c.label = l /\ c.service = k
  BY ClaimFields
<1>5. IsWild(h) => c.wildcard
  <2>1. PICK i \in DOMAIN m.services[k].hostnames : h = m.services[k].hostnames[i]
    BY Zenon DEF SeqSet
  <2>2. c.wildcard = \E j \in DOMAIN m.services[k].hostnames :
                        /\ LabelFor(m, m.services[k].hostnames[j]) = l
                        /\ IsWild(m.services[k].hostnames[j])
    BY ClaimFields
  <2> QED
    BY <2>1, <2>2, Zenon
<1>6. ASSUME NEW d \in Wanted(m, Routed(m)), FQDN(d.label, m.zone) = Base(h) PROVE d = c
  <2>1. PICK j \in Routed(m) : \E t \in Labels(m, j) : d = ClaimFor(m, j, t)
    BY WantedIs
  <2>2. PICK t \in Labels(m, j) : d = ClaimFor(m, j, t)
    BY <2>1
  <2>3. d.label = t
    BY <2>2, ClaimFields
  <2>4. PICK g \in SeqSet(m.services[j].hostnames) : t = LabelFor(m, g)
    BY LabelsAre
  <2>5. Base(g) = Base(h)
    BY <1>2, <1>6, <2>3, <2>4, Zenon
  <2>6. t = l
    BY <2>4, <2>5, Zenon DEF LabelFor
  <2>7. j = k
    <3>1. l \in Labels(m, j) \cap Labels(m, k)
      BY <1>1, <2>6
    <3>2. \A x, y \in Routed(m) : x # y => Labels(m, x) \cap Labels(m, y) = {}
      BY Zenon DEF Clean, Clash
    <3> HIDE DEF l
    <3> QED
      BY <3>1, <3>2
  <2> QED
    BY <2>2, <2>6, <2>7, Zenon
<1>7. FQDN(c.label, m.zone) = Base(h)
  BY <1>2, <1>4, Zenon
<1> HIDE DEF c
<1> QED
  BY <1>3, <1>4, <1>5, <1>6, <1>7, Zenon

\* The row of a deployment.
LEMMA DeploymentRow ==
    ASSUME NEW m, NEW e \in Rows(m), e[1] = "deployment"
    PROVE  LET k == e[2]
               row == CatalogBundle(m)[e]
           IN  /\ k \in DOMAIN m.services
               /\ row.owner = OwnerRef(m, k) /\ row.hostnames = m.services[k].hostnames
               /\ row.launch = LaunchURL(m.services[k])
<1>1. e[2] \in DOMAIN m.services
  <2>1. \A k : /\ <<"application", k>>[1] # "deployment" /\ <<"service", k>>[1] # "deployment"
               /\ <<"capability", k>>[1] # "deployment" /\ <<"resource", k>>[1] # "deployment"
               /\ <<"deployment", k>>[2] = k
    OBVIOUS
  <2>2. \/ e = <<"application", "">>
        \/ \E k \in DOMAIN m.services : e = <<"service", k>> \/ e = <<"deployment", k>> \/ e = <<"capability", k>>
        \/ \E k \in DOMAIN m.resources : e = <<"resource", k>>
    BY RowIs, Zenon
  <2> QED
    BY <2>1, <2>2, Zenon
<1>2. CatalogBundle(m)[e] =
         [id |-> DeploymentID(m, e[2]), service |-> ServiceID(m, e[2]), workspace |-> m.workspace,
          owner |-> OwnerRef(m, e[2]), hostnames |-> m.services[e[2]].hostnames,
          launch |-> LaunchURL(m.services[e[2]])]
  BY DEF CatalogBundle
<1> QED
  BY <1>1, <1>2

\* The default launch URL is the first hostname that is no wildcard.
LEMMA LaunchIsExact ==
    ASSUME NEW svc \in Service, svc.launch = NoLaunch
    PROVE  \/ LaunchURL(svc) = NoLaunch /\ \A h \in SeqSet(svc.hostnames) : IsWild(h)
           \/ LaunchURL(svc) \in SeqSet(svc.hostnames) /\ ~ IsWild(LaunchURL(svc))
<1> DEFINE exact == {i \in DOMAIN svc.hostnames : ~ IsWild(svc.hostnames[i])}
           first == CHOOSE i \in exact : \A j \in exact : i <= j
<1>1. LaunchURL(svc) = IF exact = {} THEN NoLaunch ELSE svc.hostnames[first]
  BY Zenon DEF LaunchURL
<1>2. exact \in SUBSET Nat
  BY DEF Service
<1>3. CASE exact = {}
  <2>1. \A i \in DOMAIN svc.hostnames : IsWild(svc.hostnames[i])
    BY <1>3
  <2> QED
    BY <1>1, <1>3, <2>1, Zenon DEF SeqSet
<1>4. CASE exact # {}
  <2>1. first \in exact
    <3> HIDE DEF exact
    <3>1. \E i \in exact : \A j \in exact : i <= j
      BY <1>2, <1>4, LeastExists, Zenon
    <3> QED
      BY <3>1
  <2> HIDE DEF first
  <2>2. first \in DOMAIN svc.hostnames /\ ~ IsWild(svc.hostnames[first])
    BY <2>1
  <2>3. LaunchURL(svc) = svc.hostnames[first]
    BY <1>1, <1>4
  <2> QED
    BY <2>2, <2>3, Zenon DEF SeqSet
<1> QED
  BY <1>3, <1>4

LEMMA CatalogLaunchesClaims ==
    ASSUME NEW m, Clean(m)
    PROVE  LaunchesClaimed(m, Wanted(m, Routed(m)))
<1> DEFINE B == CatalogBundle(m)
           claims == Wanted(m, Routed(m))
<1>1. DOMAIN B = Rows(m)
  BY DEF CatalogBundle
<1> HIDE DEF B, claims
<1> SUFFICES ASSUME NEW e \in Rows(m), e[1] = "deployment", ~ m.services[e[2]].catalogOnly
             PROVE  LET mine == {c \in claims : c.owner = B[e].owner}
                    IN  /\ {FQDN(c.label, m.zone) : c \in mine} = {Base(h) : h \in SeqSet(B[e].hostnames)}
                        /\ m.services[e[2]].launch = NoLaunch =>
                              \/ \E c \in mine : FQDN(c.label, m.zone) = B[e].launch
                              \/ B[e].launch = NoLaunch /\ \A h \in SeqSet(B[e].hostnames) : IsWild(h)
  BY <1>1, Zenon DEF LaunchesClaimed, B, claims
<1> DEFINE k == e[2]
           svc == m.services[k]
           mine == {c \in claims : c.owner = B[e].owner}
           hosts == SeqSet(svc.hostnames)
<1>2. /\ k \in DOMAIN m.services /\ B[e].owner = OwnerRef(m, k) /\ B[e].hostnames = svc.hostnames
      /\ B[e].launch = LaunchURL(svc)
  BY DeploymentRow, Zenon DEF B
<1>3. k \in Routed(m) /\ svc \in Service
  BY <1>2 DEF Routed, Clean, Accepted
<1> HIDE DEF k
<1>4. ASSUME NEW h \in hosts PROVE \E c \in mine : FQDN(c.label, m.zone) = Base(h)
  <2>1. PICK c \in claims : c.service = k /\ FQDN(c.label, m.zone) = Base(h)
    BY <1>3, EachHostIsClaimed DEF claims
  <2>2. PICK j \in Routed(m) : \E l \in Labels(m, j) : c = ClaimFor(m, j, l)
    BY WantedIs DEF claims
  <2>3. c.service = j /\ c.owner = OwnerRef(m, j)
    BY <2>2, ClaimFields
  <2>4. c \in mine
    BY <1>2, <2>1, <2>3
  <2> QED
    BY <2>1, <2>4
<1>5. ASSUME NEW c \in mine PROVE \E h \in hosts : FQDN(c.label, m.zone) = Base(h)
  <2>1. c \in claims /\ c.owner = OwnerRef(m, k)
    BY <1>2
  <2>2. PICK j \in Routed(m) : \E l \in Labels(m, j) : c = ClaimFor(m, j, l)
    BY <2>1, WantedIs DEF claims
  <2>3. PICK l \in Labels(m, j) : c = ClaimFor(m, j, l)
    BY <2>2
  <2>4. c.label = l /\ c.owner = OwnerRef(m, j)
    BY <2>3, ClaimFields
  <2>5. j = k
    BY <2>1, <2>4 DEF OwnerRef
  <2>6. PICK h \in hosts : l = LabelFor(m, h)
    BY <2>5, LabelsAre
  <2>7. l # Invalid
    BY <2>3, Zenon DEF Clean, Clash
  <2>8. Named(h) /\ m.zone \in Seq(STRING)
    BY <1>2, Zenon DEF Clean
  <2>9. FQDN(l, m.zone) = Base(h)
    BY <2>6, <2>7, <2>8, LabelNamesHost, Zenon
  <2> QED
    BY <2>4, <2>9
<1>6. {FQDN(c.label, m.zone) : c \in mine} = {Base(h) : h \in hosts}
  <2> HIDE DEF mine, hosts
  <2> QED
    BY <1>4, <1>5
<1>7. ASSUME svc.launch = NoLaunch
      PROVE  \/ \E c \in mine : FQDN(c.label, m.zone) = LaunchURL(svc)
             \/ LaunchURL(svc) = NoLaunch /\ \A h \in hosts : IsWild(h)
  <2>1. CASE LaunchURL(svc) \in hosts /\ ~ IsWild(LaunchURL(svc))
    <3>1. Base(LaunchURL(svc)) = LaunchURL(svc)
      BY <2>1, Zenon DEF Base
    <3> HIDE DEF mine, hosts
    <3> QED
      BY <1>4, <2>1, <3>1
  <2> QED
    BY <1>3, <1>7, <2>1, LaunchIsExact, Zenon
<1> QED
  BY <1>2, <1>6, <1>7, Zenon DEF k


LEMMA ServedClaims ==
    ASSUME NEW m, Accepted(m), ~ Clash(m, Routed(m)), NEW c \in Wanted(m, Routed(m))
    PROVE  ServedAsDeclared(m.services[c.service], c)
<1>1. PICK k \in Routed(m) : \E l \in Labels(m, k) : c = ClaimFor(m, k, l)
  BY WantedIs
<1>2. c.service = k /\ c.routes = RoutesOf(m.services[k])
  BY <1>1, ClaimFields
<1>3. m.services[k] \in Service /\ OneBackend(m.services[k])
  BY DEF Accepted, Routed
<1>4. \A b \in BackendsOf(m.services[k]) : ~ NoUpstream(b)
  BY Zenon DEF Clash
<1> QED
  BY <1>2, <1>3, <1>4, AcceptedIsServed

LEMMA FileIsCovered ==
    ASSUME NEW m \in Manifests, Parse(m)
    PROVE  LET got == Claims(m, CHOOSE o \in OrdersOf(m) : TRUE)
           IN  /\ WorkspacesApart(m)
               /\ \/ ValidBundle(CatalogBundle(m))
                  \/ \E k \in DOMAIN m.services : m.services[k].id # "" \/ m.services[k].deployment # ""
                  \/ \E k \in DOMAIN m.resources : \/ m.resources[k].id # ""
                                                  \/ ~ m.resources[k].uses \subseteq DOMAIN m.services
               /\ \A o \in OrdersOf(m) : Claims(m, o).failed = got.failed /\ Claims(m, o).claims = got.claims
               /\ got.failed =
                     \/ \E k \in Routed(m) : \E b \in BackendsOf(m.services[k]) : NoUpstream(b)
                     \/ \E k \in Routed(m) : Invalid \in Labels(m, k)
                     \/ \E j, k \in Routed(m) : j # k /\ Labels(m, j) \cap Labels(m, k) # {}
               /\ ~ got.failed =>
                     /\ LaunchesClaimed(m, got.claims)
                     /\ \A k \in Routed(m) : \A h \in SeqSet(m.services[k].hostnames) :
                           \E c \in got.claims :
                              /\ c.service = k /\ FQDN(c.label, m.zone) = Base(h)
                              /\ IsWild(h) => c.wildcard
                              /\ \A d \in got.claims : FQDN(d.label, m.zone) = Base(h) => d = c
                     /\ \A c \in got.claims : ServedAsDeclared(m.services[c.service], c)
<1> DEFINE first == CHOOSE o \in OrdersOf(m) : TRUE
           got == Claims(m, first)
<1>1. /\ m \in File(m) /\ m.services \in [DOMAIN m.services -> Service] /\ OrdersOf(m) # {}
      /\ \A k \in DOMAIN m.services : \A h \in SeqSet(m.services[k].hostnames) : "@" \notin SeqSet(h)
      /\ \A o \in Orders : o \in Seq(STRING) /\ \A i, j \in DOMAIN o : o[i] = o[j] => i = j
  BY FilesAssumption, Zenon
<1>2. Accepted(m)
  <2>1. \A k \in DOMAIN m.services : m.services[k] \in Service
    BY <1>1
  <2>2. \A k \in Routed(m) : OneBackend(m.services[k])
    BY Zenon DEF Parse, Routed
  <2> QED
    BY <2>1, <2>2, Zenon DEF Accepted
<1>3. ASSUME NEW o \in OrdersOf(m)
      PROVE  Walked(m, Claims(m, o), Routed(m)) /\ Claims(m, o).failed \in BOOLEAN
  <2>1. o \in Seq(STRING) /\ SeqSet(o) = DOMAIN m.services /\ \A i, j \in DOMAIN o : o[i] = o[j] => i = j
    BY <1>1, Zenon DEF OrdersOf
  <2>2. o \in Seq(DOMAIN m.services)
    <3>1. \A i \in DOMAIN o : o[i] \in DOMAIN m.services
      BY <2>1, Zenon DEF SeqSet
    <3> QED
      BY <2>1, <3>1
  <2> QED
    BY <1>2, <2>1, <2>2, WalkIsSound
<1>4. first \in OrdersOf(m)
  BY <1>1
<1>5. Walked(m, got, Routed(m)) /\ got.failed \in BOOLEAN
  BY <1>3, <1>4
<1> HIDE DEF first, got
<1>6. \A o \in OrdersOf(m) : Claims(m, o).failed = got.failed /\ Claims(m, o).claims = got.claims
  <2> SUFFICES ASSUME NEW o \in OrdersOf(m)
               PROVE  Claims(m, o).failed = got.failed /\ Claims(m, o).claims = got.claims
    OBVIOUS
  <2>1. Walked(m, Claims(m, o), Routed(m))
    BY <1>3
  <2> QED
    BY <1>5, <2>1 DEF Walked
<1>7. got.failed =
         \/ \E k \in Routed(m) : \E b \in BackendsOf(m.services[k]) : NoUpstream(b)
         \/ \E k \in Routed(m) : Invalid \in Labels(m, k)
         \/ \E j, k \in Routed(m) : j # k /\ Labels(m, j) \cap Labels(m, k) # {}
  BY <1>5, Zenon DEF Walked, Clash
<1>8. WorkspacesApart(m)
  BY <1>1, WorkspacesAreApart
<1>9. \/ ValidBundle(CatalogBundle(m))
      \/ \E k \in DOMAIN m.services : m.services[k].id # "" \/ m.services[k].deployment # ""
      \/ \E k \in DOMAIN m.resources : \/ m.resources[k].id # ""
                                      \/ ~ m.resources[k].uses \subseteq DOMAIN m.services
  BY BundleIsValid, Zenon DEF NothingStated
<1>10. ASSUME ~ got.failed
       PROVE  /\ LaunchesClaimed(m, got.claims)
              /\ \A k \in Routed(m) : \A h \in SeqSet(m.services[k].hostnames) :
                    \E c \in got.claims :
                       /\ c.service = k /\ FQDN(c.label, m.zone) = Base(h)
                       /\ IsWild(h) => c.wildcard
                       /\ \A d \in got.claims : FQDN(d.label, m.zone) = Base(h) => d = c
              /\ \A c \in got.claims : ServedAsDeclared(m.services[c.service], c)
  <2>1. got.claims = Wanted(m, Routed(m)) /\ ~ Clash(m, Routed(m))
    BY <1>5, <1>10 DEF Walked
  <2>2. m.zone \in Seq(STRING)
    BY <1>1 DEF File
  <2>3. \A k \in DOMAIN m.services : \A h \in SeqSet(m.services[k].hostnames) : Named(h)
    <3> SUFFICES ASSUME NEW k \in DOMAIN m.services, NEW h \in SeqSet(m.services[k].hostnames) PROVE Named(h)
      OBVIOUS
    <3>1. m.services[k].hostnames \in Seq(Seq(STRING))
      BY <1>2 DEF Accepted, Service
    <3>2. h \in Seq(STRING)
      BY <3>1 DEF SeqSet
    <3> QED
      BY <1>1, <3>2, Zenon DEF Named
  <2>4. Clean(m)
    BY <1>2, <2>1, <2>2, <2>3, Zenon DEF Clean
  <2>5. LaunchesClaimed(m, got.claims)
    BY <2>1, <2>4, CatalogLaunchesClaims
  <2>6. \A c \in got.claims : ServedAsDeclared(m.services[c.service], c)
    BY <1>2, <2>1, ServedClaims
  <2>7. \A k \in Routed(m) : \A h \in SeqSet(m.services[k].hostnames) :
           \E c \in got.claims :
              /\ c.service = k /\ FQDN(c.label, m.zone) = Base(h)
              /\ IsWild(h) => c.wildcard
              /\ \A d \in got.claims : FQDN(d.label, m.zone) = Base(h) => d = c
    <3>1. \A k \in Routed(m) : \A h \in SeqSet(m.services[k].hostnames) :
             \E c \in Wanted(m, Routed(m)) :
                /\ c.service = k /\ FQDN(c.label, m.zone) = Base(h)
                /\ IsWild(h) => c.wildcard
                /\ \A d \in Wanted(m, Routed(m)) : FQDN(d.label, m.zone) = Base(h) => d = c
      BY <2>4, EachHostIsClaimed
    <3> QED
      BY <2>1, <3>1
  <2> QED
    BY <2>5, <2>6, <2>7
<1> QED
  BY <1>6, <1>7, <1>8, <1>9, <1>10, Zenon DEF got, first

-----------------------------------------------------------------------------
(* The state holds a question of a kind the inputs are of.                   *)

AInv ==
    \/ asked = Nothing
    \/ \E raw \in RawLabels, table \in Tables_, policy \in Policies :
          asked = [what |-> "label", raw |-> raw, table |-> table, policy |-> policy]
    \/ \E host \in Hosts, zones \in ZoneLists : asked = [what |-> "host", host |-> host, zones |-> zones]
    \/ \E routes \in RouteSets : asked = [what |-> "routes", routes |-> routes]
    \/ \E m \in Manifests : asked = [what |-> "file", file |-> m]

LEMMA AskedIsInput == ASpec => []AInv
<1>1. AInit => AInv
  BY Zenon DEF AInit, AInv
<1>2. AInv /\ [ANext]_asked => AInv'
  <2> SUFFICES ASSUME AInv, [ANext]_asked PROVE AInv'
    OBVIOUS
  <2>1. CASE Ask
    BY <2>1, Zenon DEF Ask, AskLabel, AskHost, AskRoutes, AskFile, AInv
  <2>2. CASE asked' = Nothing
    BY <2>2, Zenon DEF AInv
  <2>3. CASE UNCHANGED asked
    BY <2>3, Zenon DEF AInv
  <2> QED
    BY <2>1, <2>2, <2>3, Zenon DEF ANext
<1> QED
  BY <1>1, <1>2, PTL DEF ASpec

\* When the shadow check has nothing to say of a routed host, no catch-all takes its
\* traffic by priority or in a tie, unless one object has both routes (ShadowCheck).
THEOREM SilenceIsService == ASpec => []SilentMeansServed
<1>1. AInv => SilentMeansServed
  <2> SUFFICES ASSUME AInv, asked.what = "routes" PROVE SilentMeansServed
    BY Zenon DEF SilentMeansServed
  <2> QED
    BY SilenceMeansService, Zenon DEF SilentMeansServed
<1> QED
  BY <1>1, AskedIsInput, PTL

\* A hostname has one home, the most specific zone, whatever order the store lists the
\* zones in, and is itself again as label and zone (splitByZones, LabelForZone, FQDN,
\* Server.handle).
THEOREM HomesAreOne == ASpec => []HostsHaveOneHome
<1>1. AInv => HostsHaveOneHome
  <2> SUFFICES ASSUME AInv, asked.what = "host" PROVE HostsHaveOneHome
    BY Zenon DEF HostsHaveOneHome
  <2>1. asked.host \in Hosts /\ asked.zones \in ZoneLists
    BY DEF AInv, Nothing
  <2> QED
    BY <2>1, OneHome, Zenon DEF HostsHaveOneHome, Above
<1> QED
  BY <1>1, AskedIsInput, PTL

\* CheckAvailability answers as a claim would, its suggestions can be claimed and are
\* different, and normal forms are normal (Normalize, Policy.Check, filterAvailable).
THEOREM AvailabilityIsTrue == ASpec => []AvailabilityAgrees
<1>1. AInv => AvailabilityAgrees
  <2> SUFFICES ASSUME AInv, asked.what = "label" PROVE AvailabilityAgrees
    BY Zenon DEF AvailabilityAgrees
  <2>1. asked.raw \in RawLabels
    BY DEF AInv, Nothing
  <2> QED
    BY <2>1, AnswersAgree, Zenon DEF AvailabilityAgrees
<1> QED
  BY <1>1, AskedIsInput, PTL

\* What becomes of a file does not depend on the order its services are walked in; an
\* accepted file fails for an address, a port refused or its hostnames, and otherwise each
\* of them is claimed once, served as declared and launched from the catalog (Parse,
\* Claims, CatalogBundle, routeFor, upstreamFor).
THEOREM FilesAreCovered == ASpec => []ClaimsCover
<1>1. AInv => ClaimsCover
  <2> SUFFICES ASSUME AInv, asked.what = "file", Parse(asked.file) PROVE ClaimsCover
    BY Zenon DEF ClaimsCover
  <2>1. asked.file \in Manifests
    BY DEF AInv, Nothing
  <2> QED
    BY <2>1, FileIsCovered, Zenon DEF ClaimsCover
<1> QED
  BY <1>1, AskedIsInput, PTL
==============================================================================
