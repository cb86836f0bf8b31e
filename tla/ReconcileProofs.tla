--------------------------- MODULE ReconcileProofs ---------------------------
(***************************************************************************)
(* Safety of Reconcile for every target, any number of labels, objects and *)
(* backends, and any number of changes, failures and restarts.             *)
(***************************************************************************)
EXTENDS Reconcile, TablesProofs

\* What a pass remembers of an object it is still to write: it bore the mark when it was
\* listed, and unless it changed since it is what was listed.  A missing one is wanted.
ListSound ==
    step = "write" => \A k \in todo :
        IF listed[k] = Nothing THEN wanted[k] # Nothing
        ELSE listed[k].marked /\ (k \in stale \/ objects[k] = listed[k])

\* A pass that is about to empty the file has found the mark in it, or nothing at all.
FileSound == step = "truncate" /\ file.begins = "foreign" => stale # {}

IInv == TypeOK /\ ListSound /\ FileSound

-----------------------------------------------------------------------------
(* What the registry asks for is well typed. *)

\* The first route with a service behind it is one of the routes.
LEMMA TraefikWantsABackend ==
    ASSUME NEW s \in Seq(Backends)
    PROVE  TraefikWants(s) \in Backends \cup {Nothing}
<1> DEFINE I == {i \in DOMAIN s : s[i].kind = "service"}
<1>1. CASE I = {}
  BY <1>1 DEF TraefikWants
<1>2. CASE I # {}
  <2>1. I \subseteq DOMAIN s /\ DOMAIN s \subseteq Nat
    OBVIOUS
  <2>2. \E i \in I : \A j \in I : i <= j
    BY <1>2, <2>1, LeastExists, Zenon
  <2>3. (CHOOSE i \in I : \A j \in I : i <= j) \in DOMAIN s
    BY <2>1, <2>2, Zenon
  <2>4. \A i \in DOMAIN s : s[i] \in Backends
    OBVIOUS
  <2> QED
    BY <1>2, <2>3, <2>4 DEF TraefikWants
<1> QED
  BY <1>1, <1>2

LEMMA FirstIfABackend ==
    ASSUME NEW s \in Seq(Backends), NEW kind
    PROVE  FirstIf(s, kind) \in Backends \cup {Nothing}
BY DEF FirstIf

\* What is asked for an allocation, and for an object, is a backend or nothing.
LEMMA DesiredIsAWish ==
    ASSUME NEW s \in Shapes \cup {Nothing}, target \in Targets
    PROVE  Desired(s) \in Backends \cup {Record, Nothing}
<1>1. CASE s = Nothing
  BY <1>1 DEF Desired
<1>2. CASE s # Nothing
  <2>1. s \in Seq(Backends)
    BY <1>2, ShapesAssumption
  <2>2. /\ TraefikWants(s) \in Backends \cup {Nothing}
        /\ GatewayWants(s) \in Backends \cup {Nothing}
        /\ NpmWants(s) \in Backends \cup {Nothing}
        /\ NginxWants(s) \in Backends \cup {Nothing}
        /\ CloudflareWants(s) = Record
    BY <2>1, TraefikWantsABackend, FirstIfABackend, Zenon
       DEF GatewayWants, NpmWants, NginxWants, CloudflareWants
  <2> HIDE DEF TraefikWants, GatewayWants, NpmWants, NginxWants, CloudflareWants
  <2>3. CASE target = "traefik"
    BY <1>2, <2>2, <2>3 DEF Desired
  <2>4. CASE target = "gateway"
    BY <1>2, <2>2, <2>4 DEF Desired
  <2>5. CASE target = "cloudflare"
    BY <1>2, <2>2, <2>5 DEF Desired
  <2>6. CASE target = "npm"
    BY <1>2, <2>2, <2>6 DEF Desired
  <2>7. CASE target = "nginx"
    BY <1>2, <2>2, <2>7 DEF Desired
  <2> QED
    BY <2>3, <2>4, <2>5, <2>6, <2>7 DEF Targets, Cluster, Services
<1> QED
  BY <1>1, <1>2

LEMMA WishIsAWish ==
    ASSUME TypeOK, NEW k \in Keys
    PROVE  Wish(k) \in Backends \cup {Record, Nothing}
<1> DEFINE L == {l \in Labels : key[l] = k /\ Desired(allocs[l]) # Nothing}
<1>1. CASE L = {}
  BY <1>1, Zenon DEF Wish
<1>2. CASE L # {}
  <2>1. L \subseteq Labels
    OBVIOUS
  <2>2. L \in SUBSET (0..LabelCount)
    BY <2>1, LabelsAssumption DEF Labels
  <2>3. Greatest(L) \in L
    BY <1>2, <2>2, LabelsAssumption, GreatestExists, Zenon
  <2>4. allocs[Greatest(L)] \in Shapes \cup {Nothing}
    BY <2>1, <2>3 DEF TypeOK
  <2>5. Desired(allocs[Greatest(L)]) \in Backends \cup {Record, Nothing}
    BY <2>4, DesiredIsAWish DEF TypeOK
  <2>6. Wish(k) = Desired(allocs[Greatest(L)])
    BY <1>2, Zenon DEF Wish, Greatest
  <2> QED
    BY <2>5, <2>6
<1> QED
  BY <1>1, <1>2

LEMMA WishesAreWishes == TypeOK => [k \in Keys |-> Wish(k)] \in Wishes
BY WishIsAWish DEF Wishes

-----------------------------------------------------------------------------
(* The pass. *)

\* A record, object or file made up by an action is one.
LEMMA NoWishIsAWish == NoWish \in Wishes /\ [k \in Keys |-> Nothing] \in Wishes
BY DEF NoWish, Wishes

LEMMA FilesAreFiles ==
    /\ \A w \in Wishes : Rendered(w) \in File
    /\ \A b \in {"absent", "foreign", "torn", "part"} : Other(b) \in File
BY NoWishIsAWish DEF Rendered, Other, File

\* A pass that returns keeps the invariant, whatever became of objects and token.
LEMMA ReturnKeepsIInv ==
    ASSUME IInv, Return, objects' \in [Keys -> Object \cup {Nothing}],
           token' \in {"none", "good", "expired"}, upsets' \in 0..MaxUpsets,
           file' \in File, loaded' \in File, UNCHANGED <<target, key, allocs>>
    PROVE  IInv'
<1>1. TypeOK'
  BY NoWishIsAWish DEF IInv, TypeOK, Return
<1>2. ListSound' /\ FileSound'
  BY DEF Return, ListSound, FileSound
<1> QED
  BY <1>1, <1>2 DEF IInv

\* A write that has been answered: the object of k may have changed, no other has.
LEMMA WroteKeepsIInv ==
    ASSUME IInv, NEW k \in Keys, NextWrite(k), Wrote(k),
           objects' \in [Keys -> Object \cup {Nothing}],
           \A j \in Keys \ {k} : objects'[j] = objects[j],
           token' \in {"none", "good", "expired"}, upsets' \in 0..MaxUpsets, Rest
    PROVE  IInv'
<1>1. UNCHANGED <<target, key, allocs, file, loaded>>
  BY DEF Rest
<1>2. CASE todo = {k}
  BY <1>1, <1>2, ReturnKeepsIInv DEF Wrote, IInv, TypeOK
<1>3. CASE todo # {k}
  <2>1. todo' = todo \ {k} /\ UNCHANGED <<wanted, listed, stale, replaced, step, steady>>
    BY <1>3 DEF Wrote
  <2>2. TypeOK'
    BY <1>1, <2>1 DEF IInv, TypeOK
  <2>3. ListSound'
    BY <2>1 DEF IInv, TypeOK, ListSound
  <2>4. FileSound'
    BY <2>1 DEF FileSound, NextWrite
  <2> QED
    BY <2>2, <2>3, <2>4 DEF IInv
<1> QED
  BY <1>2, <1>3

\* An upset that is counted is within the bound.
LEMMA UpsetCounts == ASSUME TypeOK, Upset \/ UNCHANGED upsets PROVE upsets' \in 0..MaxUpsets
BY UpsetsAssumption DEF TypeOK, Upset

\* The answer of the target leaves a token of some kind.
LEMMA AnswersToken == ASSUME TypeOK, Answers PROVE token' \in {"none", "good", "expired"}
BY DEF TypeOK, Answers

LEMMA ObjectWritesKeepIInv ==
    ASSUME IInv, NEW k \in Keys, Remove(k) \/ Repair(k) \/ Create(k) \/ WriteFails(k)
    PROVE  IInv'
<1>1. k \in Keys /\ NextWrite(k) /\ Wrote(k) /\ Rest
  BY DEF Remove, Repair, Create, WriteFails
<1>2. token' \in {"none", "good", "expired"} /\ upsets' \in 0..MaxUpsets
  <2>1. TypeOK /\ token \in {"none", "good", "expired"}
    BY DEF IInv, TypeOK
  <2>2. (Answers \/ UNCHANGED token) /\ (Upset \/ UNCHANGED upsets)
    BY DEF Remove, Repair, Create, WriteFails
  <2> QED
    BY <2>1, <2>2, AnswersToken, UpsetCounts
<1>3. wanted[k] # Nothing => wanted[k] \in Backends \cup {Record}
  BY DEF IInv, TypeOK, Wishes
<1>4. /\ objects' \in [Keys -> Object \cup {Nothing}]
      /\ \A j \in Keys \ {k} : objects'[j] = objects[j]
  <2>1. CASE Remove(k) \/ WriteFails(k)
    BY <2>1 DEF IInv, TypeOK, Remove, WriteFails
  <2>2. CASE Repair(k)
    <3>1. CASE UNCHANGED objects
      BY <3>1 DEF IInv, TypeOK
    <3>2. CASE ~ UNCHANGED objects
      <4>1. SameObject(k) /\ objects' = [objects EXCEPT ![k] = Updated(k)]
        BY <2>2, <3>2 DEF Repair
      <4>2. objects[k] \in Object
        BY <4>1 DEF SameObject, IInv, TypeOK
      <4>3. Updated(k) \in Object
        BY <1>3, <2>2, <4>2 DEF Repair, Updated, Object
      <4> QED
        BY <4>1, <4>3 DEF IInv, TypeOK
    <3> QED
      BY <3>1, <3>2
  <2>3. CASE Create(k)
    <3>1. wanted[k] # Nothing
      BY <2>3 DEF Create, NextWrite, IInv, ListSound
    <3> QED
      BY <1>3, <2>3, <3>1 DEF IInv, TypeOK, Create, Made, Object
  <2> QED
    BY <2>1, <2>2, <2>3
<1> QED
  BY <1>1, <1>2, <1>4, WroteKeepsIInv

LEMMA ListsKeepIInv ==
    ASSUME IInv, ListRegistry \/ ListTarget \/ PassFails
    PROVE  IInv'
<1>1. CASE ListRegistry
  <2>1. wanted' \in Wishes
    BY <1>1, WishesAreWishes DEF IInv, ListRegistry
  <2>2. TypeOK'
    BY <1>1, <2>1 DEF IInv, TypeOK, ListRegistry, Rest
  <2>3. ListSound' /\ FileSound'
    BY <1>1 DEF ListRegistry, ListSound, FileSound
  <2> QED
    BY <2>2, <2>3 DEF IInv
<1>2. CASE ListTarget
  <2> DEFINE L == [k \in Keys |-> IF Managed(k) THEN objects[k] ELSE Nothing]
  <2>1. token' \in {"none", "good", "expired"}
    BY <1>2, AnswersToken DEF IInv, ListTarget
  <2>2. UNCHANGED <<target, key, allocs, file, loaded, objects, upsets>>
    BY <1>2 DEF ListTarget, Rest
  <2>3. CASE Return
    BY <2>1, <2>2, <2>3, ReturnKeepsIInv DEF IInv, TypeOK
  <2>4. CASE ~ Return
    <3>1. /\ listed' = L /\ todo' = Work(L) /\ step' = "write"
          /\ UNCHANGED <<wanted, stale, replaced, steady>>
      BY <1>2, <2>4 DEF ListTarget
    <3>2. L \in [Keys -> Object \cup {Nothing}]
      BY DEF IInv, TypeOK
    <3>3. todo' \subseteq Keys
      BY <3>1 DEF Work
    <3>4. TypeOK'
      BY <2>1, <2>2, <3>1, <3>2, <3>3 DEF IInv, TypeOK
    <3>5. \A k \in todo' : IF L[k] = Nothing THEN wanted[k] # Nothing
                            ELSE L[k].marked /\ objects'[k] = L[k]
      BY <2>2, <3>1, <3>3 DEF Managed, Work
    <3>6. ListSound' /\ FileSound'
      BY <3>1, <3>5 DEF ListSound, FileSound
    <3> QED
      BY <3>4, <3>6 DEF IInv
  <2> QED
    BY <2>3, <2>4
<1>3. CASE PassFails
  BY <1>3, UpsetsAssumption, ReturnKeepsIInv DEF IInv, TypeOK, PassFails, Upset, Rest
<1> QED
  BY <1>1, <1>2, <1>3

LEMMA FilePassKeepsIInv ==
    ASSUME IInv, NginxPass
    PROVE  IInv'
<1>1. CASE Render
  <2>1. wanted' \in Wishes
    BY <1>1, WishesAreWishes DEF IInv, Render
  <2>2. TypeOK'
    BY <1>1, <2>1 DEF IInv, TypeOK, Render, FileRest
  <2>3. ListSound' /\ FileSound'
    BY <1>1 DEF Render, ListSound, FileSound
  <2> QED
    BY <2>2, <2>3 DEF IInv
<1>2. CASE Compare
  <2>1. UNCHANGED <<target, key, allocs, objects, token, upsets, file, loaded>>
    BY <1>2 DEF Compare, FileRest
  <2>2. CASE Return
    BY <2>1, <2>2, ReturnKeepsIInv DEF IInv, TypeOK
  <2>3. CASE ~ Return
    <3>1. /\ ~ Refused(file) /\ step' = "truncate"
          /\ UNCHANGED <<wanted, listed, todo, stale, replaced, steady>>
      BY <1>2, <2>3 DEF Compare
    <3>2. TypeOK'
      BY <2>1, <3>1 DEF IInv, TypeOK
    <3>3. ListSound' /\ FileSound'
      BY <2>1, <3>1 DEF ListSound, FileSound, Refused
    <3> QED
      BY <3>2, <3>3 DEF IInv
  <2> QED
    BY <2>2, <2>3
<1>3. CASE Truncate \/ FillPart \/ Fill
  <2>1. file' \in File /\ step' \in {"fill", "reload"}
    BY <1>3, FilesAreFiles DEF IInv, TypeOK, Truncate, FillPart, Fill
  <2>2. TypeOK'
    BY <1>3, <2>1 DEF IInv, TypeOK, Truncate, FillPart, Fill, FileRest
  <2>3. ListSound' /\ FileSound'
    BY <2>1 DEF ListSound, FileSound
  <2> QED
    BY <2>2, <2>3 DEF IInv
<1>4. CASE Reload
  BY <1>4, ReturnKeepsIInv DEF IInv, TypeOK, Reload, FileRest
<1> QED
  BY <1>1, <1>2, <1>3, <1>4 DEF NginxPass

-----------------------------------------------------------------------------
(* Everyone else. *)

\* A change of objects by users in the middle of a pass is remembered in stale.
LEMMA UserObjectsKeepIInv ==
    ASSUME IInv, NEW k \in Keys, EditObject(k) \/ MakeObject(k) \/ DeleteObject(k)
    PROVE  IInv'
<1>1. PICK o \in Object \cup {Nothing} : objects' = [objects EXCEPT ![k] = o]
  <2>1. CASE MakeObject(k)
    <3>1. PICK b \in Backends : objects' = [objects EXCEPT ![k] = Made(FALSE, b)]
      BY <2>1 DEF MakeObject
    <3>2. Made(FALSE, b) \in Object
      BY DEF Made, Object
    <3> QED
      BY <3>1, <3>2
  <2>2. CASE EditObject(k) \/ DeleteObject(k)
    BY <2>2 DEF EditObject, DeleteObject
  <2> QED
    BY <2>1, <2>2
<1>2. /\ stale' = IF step = "write" THEN stale \cup {k} ELSE stale
      /\ replaced' \subseteq stale' /\ steady' = steady \ {k}
      /\ UNCHANGED <<allocs, token, file, loaded, target, key, wanted, listed, todo, step>>
  BY DEF EditObject, MakeObject, DeleteObject, Quiet, IInv, TypeOK
<1>3. upsets' \in 0..MaxUpsets
  <2>1. Upset
    BY DEF EditObject, MakeObject, DeleteObject
  <2> QED
    BY <2>1, UpsetCounts DEF IInv
<1>4. TypeOK'
  BY <1>1, <1>2, <1>3 DEF IInv, TypeOK
<1>5. ListSound'
  BY <1>1, <1>2 DEF IInv, TypeOK, ListSound
<1>6. FileSound'
  BY <1>2 DEF IInv, FileSound
<1> QED
  BY <1>4, <1>5, <1>6 DEF IInv

LEMMA UsersKeepIInv ==
    ASSUME IInv, Users
    PROVE  IInv'
<1>1. ASSUME NEW l \in Labels, ChangeAlloc(l) PROVE IInv'
  <2>1. allocs' \in [Labels -> Shapes \cup {Nothing}] /\ upsets' \in 0..MaxUpsets
    BY <1>1, UpsetsAssumption DEF IInv, TypeOK, ChangeAlloc, Upset
  <2>2. steady' \subseteq Keys
    BY <1>1 DEF IInv, TypeOK, ChangeAlloc
  <2>3. UNCHANGED <<objects, token, stale, replaced, file, loaded, target, key,
                    wanted, listed, todo, step>>
    BY <1>1 DEF ChangeAlloc, Quiet
  <2>4. TypeOK'
    BY <2>1, <2>2, <2>3 DEF IInv, TypeOK
  <2> QED
    BY <2>3, <2>4 DEF IInv, ListSound, FileSound
<1>2. CASE ExpireToken
  <2>1. upsets' \in 0..MaxUpsets /\ token' \in {"none", "good", "expired"}
    BY <1>2, UpsetsAssumption DEF IInv, TypeOK, ExpireToken, Upset
  <2>2. UNCHANGED <<allocs, objects, stale, replaced, file, loaded, steady, target, key,
                    wanted, listed, todo, step>>
    BY <1>2 DEF ExpireToken, Quiet
  <2>3. TypeOK'
    BY <2>1, <2>2 DEF IInv, TypeOK
  <2> QED
    BY <2>2, <2>3 DEF IInv, ListSound, FileSound
<1>3. CASE EditFile
  <2>1. upsets' \in 0..MaxUpsets
    BY <1>3, UpsetsAssumption DEF IInv, TypeOK, EditFile, Upset
  <2>2. file' \in File
    BY <1>3, FilesAreFiles, NoWishIsAWish DEF EditFile
  <2>3. /\ stale' \in {stale, Keys} /\ stale \subseteq stale'
        /\ step = "truncate" => stale' = Keys
        /\ UNCHANGED <<allocs, objects, token, replaced, loaded, steady, target, key,
                       wanted, listed, todo, step>>
    BY <1>3 DEF EditFile, Quiet, IInv, TypeOK
  <2>4. TypeOK'
    BY <2>1, <2>2, <2>3 DEF IInv, TypeOK
  <2>5. ListSound'
    BY <2>3 DEF IInv, ListSound
  <2>6. FileSound'
    BY <2>3, KeysAssumption DEF FileSound
  <2> QED
    BY <2>4, <2>5, <2>6 DEF IInv
<1> QED
  BY <1>1, <1>2, <1>3, UserObjectsKeepIInv DEF Users

-----------------------------------------------------------------------------
LEMMA InitIInv == Init => IInv
<1> SUFFICES ASSUME Init PROVE IInv
  OBVIOUS
<1>1. TypeOK
  BY NoWishIsAWish, FilesAreFiles, UpsetsAssumption DEF Init, TypeOK
<1>2. ListSound /\ FileSound
  BY DEF Init, ListSound, FileSound
<1> QED
  BY <1>1, <1>2 DEF IInv

\* A pass over objects, of whichever target, is one of the five steps.
LEMMA PassIsAStep ==
    ASSUME Pass
    PROVE  \/ ListRegistry \/ ListTarget \/ NginxPass
           \/ \E k \in Keys : Remove(k) \/ Repair(k) \/ Create(k)
BY DEF Pass, TraefikPass, GatewayPass, CloudflarePass, NpmPass, Objects

LEMMA NextIInv == IInv /\ [Next]_vars => IInv'
<1> SUFFICES ASSUME IInv, [Next]_vars PROVE IInv'
  OBVIOUS
<1>1. CASE Pass
  BY <1>1, PassIsAStep, ListsKeepIInv, FilePassKeepsIInv, ObjectWritesKeepIInv
<1>2. CASE PassFails
  BY <1>2, ListsKeepIInv
<1>3. ASSUME NEW k \in Keys, WriteFails(k) PROVE IInv'
  BY <1>3, ObjectWritesKeepIInv
<1>4. CASE Users
  BY <1>4, UsersKeepIInv
<1>5. CASE UNCHANGED vars
  BY <1>5 DEF IInv, TypeOK, ListSound, FileSound, vars
<1> QED
  BY <1>1, <1>2, <1>3, <1>4, <1>5 DEF Next

\* The invariant, for every target at once.
THEOREM Invariance == Spec => []IInv
<1> QED
  BY InitIInv, NextIInv, PTL DEF Spec

\* Objects, file and the maps of the pass stay well typed.
THEOREM TypeCorrect == Spec => []TypeOK
<1>1. IInv => TypeOK
  BY DEF IInv
<1> QED
  BY <1>1, Invariance, PTL

-----------------------------------------------------------------------------
\* The step that writes k, or gives it up, touches an object only if it is one of the
\* pass's own requests.
LEMMA WritersOnly ==
    ASSUME IInv, Next, NEW k \in Keys, Handles(k), objects'[k] # objects[k]
    PROVE  Remove(k) \/ Repair(k) \/ Create(k)
<1>1. ASSUME NEW j \in Keys, Remove(j) \/ Repair(j) \/ Create(j) PROVE j = k
  <2>1. CASE todo = {j}
    BY <2>1 DEF Handles
  <2>2. CASE todo # {j}
    BY <1>1, <2>2 DEF Handles, Remove, Repair, Create, Wrote
  <2> QED
    BY <2>1, <2>2
<1>2. ~ (NginxPass \/ ListRegistry \/ ListTarget \/ PassFails)
  BY DEF NginxPass, Render, Compare, Truncate, FillPart, Fill, Reload, FileRest, ListRegistry,
         ListTarget, PassFails
<1>3. ~ \E j \in Keys : WriteFails(j)
  BY DEF WriteFails
<1>4. ~ Users
  BY DEF Handles, Users, ChangeAlloc, EditObject, MakeObject, DeleteObject, ExpireToken,
         EditFile, Quiet
<1> QED
  BY <1>1, <1>2, <1>3, <1>4, PassIsAStep DEF Next

\* What a pass changes or removes carried the mark when it was listed, and so does a file
\* that it empties: one without the mark suffers only when it lost it, or was put there,
\* after it was listed, and then only by a request that names it as listed. No update
\* lands on a cluster object that changed since, no write on a host or record that was
\* put in the place of the listed one.
THEOREM MarksAreRespected == Spec => UnmarkedUntouched
<1> DEFINE Obj(k) == Handles(k) /\ objects[k] # Nothing /\ objects'[k] # objects[k] =>
                        /\ ~objects[k].marked => k \in stale
                        /\ target \in Services => k \notin replaced
                        /\ target \in Cluster /\ objects'[k] # Nothing => k \notin stale
           Fil == step = "truncate" /\ file.begins = "foreign" /\ file' # file => stale # {}
<1>1. IInv /\ [Next]_vars => [(\A k \in Keys : Obj(k)) /\ Fil]_vars
  <2> SUFFICES ASSUME IInv, [Next]_vars PROVE (\A k \in Keys : Obj(k)) /\ Fil
    OBVIOUS
  <2>1. Fil
    BY DEF IInv, FileSound
  <2>2. ASSUME NEW k \in Keys, Handles(k), objects[k] # Nothing, objects'[k] # objects[k]
        PROVE  /\ ~objects[k].marked => k \in stale
               /\ target \in Services => k \notin replaced
               /\ target \in Cluster /\ objects'[k] # Nothing => k \notin stale
    <3>1. Next
      BY <2>2 DEF vars
    <3>2. Remove(k) \/ Repair(k)
      <4>1. ~ Create(k)
        BY <2>2 DEF Create
      <4> QED
        BY <2>2, <3>1, <4>1, WritersOnly
    <3>3. listed[k] # Nothing /\ step = "write" /\ k \in todo
      BY <3>2 DEF Remove, Repair, NextWrite
    <3>4. ~objects[k].marked => k \in stale
      BY <3>3 DEF IInv, ListSound
    <3>5. ASSUME target \in Cluster, objects'[k] # Nothing PROVE k \notin stale
      <4>1. CASE Repair(k)
        BY <2>2, <3>5, <4>1 DEF Repair, Unchanged
      <4>2. CASE Remove(k)
        BY <2>2, <3>5, <4>2 DEF Remove, SameObject, IInv, TypeOK
      <4> QED
        BY <3>2, <4>1, <4>2
    <3>6. target \in Services => k \notin replaced
      BY <2>2, <3>2 DEF Remove, Repair, SameObject, Cluster, Services
    <3> QED
      BY <3>4, <3>5, <3>6
  <2> QED
    BY <2>1, <2>2
<1> QED
  BY <1>1, Invariance, PTL DEF Spec, UnmarkedUntouched

-----------------------------------------------------------------------------
(* What nobody touches during a pass.                                          *)

\* Of what nobody touched since the pass began the pass knows all there is: the
\* wish, the object as it was listed, and that there is something to write.
SteadySound ==
    /\ step \in {"compare", "truncate", "fill", "reload"} => ~ Works
    /\ step \in {"list", "write"} => Works /\ \A k \in steady : wanted[k] = Wish(k)
    /\ Works /\ step # "write" => stale = {}
    /\ step = "write" =>
           /\ \A k \in todo : listed[k] # Nothing => Differs(k, listed[k])
           /\ \A k \in steady : /\ k \notin stale
                                /\ k \in todo /\ listed[k] = Nothing => ~ Managed(k)

SInv == IInv /\ SteadySound

\* What is asked for an object depends on the allocations with its name only.
LEMMA WishStays ==
    ASSUME NEW k \in Keys, UNCHANGED <<target, key>>,
           \A l \in Labels : key[l] = k => allocs'[l] = allocs[l]
    PROVE  Wish(k)' = Wish(k)
<1> DEFINE L == {l \in Labels : key[l] = k /\ Desired(allocs[l]) # Nothing}
<1>1. \A l \in Labels : key[l] = k => Desired(allocs[l])' = Desired(allocs[l])
  BY DEF Desired
<1>2. L' = L
  BY <1>1
<1>3. CASE L = {}
  BY <1>2, <1>3, Zenon DEF Wish
<1>4. CASE L # {}
  <2>1. L \in SUBSET (0..LabelCount)
    BY LabelsAssumption DEF Labels
  <2>2. Greatest(L) \in L
    BY <1>4, <2>1, LabelsAssumption, GreatestExists, Zenon
  <2>3. Desired(allocs[Greatest(L)])' = Desired(allocs[Greatest(L)])
    <3>1. Greatest(L)' = Greatest(L)
      BY <1>2
    <3>2. Greatest(L) \in Labels /\ key[Greatest(L)] = k
      BY <2>2
    <3> HIDE DEF L
    <3> QED
      BY <1>1, <3>1, <3>2 DEF Desired
  <2>4. Wish(k) = Desired(allocs[Greatest(L)])
    BY <1>4, Zenon DEF Wish, Greatest
  <2>5. Wish(k)' = Desired(allocs[Greatest(L)])'
    BY <1>2, <1>4, Zenon DEF Wish, Greatest
  <2> QED
    BY <2>3, <2>4, <2>5
<1> QED
  BY <1>3, <1>4

\* A pass that returns forgets everything.
LEMMA ReturnKeepsSteady ==
    ASSUME Return, UNCHANGED target
    PROVE  SteadySound'
BY DEF Return, SteadySound

\* Whatever leaves the registry and the pass where they are, and takes what it touches
\* off the steady ones.
LEMMA QuietKeepsSteady ==
    ASSUME SInv, UNCHANGED <<target, key, wanted, listed, todo, step>>,
           steady' \subseteq steady,
           \A k \in steady' : /\ objects'[k] = objects[k]
                              /\ \A l \in Labels : key[l] = k => allocs'[l] = allocs[l],
           Works /\ step # "write" => stale' = {},
           step = "write" => \A k \in steady' : k \in stale' => k \in stale
    PROVE  SteadySound'
<1>1. steady' \subseteq Keys /\ (Works' <=> Works)
  BY DEF SInv, IInv, TypeOK, Works
<1>2. \A k \in steady' : Wish(k)' = Wish(k)
  BY <1>1, WishStays
<1> QED
  BY <1>1, <1>2 DEF SInv, SteadySound, Differs, Managed

LEMMA ListsKeepSteady ==
    ASSUME SInv, ListRegistry \/ ListTarget \/ PassFails
    PROVE  SteadySound'
<1>1. UNCHANGED <<target, key, allocs, objects>>
  BY DEF ListRegistry, ListTarget, PassFails, Rest
<1>2. \A k \in Keys : Wish(k)' = Wish(k)
  BY <1>1, WishStays
<1>3. Works' <=> Works
  BY <1>1 DEF Works
<1>4. CASE ListRegistry
  BY <1>2, <1>3, <1>4 DEF ListRegistry, SteadySound, SInv
<1>5. CASE PassFails \/ Return
  BY <1>1, <1>5, ReturnKeepsSteady DEF PassFails
<1>6. CASE ListTarget /\ ~ Return
  <2> DEFINE L == [k \in Keys |-> IF Managed(k) THEN objects[k] ELSE Nothing]
  <2>1. /\ listed' = L /\ todo' = Work(L) /\ step' = "write" /\ step = "list"
        /\ UNCHANGED <<wanted, stale, replaced, steady>>
    BY <1>6 DEF ListTarget
  <2>2. Works /\ stale = {} /\ \A k \in steady : wanted[k] = Wish(k)
    BY <2>1 DEF SInv, SteadySound
  <2>3. steady \subseteq Keys /\ todo' \subseteq Keys
    BY <2>1 DEF SInv, IInv, TypeOK, Work
  <2>4. \A k \in todo' : listed'[k] # Nothing => Differs(k, listed[k])'
    BY <2>1, <2>3 DEF Work, Differs
  <2>5. \A k \in steady' : /\ k \notin stale'
                           /\ listed'[k] = Nothing => ~ Managed(k)'
    BY <1>1, <2>1, <2>2, <2>3 DEF Managed
  <2>6. \A k \in steady' : wanted'[k] = Wish(k)'
    BY <1>2, <2>1, <2>2, <2>3
  <2> QED
    BY <1>3, <2>1, <2>2, <2>4, <2>5, <2>6 DEF SteadySound
<1> QED
  BY <1>4, <1>5, <1>6

\* A request that was answered leaves one object behind it and the others alone.
LEMMA WriteKeepsSteady ==
    ASSUME SInv, NEW k \in Keys, Remove(k) \/ Repair(k) \/ Create(k) \/ WriteFails(k)
    PROVE  SteadySound'
<1>1. /\ step = "write" /\ Wrote(k) /\ UNCHANGED <<target, key, allocs>>
      /\ \A j \in Keys \ {k} : objects'[j] = objects[j]
  BY DEF Remove, Repair, Create, WriteFails, NextWrite, Rest, SInv, IInv, TypeOK
<1>2. CASE todo = {k}
  BY <1>1, <1>2, ReturnKeepsSteady DEF Wrote
<1>3. CASE todo # {k}
  <2>1. todo' = todo \ {k} /\ UNCHANGED <<wanted, listed, stale, replaced, step, steady>>
    BY <1>1, <1>3 DEF Wrote
  <2>2. \A j \in Keys : Wish(j)' = Wish(j)
    BY <1>1, WishStays
  <2>3. steady \subseteq Keys /\ todo \subseteq Keys /\ (Works' <=> Works)
    BY <1>1 DEF SInv, IInv, TypeOK, Works
  <2> QED
    BY <1>1, <2>1, <2>2, <2>3 DEF SInv, SteadySound, Differs, Managed
<1> QED
  BY <1>2, <1>3

LEMMA FilePassKeepsSteady ==
    ASSUME SInv, NginxPass
    PROVE  SteadySound'
<1>1. ~ Works /\ ~ Works'
  BY DEF NginxPass, Render, Compare, Truncate, FillPart, Fill, Reload, FileRest, SInv, IInv, SteadySound,
         Works
<1>2. step' \notin {"list", "write"}
  BY DEF NginxPass, Render, Compare, Truncate, FillPart, Fill, Reload, Return
<1> QED
  BY <1>1, <1>2 DEF SteadySound

LEMMA UsersKeepSteady ==
    ASSUME SInv, Users
    PROVE  SteadySound'
<1>1. steady \subseteq Keys /\ UNCHANGED <<target, key, wanted, listed, todo, step>>
  BY DEF SInv, IInv, TypeOK, Users, ChangeAlloc, EditObject, MakeObject, DeleteObject,
         ExpireToken, EditFile, Quiet
<1>2. Works /\ step # "write" => stale = {}
  BY DEF SInv, SteadySound
<1>3. ASSUME NEW l \in Labels, ChangeAlloc(l) PROVE SteadySound'
  <2>1. /\ steady' = steady \ {key[l]} /\ UNCHANGED <<objects, stale>>
        /\ \A m \in Labels : m # l => allocs'[m] = allocs[m]
    BY <1>3 DEF ChangeAlloc, SInv, IInv, TypeOK
  <2> QED
    BY <1>1, <1>2, <2>1, QuietKeepsSteady
<1>4. ASSUME NEW k \in Keys, EditObject(k) \/ MakeObject(k) \/ DeleteObject(k)
      PROVE  SteadySound'
  <2>1. /\ steady' = steady \ {k} /\ allocs' = allocs
        /\ stale' = IF step = "write" THEN stale \cup {k} ELSE stale
        /\ \A j \in Keys : j # k => objects'[j] = objects[j]
    BY <1>4 DEF EditObject, MakeObject, DeleteObject, SInv, IInv, TypeOK
  <2> QED
    BY <1>1, <1>2, <2>1, QuietKeepsSteady
<1>5. CASE ExpireToken
  <2>1. UNCHANGED <<allocs, objects, stale, steady>>
    BY <1>5 DEF ExpireToken
  <2> QED
    BY <1>1, <1>2, <2>1, QuietKeepsSteady
<1>6. CASE EditFile
  <2>1. ~ Works /\ UNCHANGED <<allocs, objects, steady>>
    BY <1>6 DEF EditFile
  <2>2. step \notin {"list", "write"}
    BY <2>1 DEF SInv, SteadySound
  <2> QED
    BY <1>1, <2>1, <2>2, QuietKeepsSteady
<1> QED
  BY <1>3, <1>4, <1>5, <1>6 DEF Users

LEMMA NextKeepsSInv == SInv /\ [Next]_vars => SInv'
<1> SUFFICES ASSUME SInv, [Next]_vars PROVE SteadySound'
  BY NextIInv DEF SInv
<1>1. CASE Pass
  BY <1>1, PassIsAStep, ListsKeepSteady, FilePassKeepsSteady, WriteKeepsSteady
<1>2. CASE PassFails
  BY <1>2, ListsKeepSteady
<1>3. ASSUME NEW k \in Keys, WriteFails(k) PROVE SteadySound'
  BY <1>3, WriteKeepsSteady
<1>4. CASE Users
  BY <1>4, UsersKeepSteady
<1>5. CASE UNCHANGED vars
  <2>1. UNCHANGED <<target, key, allocs, objects, wanted, listed, todo, step, stale, steady>>
    BY <1>5 DEF vars
  <2>2. Works /\ step # "write" => stale = {}
    BY DEF SInv, SteadySound
  <2> QED
    BY <2>1, <2>2, QuietKeepsSteady
<1> QED
  BY <1>1, <1>2, <1>3, <1>4, <1>5 DEF Next

\* What the pass knows of the steady ones is true, for every target.
THEOREM SteadyInvariance == Spec => []SInv
<1>1. Init => SInv
  BY InitIInv DEF Init, SInv, SteadySound
<1> QED
  BY <1>1, NextKeepsSInv, PTL DEF Spec

\* A pass never writes to an object that says what the registry has said since the pass
\* began, whatever else users have set on it.
THEOREM AgreedObjectsStay == Spec => AgreedStays
<1> DEFINE Stays(k) == Handles(k) /\ objects[k] # Nothing /\ objects[k].marked
                          /\ objects[k].says = Wish(k) => objects'[k] = objects[k]
<1>1. SInv => \A k \in steady : step = "write" /\ k \in todo =>
                  ~ (objects[k] # Nothing /\ objects[k].marked /\ objects[k].says = Wish(k))
  <2> SUFFICES ASSUME SInv, NEW k \in steady, step = "write", k \in todo,
                      objects[k] # Nothing, objects[k].marked, objects[k].says = Wish(k)
               PROVE  FALSE
    OBVIOUS
  <2>1. wanted[k] = Wish(k) /\ k \notin stale /\ listed[k] # Nothing
    BY DEF SInv, SteadySound, Managed
  <2>2. objects[k] = listed[k]
    BY <2>1 DEF SInv, IInv, ListSound
  <2> QED
    BY <2>1, <2>2 DEF SInv, SteadySound, Differs
<1>2. SInv => [\A k \in steady : Stays(k)]_vars
  BY <1>1 DEF Handles
<1> QED
  BY <1>2, SteadyInvariance, PTL DEF AgreedStays

\* The fields users set on a host or record survive every repair, also when they were
\* set after the pass had read the object.
THEOREM UserFieldsAreKept == Spec => UserFieldsSurvive
<1> DEFINE Survives(k) == Handles(k) /\ target \in Services /\ wanted[k] # Nothing
                             /\ objects[k] # Nothing /\ objects[k].extra
                          => objects'[k] # Nothing /\ objects'[k].extra
<1>1. IInv /\ [Next]_vars => [\A k \in Keys : Survives(k)]_vars
  <2> SUFFICES ASSUME IInv, Next, NEW k \in Keys, Handles(k), target \in Services,
                      wanted[k] # Nothing, objects[k] # Nothing, objects[k].extra,
                      objects'[k] # objects[k]
               PROVE  objects'[k] # Nothing /\ objects'[k].extra
    BY DEF vars
  <2>1. Repair(k)
    <3>1. ~ Remove(k) /\ ~ Create(k)
      BY DEF Remove, Create
    <3> QED
      BY <3>1, WritersOnly
  <2>2. objects'[k] = Updated(k)
    BY <2>1 DEF Repair, IInv, TypeOK
  <2>3. Updated(k).extra /\ Updated(k) \in Object
    <3>1. wanted[k] \in Backends \cup {Record} /\ objects[k] \in Object
      BY DEF IInv, TypeOK, Wishes
    <3> QED
      BY <3>1 DEF Updated, Object
  <2>4. objects'[k] \in Object
    BY <2>2, <2>3
  <2> QED
    BY <2>2, <2>3, <2>4, NoObjectAssumption
<1> QED
  BY <1>1, Invariance, PTL DEF Spec, UserFieldsSurvive

-----------------------------------------------------------------------------
(* What a pass achieves: what safety has to say of Converges.                  *)

\* The object of k is wanted as it is, and not missing.
AgreesAt(k) == /\ Managed(k) => objects[k].says = Wish(k)
               /\ Wish(k) # Nothing => objects[k] # Nothing

\* Of what nobody touches since a pass over objects began, the pass skips only what agrees
\* with the registry, a write that is answered brings agreement, and agreement once
\* reached is not lost by any step of the pass: so a pass in which nothing is upset ends
\* in Agrees, and passes after it stay there.
Advances(k) ==
    /\ AgreesAt(k) => AgreesAt(k)'
    /\ step = "list" /\ step' # "list" /\ k \notin todo' => AgreesAt(k)'
    /\ Handles(k) => AgreesAt(k)'
PassAdvances == [][upsets' = upsets => \A k \in steady : Advances(k)]_vars

\* The write of a steady object says what the registry says, or finds the name taken by
\* an object that is not gerry's.
LEMMA WritesBringAgreement ==
    ASSUME SInv, NEW k \in steady, Remove(k) \/ Repair(k) \/ Create(k)
    PROVE  AgreesAt(k)'
<1>1. /\ k \in Keys /\ step = "write" /\ k \in todo /\ UNCHANGED <<target, key, allocs>>
  BY DEF SInv, IInv, TypeOK, Remove, Repair, Create, NextWrite, Rest
<1>2. Wish(k)' = Wish(k) /\ wanted[k] = Wish(k) /\ k \notin stale /\ k \notin replaced
  BY <1>1, WishStays DEF SInv, IInv, TypeOK, SteadySound
<1>3. objects \in [Keys -> Object \cup {Nothing}]
  BY DEF SInv, IInv, TypeOK
<1>4. CASE Create(k)
  <2>1. ~ Managed(k) /\ Wish(k) # Nothing
    BY <1>1, <1>2, <1>4 DEF Create, SInv, IInv, SteadySound, ListSound
  <2>2. CASE objects[k] = Nothing
    <3>1. objects'[k] = Made(TRUE, Wish(k))
      BY <1>1, <1>2, <1>3, <1>4, <2>2 DEF Create
    <3>2. Wish(k) \in Backends \cup {Record}
      BY <1>1, <2>1, WishIsAWish DEF SInv, IInv
    <3>3. objects'[k] \in Object /\ objects'[k].says = Wish(k)
      BY <3>1, <3>2 DEF Made, Object
    <3> QED
      BY <1>2, <3>3, NoObjectAssumption DEF AgreesAt
  <2>3. CASE objects[k] # Nothing
    BY <1>2, <1>4, <2>1, <2>3 DEF Create, AgreesAt, Managed
  <2> QED
    BY <2>2, <2>3
<1>5. CASE Remove(k) \/ Repair(k)
  <2>1. objects[k] = listed[k] /\ listed[k] # Nothing
    BY <1>1, <1>2, <1>5 DEF Remove, Repair, SInv, IInv, ListSound
  <2>2. SameObject(k) /\ Unchanged(k)
    BY <1>2, <2>1 DEF SameObject, Unchanged
  <2>3. CASE Remove(k)
    BY <1>1, <1>2, <1>3, <2>2, <2>3 DEF Remove, AgreesAt, Managed
  <2>4. CASE Repair(k)
    <3>1. objects'[k] = Updated(k) /\ Wish(k) # Nothing
      BY <1>1, <1>2, <1>3, <2>2, <2>4 DEF Repair
    <3>2. Wish(k) \in Backends \cup {Record} /\ objects[k] \in Object
      BY <1>1, <1>3, <2>1, <3>1, WishIsAWish DEF SInv, IInv
    <3>3. Updated(k) \in Object /\ Updated(k).says = Wish(k)
      BY <1>2, <3>2 DEF Updated, Object
    <3> QED
      BY <1>2, <3>1, <3>3, NoObjectAssumption DEF AgreesAt
  <2> QED
    BY <1>5, <2>3, <2>4
<1> QED
  BY <1>4, <1>5

\* An object as the registry asks stays so when neither of the two moves.
LEMMA AgreementStays ==
    ASSUME NEW k \in Keys, UNCHANGED <<target, key, allocs>>, objects'[k] = objects[k], AgreesAt(k)
    PROVE  AgreesAt(k)'
<1>1. Wish(k)' = Wish(k)
  BY WishStays
<1> QED
  BY <1>1 DEF AgreesAt, Managed

\* What ListTarget finds nothing to write for agrees.
LEMMA PassedOverAgrees ==
    ASSUME SInv, NEW k \in steady, ListTarget, k \notin todo'
    PROVE  AgreesAt(k)'
<1> DEFINE L == [j \in Keys |-> IF Managed(j) THEN objects[j] ELSE Nothing]
<1>1. k \in Keys /\ wanted[k] = Wish(k) /\ UNCHANGED <<target, key, allocs, objects>>
  BY DEF SInv, IInv, TypeOK, SteadySound, ListTarget, Rest
<1>2. k \notin Work(L)
  BY DEF ListTarget, Return
<1>3. L[k] = IF Managed(k) THEN objects[k] ELSE Nothing
  BY <1>1
<1>4. IF L[k] = Nothing THEN Wish(k) = Nothing ELSE L[k].says = Wish(k)
  BY <1>1, <1>2 DEF Work, Differs
<1>5. AgreesAt(k)
  BY <1>3, <1>4 DEF AgreesAt, Managed
<1> QED
  BY <1>1, <1>5, AgreementStays

\* A pass of any of the four writers of objects moves what nobody touches into agreement
\* with the registry and never out of it.
THEOREM PassesAdvance == Spec => PassAdvances
<1>1. SInv /\ [Next]_vars => [upsets' = upsets => \A k \in steady : Advances(k)]_vars
  <2> SUFFICES ASSUME SInv, Next, upsets' = upsets, NEW k \in steady
               PROVE  Advances(k)
    BY DEF vars
  <2>1. k \in Keys /\ upsets \in Nat
    BY UpsetsAssumption DEF SInv, IInv, TypeOK
  <2>2. Pass
    <3>1. ~ Upset
      BY <2>1 DEF Upset
    <3>2. ~ Users
      BY <3>1 DEF Users, ChangeAlloc, EditObject, MakeObject, DeleteObject, ExpireToken, EditFile
    <3> QED
      BY <3>1, <3>2 DEF Next, PassFails, WriteFails
  <2>3. CASE ListRegistry
    <3>1. UNCHANGED <<target, key, allocs, objects>> /\ step = "idle"
      BY <2>3 DEF ListRegistry, Rest
    <3> QED
      BY <2>1, <3>1, AgreementStays DEF Advances, Handles
  <2>4. CASE ListTarget
    <3>1. UNCHANGED <<target, key, allocs, objects>> /\ step = "list"
      BY <2>4 DEF ListTarget, Rest
    <3> QED
      BY <2>1, <2>4, <3>1, AgreementStays, PassedOverAgrees DEF Advances, Handles
  <2>5. ASSUME NEW j \in Keys, Remove(j) \/ Repair(j) \/ Create(j)
        PROVE  Advances(k)
    <3>1. /\ step = "write" /\ UNCHANGED <<target, key, allocs>>
          /\ Wrote(j) /\ \A i \in Keys \ {j} : objects'[i] = objects[i]
      BY <2>5 DEF Remove, Repair, Create, NextWrite, Rest, SInv, IInv, TypeOK
    <3>2. CASE j = k
      BY <2>5, <3>1, <3>2, WritesBringAgreement DEF Advances
    <3>3. CASE j # k
      <4>1. ~ Handles(k) \/ todo = {j}
        BY <3>1, <3>3 DEF Wrote, Handles
      <4>2. ~ Handles(k)
        BY <3>3, <4>1 DEF Handles
      <4> QED
        BY <2>1, <3>1, <3>3, <4>2, AgreementStays DEF Advances
    <3> QED
      BY <3>2, <3>3
  <2>6. CASE NginxPass
    <3>1. UNCHANGED <<target, key, allocs, objects>>
      BY <2>6 DEF NginxPass, Render, Compare, Truncate, FillPart, Fill, Reload, FileRest
    <3>2. step \notin {"list", "write"}
      BY <2>6 DEF NginxPass, Render, Compare, Truncate, FillPart, Fill, Reload
    <3> QED
      BY <2>1, <3>1, <3>2, AgreementStays DEF Advances, Handles
  <2> QED
    BY <2>2, <2>3, <2>4, <2>5, <2>6, PassIsAStep
<1> QED
  BY <1>1, SteadyInvariance, PTL DEF Spec, PassAdvances
=============================================================================
