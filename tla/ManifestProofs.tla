--------------------------- MODULE ManifestProofs ---------------------------
(***************************************************************************)
(* Safety of Manifest and of the catalog in it, for any files, publishers, *)
(* bundles and logos, and any number of applies, other requests and        *)
(* failures: first what always holds of the tables and the requests (IInv),*)
(* then what an apply may touch (OwnInv) and what it has done (DInv).      *)
(***************************************************************************)
EXTENDS Manifest, TablesProofs

-----------------------------------------------------------------------------
(* The catalog. *)

\* Every deployment's application and service are there.
Rooted(E) ==
    \A k \in Of(E, "deployment") : /\ E[k].app \in Of(E, "application")
                                   /\ E[k].service \in Of(E, "service")

Imported(E) == \A k \in DOMAIN E : Logo(E[k]) \in assets \cup {Nothing}

OneKeyEach(E) ==
    \A j, k \in Of(E, "service") : E[j].app = E[k].app /\ E[j].key = E[k].key => j = k

\* What Published says of a bundle, of the whole catalog.
Selects(E, k) ==
    \E c \in Of(E, "capability") : /\ E[c].service = E[k].service
                                   /\ E[c].version = E[k].selects
                                   /\ E[c].app = E[k].app
AllSelect(E) == \A k \in Of(E, "deployment") : E[k].selects # Nothing => Selects(E, k)

Whole(E) == Rooted(E) /\ Imported(E) /\ OneKeyEach(E) /\ AllSelect(E)

\* A bundle that is no conflict leaves every fixed field of every row alone.
LEMMA FixedFieldsStay ==
    ASSUME NEW E, NEW b, ~Conflict(E, b), NEW k \in DOMAIN E, NEW f \in Immutable(Kind(k))
    PROVE  Merged(E, b)[k][f] = E[k][f]
<1>1. CASE k \in DOMAIN b
  BY <1>1 DEF Conflict, Merged
<1>2. CASE k \notin DOMAIN b
  BY <1>2 DEF Merged
<1> QED
  BY <1>1, <1>2

\* A capability of the catalog stays as it is, every field of it.
LEMMA CapabilitiesStay ==
    ASSUME NEW E, NEW b, WellFormed(E), WellFormed(b), ~Conflict(E, b),
           NEW c \in Of(E, "capability")
    PROVE  Merged(E, b)[c] = E[c]
<1>1. c \in DOMAIN E /\ Kind(c) = "capability"
  BY DEF Of
<1>2. Immutable(Kind(c)) = Fields(Kind(c))
  BY <1>1 DEF Immutable
<1>3. CASE c \in DOMAIN b
  <2>1. /\ E[c] = [f \in Fields(Kind(c)) |-> E[c][f]]
        /\ b[c] = [f \in Fields(Kind(c)) |-> b[c][f]]
    BY <1>1, <1>3 DEF WellFormed
  <2>2. \A f \in Fields(Kind(c)) : b[c][f] = E[c][f]
    BY <1>1, <1>2, <1>3 DEF Conflict
  <2>3. [f \in Fields(Kind(c)) |-> E[c][f]] = [f \in Fields(Kind(c)) |-> b[c][f]]
    BY <2>2
  <2>4. b[c] = E[c]
    BY <2>1, <2>3, Zenon
  <2> QED
    BY <1>1, <1>3, <2>4 DEF Merged
<1>4. CASE c \notin DOMAIN b
  BY <1>1, <1>4 DEF Merged
<1> QED
  BY <1>3, <1>4

LEMMA WellFormedMerged ==
    ASSUME NEW E, NEW b, WellFormed(E), WellFormed(b)
    PROVE  WellFormed(Merged(E, b))
<1> DEFINE M == Merged(E, b)
<1> SUFFICES ASSUME NEW k \in DOMAIN M
             PROVE  /\ Kind(k) \in Kinds
                    /\ M[k] = [f \in Fields(Kind(k)) |-> M[k][f]]
                    /\ Logo(M[k]) \in Assets \cup {Nothing}
                    /\ Kind(k) = "deployment" => M[k].life \in {"registered", "inactive"}
  BY Zenon DEF WellFormed
<1>1. CASE k \in DOMAIN b
  <2>1. M[k] = b[k]
    BY <1>1 DEF Merged
  <2> HIDE DEF M
  <2> QED
    BY <1>1, <2>1 DEF WellFormed
<1>2. CASE k \notin DOMAIN b
  <2>1. M[k] = E[k] /\ k \in DOMAIN E
    BY <1>2 DEF Merged
  <2> HIDE DEF M
  <2> QED
    BY <2>1 DEF WellFormed
<1> QED
  BY <1>1, <1>2

\* Two services of one application, one in the catalog and one in the bundle, that share
\* their key are a conflict; two in the bundle are refused by Validate.
LEMMA KeysStayApart ==
    ASSUME NEW E, NEW b, OneKeyEach(E), Validate(b), ~Conflict(E, b)
    PROVE  OneKeyEach(Merged(E, b))
<1> DEFINE M == Merged(E, b)
<1> SUFFICES ASSUME NEW j \in Of(M, "service"), NEW k \in Of(M, "service"),
                    M[j].app = M[k].app, M[j].key = M[k].key
             PROVE  j = k
  BY Zenon DEF OneKeyEach
<1>1. \A i \in Of(M, "service") : /\ Kind(i) = "service"
                                  /\ i \in DOMAIN b => M[i] = b[i] /\ i \in Of(b, "service")
                                  /\ i \notin DOMAIN b => M[i] = E[i] /\ i \in Of(E, "service")
  BY DEF Of, Merged
<1>2. \A i \in DOMAIN b : \A e \in DOMAIN E : e = i /\ Kind(i) = "service" =>
            E[e].app = b[i].app /\ E[e].key = b[i].key
  BY DEF Conflict, Immutable
<1>3. \A e \in Of(E, "service") : \A i \in Of(b, "service") :
          i # e => ~(E[e].app = b[i].app /\ E[e].key = b[i].key)
  <2> SUFFICES ASSUME NEW e \in Of(E, "service"), NEW i \in Of(b, "service"), i # e,
                      E[e].app = b[i].app, E[e].key = b[i].key
               PROVE  FALSE
    OBVIOUS
  <2>1. i \in DOMAIN b /\ Kind(i) = "service" /\ e \in Of(E, Kind(i)) \ {i}
    BY DEF Of
  <2>2. /\ Natural("service", E[e]) = <<E[e].key>>
        /\ Natural("service", b[i]) = <<b[i].key>>
    BY DEF Natural
  <2>3. <<E[e].key>> # <<>>
    OBVIOUS
  <2>4. SameNatural(Kind(i), E[e], b[i])
    BY <2>1, <2>2, <2>3 DEF SameNatural
  <2> QED
    BY <2>1, <2>4 DEF Conflict
<1> HIDE DEF M
<1>4. CASE j \in DOMAIN b /\ k \in DOMAIN b
  BY <1>1, <1>4 DEF Validate
<1>5. CASE j \in DOMAIN b /\ k \notin DOMAIN b
  BY <1>1, <1>3, <1>5
<1>6. CASE j \notin DOMAIN b /\ k \in DOMAIN b
  BY <1>1, <1>3, <1>6
<1>7. CASE j \notin DOMAIN b /\ k \notin DOMAIN b
  BY <1>1, <1>7 DEF OneKeyEach
<1> QED
  BY <1>4, <1>5, <1>6, <1>7

LEMMA RootsStay ==
    ASSUME NEW E, NEW b, Rooted(E), Validate(b)
    PROVE  Rooted(Merged(E, b))
<1> DEFINE M == Merged(E, b)
<1> SUFFICES ASSUME NEW k \in Of(M, "deployment")
             PROVE  M[k].app \in Of(M, "application") /\ M[k].service \in Of(M, "service")
  BY Zenon DEF Rooted
<1>1. \A i \in Of(E, "application") \cup Of(b, "application") : i \in Of(M, "application")
  BY DEF Of, Merged
<1>2. \A i \in Of(E, "service") \cup Of(b, "service") : i \in Of(M, "service")
  BY DEF Of, Merged
<1>3. CASE k \in DOMAIN b
  <2>1. M[k] = b[k] /\ k \in Of(b, "deployment")
    BY <1>3 DEF Of, Merged
  <2>2. App(b) \in Of(b, "application")
    BY DEF Validate, App
  <2>3. k # App(b)
    BY <2>1, <2>2 DEF Of
  <2>4. b[k].app = App(b) /\ b[k].service \in Of(b, "service")
    BY <1>3, <2>1, <2>3 DEF Validate
  <2> HIDE DEF M
  <2> QED
    BY <1>1, <1>2, <2>1, <2>2, <2>4
<1>4. CASE k \notin DOMAIN b
  <2>1. M[k] = E[k] /\ k \in Of(E, "deployment")
    BY <1>4 DEF Of, Merged
  <2> HIDE DEF M
  <2> QED
    BY <1>1, <1>2, <2>1 DEF Rooted
<1> QED
  BY <1>3, <1>4

LEMMA SelectionsStay ==
    ASSUME NEW E, NEW b, WellFormed(E), WellFormed(b), AllSelect(E), ~Conflict(E, b),
           Published(E, b)
    PROVE  AllSelect(Merged(E, b))
<1> DEFINE M == Merged(E, b)
<1> SUFFICES ASSUME NEW k \in Of(M, "deployment"), M[k].selects # Nothing
             PROVE  Selects(M, k)
  BY Zenon DEF AllSelect
<1>1. CASE k \in DOMAIN b
  <2>1. M[k] = b[k] /\ k \in Of(b, "deployment")
    BY <1>1 DEF Of, Merged
  <2>2. PICK c \in Of(M, "capability") : /\ M[c].service = b[k].service
                                        /\ M[c].version = b[k].selects
                                        /\ M[c].app = b[k].app
    BY <2>1 DEF Published
  <2> HIDE DEF M
  <2> QED
    BY <2>1, <2>2 DEF Selects
<1>2. CASE k \notin DOMAIN b
  <2>1. M[k] = E[k] /\ k \in Of(E, "deployment")
    BY <1>2 DEF Of, Merged
  <2>2. Selects(E, k)
    BY <2>1 DEF AllSelect
  <2>3. PICK c \in Of(E, "capability") : /\ E[c].service = E[k].service
                                        /\ E[c].version = E[k].selects
                                        /\ E[c].app = E[k].app
    BY <2>2 DEF Selects
  <2>4. M[c] = E[c]
    BY CapabilitiesStay
  <2>5. c \in Of(M, "capability")
    BY DEF Of, Merged
  <2> HIDE DEF M
  <2> QED
    BY <2>1, <2>3, <2>4, <2>5 DEF Selects
<1> QED
  BY <1>1, <1>2

\* An accepted bundle leaves the catalog whole.
LEMMA WholeMerged ==
    ASSUME NEW b, WellFormed(entries), WellFormed(b), Whole(entries), Accepts(b)
    PROVE  Whole(Merged(entries, b))
<1>1. Imported(Merged(entries, b))
  BY DEF Merged, Imported, Whole, Accepts, LogosImported
<1>2. /\ Rooted(Merged(entries, b))
      /\ OneKeyEach(Merged(entries, b))
      /\ AllSelect(Merged(entries, b))
  BY RootsStay, KeysStayApart, SelectionsStay DEF Whole, Accepts
<1> QED
  BY <1>1, <1>2 DEF Whole

Off(E, k) == [E EXCEPT ![k].life = "inactive"]

\* The row of a deployment that is deactivated is otherwise as it was.
LEMMA Deactivated ==
    ASSUME NEW E, WellFormed(E), NEW k \in Of(E, "deployment")
    PROVE  /\ DOMAIN Off(E, k) = DOMAIN E
           /\ \A j \in DOMAIN E : j # k => Off(E, k)[j] = E[j]
           /\ Off(E, k)[k] = [f \in Fields("deployment") |-> IF f = "life" THEN "inactive" ELSE E[k][f]]
<1>1. k \in DOMAIN E /\ Kind(k) = "deployment"
  BY DEF Of
<1>2. Off(E, k)[k] = [E[k] EXCEPT !.life = "inactive"]
  BY <1>1 DEF Off
<1>3. E[k] = [f \in Fields("deployment") |-> E[k][f]]
  BY <1>1 DEF WellFormed
<1>4. DOMAIN E[k] = Fields("deployment")
  BY <1>3
<1>5. Off(E, k)[k] = [f \in DOMAIN E[k] |-> IF f = "life" THEN "inactive" ELSE E[k][f]]
  BY <1>2
<1> QED
  BY <1>1, <1>4, <1>5 DEF Off

LEMMA WellFormedDeactivated ==
    ASSUME NEW E, WellFormed(E), NEW k \in Of(E, "deployment")
    PROVE  WellFormed(Off(E, k))
<1> DEFINE D == Off(E, k)
<1>1. /\ DOMAIN D = DOMAIN E
      /\ \A j \in DOMAIN E : j # k => D[j] = E[j]
      /\ D[k] = [f \in Fields("deployment") |-> IF f = "life" THEN "inactive" ELSE E[k][f]]
  BY Deactivated
<1>2. k \in DOMAIN E /\ Kind(k) = "deployment"
  BY DEF Of
<1>3. DOMAIN D[k] = Fields("deployment")
  BY <1>1
<1>4. D[k].life = "inactive"
  BY <1>1 DEF Fields
<1>5. D[k] = [f \in Fields("deployment") |-> D[k][f]]
  BY <1>1
<1>6. "logo" \notin Fields("deployment")
  BY DEF Fields
<1>7. Logo(D[k]) = Nothing
  BY <1>3, <1>6 DEF Logo
<1> HIDE DEF D
<1>8. WellFormed(D)
  BY <1>1, <1>2, <1>4, <1>5, <1>7 DEF WellFormed, Kinds
<1> QED
  BY <1>8 DEF D

LEMMA WholeDeactivated ==
    ASSUME NEW E, WellFormed(E), Whole(E), NEW k \in Of(E, "deployment")
    PROVE  Whole(Off(E, k))
<1> DEFINE D == Off(E, k)
<1>1. /\ DOMAIN D = DOMAIN E
      /\ \A j \in DOMAIN E : j # k => D[j] = E[j]
      /\ D[k] = [f \in Fields("deployment") |-> IF f = "life" THEN "inactive" ELSE E[k][f]]
  BY Deactivated
<1>2. k \in DOMAIN E /\ Kind(k) = "deployment"
  BY DEF Of
<1>3. /\ D[k].app = E[k].app /\ D[k].service = E[k].service
      /\ D[k].selects = E[k].selects
      /\ DOMAIN D[k] = Fields("deployment")
  BY <1>1 DEF Fields
<1>4. Logo(D[k]) = Nothing
  BY <1>3 DEF Logo, Fields
<1> HIDE DEF D
<1>5. \A kind \in Kinds : Of(D, kind) = Of(E, kind)
  BY <1>1 DEF Of
<1>6. Rooted(D)
  <2>1. \A j \in Of(E, "deployment") : D[j].app = E[j].app /\ D[j].service = E[j].service
    BY <1>1, <1>3 DEF Of
  <2>2. /\ Of(D, "deployment") = Of(E, "deployment")
        /\ Of(D, "application") = Of(E, "application")
        /\ Of(D, "service") = Of(E, "service")
    BY <1>5 DEF Kinds
  <2> QED
    BY <2>1, <2>2, Zenon DEF Rooted, Whole
<1>7. Imported(D)
  BY <1>1, <1>4 DEF Imported, Whole
<1>8. OneKeyEach(D)
  <2>1. \A j \in Of(E, "service") : D[j] = E[j]
    BY <1>1, <1>2 DEF Of
  <2> QED
    BY <1>5, <2>1 DEF OneKeyEach, Whole, Kinds
<1>9. AllSelect(D)
  <2>1. \A j \in Of(E, "capability") : D[j] = E[j]
    BY <1>1, <1>2 DEF Of
  <2>2. \A j \in Of(E, "deployment") : /\ D[j].app = E[j].app
                                      /\ D[j].service = E[j].service
                                      /\ D[j].selects = E[j].selects
    BY <1>1, <1>3 DEF Of
  <2> QED
    BY <1>5, <2>1, <2>2 DEF AllSelect, Selects, Whole, Kinds
<1>10. Whole(D)
  BY <1>6, <1>7, <1>8, <1>9 DEF Whole
<1> QED
  BY <1>10 DEF D

-----------------------------------------------------------------------------
(* The inductive invariant. *)

OfSomebody(b) == b \in Bundles \cup {Files[f].bundle : f \in DOMAIN Files}

CatalogOK == /\ WellFormed(entries) /\ DOMAIN entries \subseteq CatalogKeys
             /\ assets \subseteq Assets
             /\ Whole(entries)

RowsOK == /\ DOMAIN rows \subseteq Nat \ {0}
          /\ \A i \in DOMAIN rows : rows[i] \in Row
          /\ \A i, j \in DOMAIN rows : rows[i].label = rows[j].label => i = j

\* A request works on a file that exists, on hostnames of it, and has a row half released
\* only while it prunes.
Sound(a) ==
    /\ a \in Apply
    /\ a.step # "idle" => a.file \in DOMAIN Files /\ a.todo \subseteq DOMAIN Files[a.file].claims
    /\ a.step \in {"look", "update"} => a.at \in DOMAIN Files[a.file].claims
    /\ a.half # 0 => a.step = "prune"
ClientsOK == apply \in [Clients -> Apply] /\ \A p \in Clients : Sound(apply[p])

\* Some number is above every id in use: the next id is one.
Ids(a) == {a.id, a.half} \cup a.gone
Below(n) == DOMAIN rows \subseteq 1..n /\ \A p \in Clients : Ids(apply[p]) \subseteq 0..n
IdsBounded == \E n \in Nat : Below(n)

BookOK == /\ engine \in {"sqlite", "postgres"}
          /\ steady \in [Clients -> SUBSET (Labels \cup CatalogKeys)]
          /\ applies \in 0..MaxApplies /\ upsets \in 0..MaxUpsets

IInv == CatalogOK /\ RowsOK /\ ClientsOK /\ IdsBounded /\ BookOK

LEMMA BundlesWellFormed == \A b : OfSomebody(b) => WellFormed(b) /\ DOMAIN b \subseteq CatalogKeys
<1> SUFFICES ASSUME NEW b, OfSomebody(b) PROVE WellFormed(b) /\ DOMAIN b \subseteq CatalogKeys
  OBVIOUS
<1>1. CASE b \in Bundles
  BY <1>1, BundlesAssumption DEF CatalogKeys
<1>2. CASE b \in {Files[f].bundle : f \in DOMAIN Files}
  BY <1>2, FilesAssumption DEF CatalogKeys
<1> QED
  BY <1>1, <1>2 DEF OfSomebody

\* What a step may do to the catalog.
CatalogStep ==
    \/ UNCHANGED <<entries, assets>>
    \/ \E b : OfSomebody(b) /\ ApplyCatalog(b) /\ assets' = assets
    \/ \E k : DeactivateCatalogDeployment(k) /\ assets' = assets
    \/ \E a \in Assets : PutCatalogAsset(a) /\ entries' = entries

LEMMA CatalogKept ==
    ASSUME CatalogOK, CatalogStep
    PROVE  CatalogOK'
<1>1. CASE UNCHANGED <<entries, assets>>
  <2>1. Whole(entries)'
    BY <1>1 DEF CatalogOK, Whole, Rooted, Imported, OneKeyEach, AllSelect, Selects
  <2> QED
    BY <1>1, <2>1 DEF CatalogOK
<1>2. ASSUME NEW b, OfSomebody(b), ApplyCatalog(b), assets' = assets PROVE CatalogOK'
  <2>1. WellFormed(b) /\ DOMAIN b \subseteq CatalogKeys
    BY <1>2, BundlesWellFormed
  <2>2. CASE Accepts(b)
    <3>1. entries' = Merged(entries, b)
      BY <1>2, <2>2 DEF ApplyCatalog
    <3>2. Whole(Merged(entries, b)) /\ WellFormed(Merged(entries, b))
      BY <2>1, <2>2, WholeMerged, WellFormedMerged DEF CatalogOK
    <3>3. DOMAIN Merged(entries, b) \subseteq CatalogKeys
      BY <2>1 DEF Merged, CatalogOK
    <3>4. WellFormed(entries') /\ DOMAIN entries' \subseteq CatalogKeys
      BY <3>1, <3>2, <3>3
    <3>5. Whole(entries)'
      BY <1>2, <3>1, <3>2 DEF Whole, Rooted, Imported, OneKeyEach, AllSelect, Selects
    <3> QED
      BY <1>2, <3>4, <3>5 DEF CatalogOK
  <2>3. CASE ~Accepts(b)
    BY <1>1, <1>2, <2>3 DEF ApplyCatalog
  <2> QED
    BY <2>2, <2>3
<1>3. ASSUME NEW k, DeactivateCatalogDeployment(k), assets' = assets PROVE CatalogOK'
  <2>1. CASE k \in Of(entries, "deployment")
    <3>1. entries' = Off(entries, k)
      BY <1>3, <2>1 DEF DeactivateCatalogDeployment, Off
    <3>2. Whole(Off(entries, k)) /\ WellFormed(Off(entries, k))
      BY <2>1, WholeDeactivated, WellFormedDeactivated DEF CatalogOK
    <3>3. DOMAIN Off(entries, k) = DOMAIN entries
      BY <2>1, Deactivated DEF CatalogOK
    <3>4. WellFormed(entries') /\ DOMAIN entries' \subseteq CatalogKeys
      BY <3>1, <3>2, <3>3 DEF CatalogOK
    <3>5. Whole(entries)'
      BY <1>3, <3>1, <3>2 DEF Whole, Rooted, Imported, OneKeyEach, AllSelect, Selects
    <3> QED
      BY <1>3, <3>4, <3>5 DEF CatalogOK
  <2>2. CASE k \notin Of(entries, "deployment")
    BY <1>1, <1>3, <2>2 DEF DeactivateCatalogDeployment
  <2> QED
    BY <2>1, <2>2
<1>4. ASSUME NEW a \in Assets, PutCatalogAsset(a), entries' = entries PROVE CatalogOK'
  <2>1. Imported(entries)'
    BY <1>4 DEF PutCatalogAsset, CatalogOK, Whole, Imported
  <2>2. Whole(entries)'
    BY <1>4, <2>1 DEF CatalogOK, Whole, Rooted, OneKeyEach, AllSelect, Selects
  <2> QED
    BY <1>4, <2>2 DEF PutCatalogAsset, CatalogOK
<1> QED
  BY <1>1, <1>2, <1>3, <1>4 DEF CatalogStep

\* Identities and capability versions survive every step of the catalog.
Stays(k) ==
    /\ k \in DOMAIN entries'
    /\ Kind(k) = "capability" => entries'[k] = entries[k]
    /\ \A f \in {"project", "app", "key", "service", "scope"} \cap DOMAIN entries[k] :
          entries'[k][f] = entries[k][f]

LEMMA EntryStays ==
    ASSUME CatalogOK, CatalogStep, NEW k \in DOMAIN entries
    PROVE  Stays(k)
<1>1. CASE entries' = entries
  BY <1>1 DEF Stays
<1>2. ASSUME NEW b, OfSomebody(b), ApplyCatalog(b) PROVE Stays(k)
  <2>1. CASE Accepts(b)
    <3>1. entries' = Merged(entries, b) /\ ~Conflict(entries, b)
      BY <1>2, <2>1 DEF ApplyCatalog, Accepts
    <3>2. k \in DOMAIN entries'
      BY <3>1 DEF Merged
    <3>3. Kind(k) = "capability" => entries'[k] = entries[k]
      BY <1>2, <3>1, CapabilitiesStay, BundlesWellFormed DEF CatalogOK, Of
    <3>4. ASSUME NEW f \in {"project", "app", "key", "service", "scope"} \cap DOMAIN entries[k]
          PROVE  entries'[k][f] = entries[k][f]
      <4>1. /\ Kind(k) \in Kinds
            /\ entries[k] = [g \in Fields(Kind(k)) |-> entries[k][g]]
        BY DEF CatalogOK, WellFormed
      <4>2. f \in Fields(Kind(k))
        BY <4>1
      <4>3. f \in Immutable(Kind(k))
        BY <4>1, <4>2 DEF Kinds, Fields, Immutable
      <4> QED
        BY <3>1, <4>3, FixedFieldsStay
    <3> QED
      BY <3>2, <3>3, <3>4 DEF Stays
  <2>2. CASE ~Accepts(b)
    BY <1>1, <1>2, <2>2 DEF ApplyCatalog
  <2> QED
    BY <2>1, <2>2
<1>3. ASSUME NEW d, DeactivateCatalogDeployment(d) PROVE Stays(k)
  <2>1. CASE d \in Of(entries, "deployment")
    <3>1. entries' = Off(entries, d)
      BY <1>3, <2>1 DEF DeactivateCatalogDeployment, Off
    <3>2. /\ DOMAIN entries' = DOMAIN entries
          /\ k # d => entries'[k] = entries[k]
          /\ entries'[d] = [f \in Fields("deployment") |->
                             IF f = "life" THEN "inactive" ELSE entries[d][f]]
      BY <2>1, <3>1, Deactivated DEF CatalogOK
    <3>3. Kind(d) = "deployment" /\ d \in DOMAIN entries
      BY <2>1 DEF Of
    <3>4. entries[d] = [f \in Fields("deployment") |-> entries[d][f]]
      BY <3>3 DEF CatalogOK, WellFormed
    <3>5. DOMAIN entries[d] = Fields("deployment")
      BY <3>4
    <3> QED
      BY <3>2, <3>3, <3>5 DEF Stays
  <2>2. CASE d \notin Of(entries, "deployment")
    BY <1>1, <1>3, <2>2 DEF DeactivateCatalogDeployment
  <2> QED
    BY <2>1, <2>2
<1> QED
  BY <1>1, <1>2, <1>3 DEF CatalogStep

-----------------------------------------------------------------------------
(* The registry. *)

LEMMA NewIdIsNew ==
    ASSUME NEW n \in Nat, Below(n)
    PROVE  /\ NewId \in 1..(n + 1) /\ NewId \notin DOMAIN rows
           /\ engine # "sqlite" => \A p \in Clients : NewId \notin Ids(apply[p])
<1>1. DOMAIN rows \subseteq 0..n /\ Remembered \subseteq 0..n
  BY DEF Below, Ids, Remembered
<1>2. DOMAIN rows \cup Remembered \subseteq 0..n
  BY <1>1
<1>3. /\ MaxPlusOne(DOMAIN rows) \in 1..(n + 1)
      /\ MaxPlusOne(DOMAIN rows) \notin DOMAIN rows
  BY <1>1, MaxPlusOneBeyond
<1>4. /\ MaxPlusOne(DOMAIN rows \cup Remembered) \in 1..(n + 1)
      /\ MaxPlusOne(DOMAIN rows \cup Remembered) \notin DOMAIN rows \cup Remembered
  BY <1>2, MaxPlusOneBeyond
<1>5. \A p \in Clients : Ids(apply[p]) \subseteq Remembered
  BY DEF Ids, Remembered
<1> QED
  BY <1>3, <1>4, <1>5 DEF NewId

\* What a step may do to the registry: add a row with a new id and label, delete rows, or
\* change one in place.
Added(r) == /\ DOMAIN rows' = DOMAIN rows \cup {NewId}
            /\ \A i \in DOMAIN rows : rows'[i] = rows[i]
            /\ rows'[NewId] = r
            /\ Find(r.label) = {}

LEMMA Inserted ==
    ASSUME NEW n \in Nat, Below(n), NEW r, Insert(r)
    PROVE  Added(r) \/ rows' = rows
<1>1. NewId \notin DOMAIN rows
  BY NewIdIsNew
<1>2. CASE Find(r.label) = {}
  <2> DEFINE N == NewId
  <2>1. rows' = Put(rows, N, r) /\ N \notin DOMAIN rows
    BY <1>1, <1>2 DEF Insert
  <2> HIDE DEF N
  <2>2. /\ DOMAIN rows' = DOMAIN rows \cup {N}
        /\ \A i \in DOMAIN rows : rows'[i] = rows[i]
        /\ rows'[N] = r
    BY <2>1 DEF Put
  <2> QED
    BY <1>2, <2>2 DEF Added, N
<1>3. CASE Find(r.label) # {}
  BY <1>3 DEF Insert
<1> QED
  BY <1>2, <1>3

LEMMA RowsAdded ==
    ASSUME RowsOK, NEW n \in Nat, Below(n), NEW r \in Row, Added(r)
    PROVE  RowsOK' /\ DOMAIN rows' \subseteq 1..(n + 1)
<1> DEFINE N == NewId
<1>1. /\ N \in 1..(n + 1) /\ N \notin DOMAIN rows
      /\ DOMAIN rows' = DOMAIN rows \cup {N}
      /\ \A i \in DOMAIN rows : rows'[i] = rows[i]
      /\ rows'[N] = r
      /\ \A i \in DOMAIN rows : rows[i].label # r.label
  BY NewIdIsNew DEF Added, Find
<1> HIDE DEF N
<1>2. DOMAIN rows' \subseteq 1..(n + 1)
  BY <1>1 DEF Below
<1>3. \A i \in DOMAIN rows' : rows'[i] \in Row
  BY <1>1 DEF RowsOK
<1>4. \A i, j \in DOMAIN rows' : rows'[i].label = rows'[j].label => i = j
  BY <1>1 DEF RowsOK
<1> QED
  BY <1>2, <1>3, <1>4 DEF RowsOK

LEMMA RowsDropped ==
    ASSUME RowsOK, NEW K, rows' = Drop(rows, K)
    PROVE  /\ RowsOK' /\ DOMAIN rows' \subseteq DOMAIN rows
           /\ \A i \in DOMAIN rows' : rows'[i] = rows[i]
BY DEF RowsOK, Drop

LEMMA RowsChanged ==
    ASSUME RowsOK, NEW i \in DOMAIN rows, NEW r \in Row, rows' = [rows EXCEPT ![i] = r],
           r.label = rows[i].label \/ Find(r.label) = {}
    PROVE  RowsOK' /\ DOMAIN rows' = DOMAIN rows
<1>1. \A j, k \in DOMAIN rows' : rows'[j].label = rows'[k].label => j = k
  BY DEF RowsOK, Find
<1> QED
  BY <1>1 DEF RowsOK

-----------------------------------------------------------------------------
(* The requests. *)

LEMMA StepSound ==
    ASSUME ClientsOK, NEW p \in Clients, NEW a, Sound(a), Step(p, a), NEW n \in Nat,
           Ids(a) \subseteq 0..n, \A q \in Clients : Ids(apply[q]) \subseteq 0..n,
           DOMAIN rows' \subseteq 1..n
    PROVE  /\ ClientsOK' /\ IdsBounded'
           /\ apply'[p] = a /\ \A q \in Clients \ {p} : apply'[q] = apply[q]
<1>1. apply'[p] = a /\ \A q \in Clients \ {p} : apply'[q] = apply[q]
  BY DEF ClientsOK, Step
<1>2. apply' \in [Clients -> Apply]
  BY DEF ClientsOK, Step, Sound
<1>3. ClientsOK'
  BY <1>1, <1>2 DEF ClientsOK
<1>4. Below(n)'
  BY <1>1 DEF Below
<1> QED
  BY <1>1, <1>3, <1>4 DEF IdsBounded

LEMMA RepliesSound ==
    ASSUME NEW a, Sound(a), NEW r \in Replies
    PROVE  LET b == Replied(a, r)
           IN  Sound(b) /\ Ids(b) = {0}
BY DEF Sound, Replied, Idle, Apply, Replies, Ids

\* What is left of a request that is done with a row.
LEMMA PastFields ==
    ASSUME NEW a \in Apply, NEW i, NEW M
    PROVE  LET b == Past(a, i, M)
           IN  /\ b.step = IF a.gone \subseteq {i} THEN "publish" ELSE "prune"
               /\ b.file = a.file /\ b.todo = a.todo /\ b.at = a.at /\ b.id = a.id
               /\ b.state = a.state /\ b.gone = a.gone \ {i} /\ b.half = 0
               /\ b.missed = a.missed \cup M /\ b.off = a.off /\ b.reply = a.reply
BY DEF Past, Apply

LEMMA PastSound ==
    ASSUME NEW a, Sound(a), a.step = "prune", NEW i, NEW M \in SUBSET Labels
    PROVE  LET b == Past(a, i, M)
           IN  Sound(b) /\ Ids(b) \subseteq Ids(a) \cup {0}
<1> DEFINE b == Past(a, i, M)
<1>1. a \in Apply
  BY DEF Sound
<1>2. b \in Apply
  BY <1>1 DEF Past, Apply
<1>3. /\ b.step \in {"publish", "prune"} /\ b.file = a.file /\ b.todo = a.todo
      /\ b.id = a.id /\ b.gone \subseteq a.gone /\ b.half = 0
  BY <1>1, PastFields
<1> HIDE DEF b
<1>4. Sound(b)
  BY <1>2, <1>3 DEF Sound
<1>5. Ids(b) \subseteq Ids(a) \cup {0}
  BY <1>3 DEF Ids
<1> QED
  BY <1>4, <1>5 DEF b

LEMMA SteadyKept ==
    ASSUME BookOK, NEW p, NEW T, Touched(p, T) \/ steady' = steady
    PROVE  (steady \in [Clients -> SUBSET (Labels \cup CatalogKeys)])'
BY DEF BookOK, Touched

LEMMA BeginKeeps ==
    ASSUME IInv, NEW p \in Clients, NEW f \in DOMAIN Files, Begin(p, f)
    PROVE  IInv'
<1>1. PICK n \in Nat : Below(n)
  BY DEF IInv, IdsBounded
<1>2. PICK a : Sound(a) /\ Ids(a) = {0} /\ Step(p, a)
  <2>1. DOMAIN Files[f].claims \subseteq DOMAIN Norm
    BY FilesAssumption
  <2>2. /\ Sound([Idle EXCEPT !.step = "claim", !.file = f, !.todo = DOMAIN Files[f].claims])
        /\ Sound([Idle EXCEPT !.file = f, !.reply = "conflict"])
    BY <2>1 DEF Sound, Idle, Apply, Replies
  <2>3. /\ Ids([Idle EXCEPT !.step = "claim", !.file = f, !.todo = DOMAIN Files[f].claims]) = {0}
        /\ Ids([Idle EXCEPT !.file = f, !.reply = "conflict"]) = {0}
    BY DEF Ids, Idle
  <2>4. \/ Step(p, [Idle EXCEPT !.step = "claim", !.file = f, !.todo = DOMAIN Files[f].claims])
        \/ Step(p, [Idle EXCEPT !.file = f, !.reply = "conflict"])
    BY DEF Begin
  <2> QED
    BY <2>2, <2>3, <2>4
<1>3. UNCHANGED <<entries, assets, rows, engine, upsets>>
  BY DEF Begin
<1>4. ClientsOK' /\ IdsBounded'
  BY <1>1, <1>2, <1>3, StepSound DEF IInv, Below
<1>5. CatalogOK'
  BY <1>3, CatalogKept DEF IInv, CatalogStep
<1>6. RowsOK' /\ BookOK'
  BY <1>3, BoundsAssumption DEF IInv, RowsOK, BookOK, Begin
<1> QED
  BY <1>4, <1>5, <1>6 DEF IInv

LEMMA StepKeeps ==
    ASSUME IInv, NEW p \in Clients, NEW a, Sound(a), Step(p, a), NEW n \in Nat, Below(n),
           Ids(a) \subseteq 0..n, RowsOK', DOMAIN rows' \subseteq 1..(n + 1),
           UNCHANGED <<engine, applies>>, CatalogStep,
           steady' = steady \/ \E T : Touched(p, T), upsets' \in 0..MaxUpsets
    PROVE  IInv'
<1>1. /\ n + 1 \in Nat /\ Ids(a) \subseteq 0..(n + 1)
      /\ \A q \in Clients : Ids(apply[q]) \subseteq 0..(n + 1)
  BY DEF Below
<1>2. ClientsOK' /\ IdsBounded'
  BY <1>1, StepSound DEF IInv
<1>3. CatalogOK'
  BY CatalogKept DEF IInv
<1>4. BookOK'
  BY SteadyKept DEF IInv, BookOK
<1> QED
  BY <1>2, <1>3, <1>4 DEF IInv

\* A step that changes no row.
LEMMA QuietKeeps ==
    ASSUME IInv, NEW p \in Clients, NEW a, Sound(a), Step(p, a), NEW n \in Nat, Below(n),
           Ids(a) \subseteq 0..n, UNCHANGED <<rows, engine, applies>>, CatalogStep,
           steady' = steady \/ \E T : Touched(p, T), upsets' \in 0..MaxUpsets
    PROVE  IInv'
<1>1. RowsOK' /\ DOMAIN rows' \subseteq 1..(n + 1)
  BY DEF IInv, RowsOK, Below
<1> QED
  BY <1>1, StepKeeps

LEMMA FailsKeeps ==
    ASSUME IInv, NEW p \in Clients, Fails(p)
    PROVE  IInv'
<1>1. PICK n \in Nat : Below(n)
  BY DEF IInv, IdsBounded
<1> DEFINE b == Replied(apply[p], "error")
<1>2. Sound(b) /\ Ids(b) = {0}
  BY RepliesSound DEF IInv, ClientsOK, Replies
<1>3. Step(p, b)
  BY DEF Fails, Reply
<1>4. UNCHANGED <<rows, engine, applies, steady>> /\ CatalogStep
  BY DEF Fails, CatalogStep
<1>5. upsets' \in 0..MaxUpsets
  BY BoundsAssumption DEF IInv, BookOK, Fails, Upset
<1> HIDE DEF b
<1> QED
  BY <1>1, <1>2, <1>3, <1>4, <1>5, QuietKeeps

LEMMA AskedIsRow ==
    ASSUME ClientsOK, NEW p \in Clients, apply[p].step # "idle",
           NEW w \in DOMAIN File(p).claims
    PROVE  Asked(p, w) \in Row
<1>1. apply[p].file \in DOMAIN Files
  BY DEF ClientsOK, Sound
<1>2. Norm[w] \in Labels
  BY <1>1, FilesAssumption, NormAssumption DEF File
<1>3. File(p).claims[w] \in Claimed /\ File(p).project \in Projects
  BY <1>1 DEF File, Claimed, ClaimsOf, Projects
<1> QED
  BY <1>2, <1>3 DEF Asked, Row, Owners, Specs

LEMMA ClaimKeeps ==
    ASSUME IInv, NEW p \in Clients, NEW w \in apply[p].todo, Claim(p, w)
    PROVE  IInv'
<1>1. PICK n \in Nat : Below(n)
  BY DEF IInv, IdsBounded
<1>2. Sound(apply[p]) /\ Ids(apply[p]) \subseteq 0..n /\ apply[p].step = "claim"
  BY <1>1 DEF IInv, ClientsOK, Below, Claim
<1>3. w \in DOMAIN File(p).claims /\ apply[p].file \in DOMAIN Files
  BY <1>2 DEF Sound, File
<1>4. PICK a : Sound(a) /\ Ids(a) \subseteq 0..n /\ Step(p, a)
  <2> DEFINE T == apply[p].todo \ {w}
             C == [apply[p] EXCEPT !.todo = T, !.step = "claim", !.at = Nothing]
             L == [apply[p] EXCEPT !.todo = T, !.step = "look", !.at = w]
  <2>1. w \in DOMAIN Norm
    BY <1>3, FilesAssumption DEF File
  <2>2. Sound(C) /\ Ids(C) \subseteq 0..n
    BY <1>2 DEF Sound, Apply, Ids
  <2>3. Sound(L) /\ Ids(L) \subseteq 0..n
    BY <1>2, <1>3, <2>1 DEF Sound, Apply, Ids, File
  <2>4. Step(p, C) \/ Step(p, L)
    BY DEF Claim
  <2> HIDE DEF C, L
  <2> QED
    BY <2>2, <2>3, <2>4
<1>5. Asked(p, w) \in Row
  BY <1>2, <1>3, AskedIsRow DEF IInv
<1>6. Added(Asked(p, w)) \/ rows' = rows
  BY <1>1, Inserted DEF Claim
<1>7. RowsOK' /\ DOMAIN rows' \subseteq 1..(n + 1)
  <2>1. CASE Added(Asked(p, w))
    BY <1>1, <1>5, <2>1, RowsAdded DEF IInv
  <2>2. CASE rows' = rows
    BY <1>1, <2>2 DEF IInv, RowsOK, Below
  <2> QED
    BY <1>6, <2>1, <2>2
<1>8. UNCHANGED <<engine, applies>> /\ CatalogStep /\ Touched(p, {Norm[w]})
  BY DEF Claim, CatalogStep
<1>9. upsets' \in 0..MaxUpsets
  BY DEF IInv, BookOK, Claim
<1> QED
  BY <1>1, <1>4, <1>7, <1>8, <1>9, StepKeeps

LEMMA LookKeeps ==
    ASSUME IInv, NEW p \in Clients, Look(p)
    PROVE  IInv'
<1>1. PICK n \in Nat : Below(n)
  BY DEF IInv, IdsBounded
<1>2. Sound(apply[p]) /\ Ids(apply[p]) \subseteq 0..n /\ apply[p].step = "look"
  BY <1>1 DEF IInv, ClientsOK, Below, Look
<1>3. PICK a : Sound(a) /\ Ids(a) \subseteq 0..n /\ Step(p, a)
  <2>1. CASE Reply(p, "taken")
    <3> DEFINE b == Replied(apply[p], "taken")
    <3>1. Sound(b) /\ Ids(b) = {0}
      BY <1>2, RepliesSound DEF Replies
    <3>2. Step(p, b)
      BY <2>1 DEF Reply
    <3> HIDE DEF b
    <3> QED
      BY <3>1, <3>2
  <2>2. ASSUME NEW i \in DOMAIN rows,
               Step(p, [apply[p] EXCEPT !.step = "update", !.id = i, !.state = rows[i].state])
        PROVE  \E a : Sound(a) /\ Ids(a) \subseteq 0..n /\ Step(p, a)
    <3> DEFINE U == [apply[p] EXCEPT !.step = "update", !.id = i, !.state = rows[i].state]
    <3>1. i \in 1..n /\ rows[i].state \in {"active", "released"}
      BY <1>1 DEF Below, IInv, RowsOK, Row
    <3>2. Sound(U) /\ Ids(U) \subseteq 0..n
      <4>1. i \in Nat /\ i \in 0..n
        BY <1>1, <3>1
      <4>2. Sound(U)
        BY <1>2, <3>1, <4>1 DEF Sound, Apply
      <4>3. U.id = i /\ U.half = apply[p].half /\ U.gone = apply[p].gone
        BY <1>2 DEF Sound, Apply
      <4> HIDE DEF U
      <4> QED
        BY <1>2, <4>1, <4>2, <4>3 DEF Ids
    <3>3. Step(p, U)
      BY <2>2
    <3> HIDE DEF U
    <3> QED
      BY <3>2, <3>3
  <2>3. \/ Reply(p, "taken")
        \/ \E i \in DOMAIN rows :
             Step(p, [apply[p] EXCEPT !.step = "update", !.id = i, !.state = rows[i].state])
    BY DEF Look, Find
  <2> QED
    BY <2>1, <2>2, <2>3
<1>4. UNCHANGED <<rows, engine, applies, steady>> /\ CatalogStep
  BY DEF Look, CatalogStep
<1>5. upsets' \in 0..MaxUpsets
  BY DEF IInv, BookOK, Look
<1> QED
  BY <1>1, <1>3, <1>4, <1>5, QuietKeeps

LEMMA LookFailsKeeps ==
    ASSUME IInv, NEW p \in Clients, LookFails(p)
    PROVE  IInv'
<1>1. PICK n \in Nat : Below(n)
  BY DEF IInv, IdsBounded
<1> DEFINE b == Replied(apply[p], "taken")
<1>2. Sound(b) /\ Ids(b) = {0}
  BY RepliesSound DEF IInv, ClientsOK, Replies
<1>3. Step(p, b)
  BY DEF LookFails, Reply
<1>4. UNCHANGED <<rows, engine, applies, steady>> /\ CatalogStep
  BY DEF LookFails, CatalogStep
<1>5. upsets' \in 0..MaxUpsets
  BY BoundsAssumption DEF IInv, BookOK, LookFails, Upset
<1> HIDE DEF b
<1> QED
  BY <1>1, <1>2, <1>3, <1>4, <1>5, QuietKeeps

LEMMA UpdateKeeps ==
    ASSUME IInv, NEW p \in Clients, Update(p)
    PROVE  IInv'
<1>1. PICK n \in Nat : Below(n)
  BY DEF IInv, IdsBounded
<1>2. Sound(apply[p]) /\ Ids(apply[p]) \subseteq 0..n /\ apply[p].step = "update"
  BY <1>1 DEF IInv, ClientsOK, Below, Update
<1> DEFINE a == [apply[p] EXCEPT !.step = "claim", !.at = Nothing, !.id = 0, !.state = "active"]
           i == apply[p].id
           c == Changed(p, rows[i])
<1>3. Sound(a) /\ Ids(a) \subseteq 0..n /\ Step(p, a)
  BY <1>2 DEF Sound, Apply, Ids, Update
<1>4. CASE i \in DOMAIN rows
  <2>1. rows' = [rows EXCEPT ![i] = c] /\ Touched(p, {rows[i].label})
    BY <1>4 DEF Update
  <2>2. /\ rows[i] \in Row /\ apply[p].state \in {"active", "released"}
        /\ apply[p].file \in DOMAIN Files /\ apply[p].at \in DOMAIN File(p).claims
    BY <1>2, <1>4 DEF IInv, RowsOK, Sound, Apply, File
  <2>3. File(p).claims[apply[p].at] \in Claimed /\ File(p).project \in Projects
    BY <2>2 DEF File, Claimed, ClaimsOf, Projects
  <2>4. c \in Row /\ c.label = rows[i].label
    BY <2>2, <2>3 DEF Changed, Row, Owners, Specs
  <2>5. RowsOK' /\ DOMAIN rows' = DOMAIN rows
    <3> HIDE DEF c, i
    <3> QED
      BY <1>4, <2>1, <2>4, RowsChanged DEF IInv
  <2>6. DOMAIN rows' \subseteq 1..(n + 1)
    BY <1>1, <2>5 DEF Below
  <2>7. UNCHANGED <<engine, applies>> /\ CatalogStep /\ upsets' \in 0..MaxUpsets
    BY DEF Update, CatalogStep, IInv, BookOK
  <2> HIDE DEF a, c, i
  <2> QED
    BY <1>1, <1>3, <2>1, <2>5, <2>6, <2>7, StepKeeps
<1>5. CASE i \notin DOMAIN rows
  <2>1. UNCHANGED <<rows, engine, applies, steady>> /\ CatalogStep /\ upsets' \in 0..MaxUpsets
    BY <1>5 DEF Update, CatalogStep, IInv, BookOK
  <2> HIDE DEF a
  <2> QED
    BY <1>1, <1>3, <2>1, QuietKeeps
<1> QED
  BY <1>4, <1>5

LEMMA ListOwnedKeeps ==
    ASSUME IInv, NEW p \in Clients, ListOwned(p)
    PROVE  IInv'
<1>1. PICK n \in Nat : Below(n)
  BY DEF IInv, IdsBounded
<1>2. Sound(apply[p]) /\ Ids(apply[p]) \subseteq 0..n /\ apply[p].step = "claim"
  BY <1>1 DEF IInv, ClientsOK, Below, ListOwned
<1>3. PICK G : /\ G \subseteq DOMAIN rows
               /\ Step(p, [apply[p] EXCEPT !.step = IF G = {} THEN "publish" ELSE "prune",
                                           !.gone = G])
  BY DEF ListOwned
<1> DEFINE a == [apply[p] EXCEPT !.step = IF G = {} THEN "publish" ELSE "prune", !.gone = G]
<1>4. G \subseteq 0..n /\ G \subseteq Nat
  BY <1>1, <1>3 DEF Below
<1>5. Sound(a) /\ Ids(a) \subseteq 0..n /\ Step(p, a)
  BY <1>2, <1>3, <1>4 DEF Sound, Apply, Ids
<1>6. UNCHANGED <<rows, engine, applies, steady>> /\ CatalogStep /\ upsets' \in 0..MaxUpsets
  BY DEF ListOwned, CatalogStep, IInv, BookOK
<1> HIDE DEF a
<1> QED
  BY <1>1, <1>5, <1>6, QuietKeeps

LEMMA MarkReleasedKeeps ==
    ASSUME IInv, NEW p \in Clients, NEW i \in apply[p].gone, MarkReleased(p, i)
    PROVE  IInv'
<1>1. PICK n \in Nat : Below(n)
  BY DEF IInv, IdsBounded
<1>2. /\ Sound(apply[p]) /\ Ids(apply[p]) \subseteq 0..n
      /\ apply[p].step = "prune" /\ apply[p].half = 0
  BY <1>1 DEF IInv, ClientsOK, Below, MarkReleased
<1> DEFINE a == Past(apply[p], i, {})
           h == [apply[p] EXCEPT !.gone = @ \ {i}, !.half = i]
           r == [rows[i] EXCEPT !.state = "released"]
<1>3. i \in Nat /\ i \in 0..n
  BY <1>2 DEF Sound, Apply, Ids
<1>4. Sound(a) /\ Ids(a) \subseteq 0..n
  BY <1>2, PastSound
<1>5. UNCHANGED <<engine, applies>> /\ CatalogStep /\ upsets' \in 0..MaxUpsets
  BY DEF MarkReleased, CatalogStep, IInv, BookOK
<1>6. CASE i \in DOMAIN rows
  <2>1. /\ rows' = [rows EXCEPT ![i].state = "released"]
        /\ Touched(p, {rows[i].label}) /\ Step(p, h)
    BY <1>6 DEF MarkReleased
  <2>2. Sound(h) /\ Ids(h) \subseteq 0..n
    BY <1>2, <1>3 DEF Sound, Apply, Ids
  <2>3. rows' = [rows EXCEPT ![i] = r] /\ r \in Row /\ r.label = rows[i].label
    BY <1>6, <2>1 DEF IInv, RowsOK, Row
  <2> HIDE DEF h, r
  <2>4. RowsOK' /\ DOMAIN rows' = DOMAIN rows
    BY <1>6, <2>3, RowsChanged DEF IInv
  <2>5. DOMAIN rows' \subseteq 1..(n + 1)
    BY <1>1, <2>4 DEF Below
  <2> QED
    BY <1>1, <1>5, <2>1, <2>2, <2>4, <2>5, StepKeeps
<1>7. CASE i \notin DOMAIN rows
  <2>1. rows' = rows /\ steady' = steady /\ Step(p, a)
    BY <1>7 DEF MarkReleased
  <2> HIDE DEF a
  <2> QED
    BY <1>1, <1>4, <1>5, <2>1, QuietKeeps
<1> QED
  BY <1>6, <1>7

LEMMA DeleteReleasedKeeps ==
    ASSUME IInv, NEW p \in Clients, DeleteReleased(p)
    PROVE  IInv'
<1>1. PICK n \in Nat : Below(n)
  BY DEF IInv, IdsBounded
<1>2. Sound(apply[p]) /\ Ids(apply[p]) \subseteq 0..n /\ apply[p].step = "prune"
  BY <1>1 DEF IInv, ClientsOK, Below, DeleteReleased, Sound
<1> DEFINE a == Past(apply[p], apply[p].half, {})
<1>3. Sound(a) /\ Ids(a) \subseteq 0..n /\ Step(p, a)
  BY <1>2, PastSound DEF DeleteReleased, Ids
<1>4. RowsOK' /\ DOMAIN rows' \subseteq 1..(n + 1)
  <2>1. rows' = Drop(rows, {apply[p].half})
    BY DEF DeleteReleased
  <2>2. RowsOK' /\ DOMAIN rows' \subseteq DOMAIN rows
    BY <2>1, RowsDropped DEF IInv
  <2>3. 1..n \subseteq 1..(n + 1)
    OBVIOUS
  <2> QED
    BY <1>1, <2>2, <2>3 DEF Below
<1>5. UNCHANGED <<engine, applies>> /\ CatalogStep /\ upsets' \in 0..MaxUpsets
  BY DEF DeleteReleased, CatalogStep, IInv, BookOK
<1>6. \E T : Touched(p, T)
  BY DEF DeleteReleased
<1> HIDE DEF a
<1> QED
  BY <1>1, <1>3, <1>4, <1>5, <1>6, StepKeeps

LEMMA ReleaseFailsKeeps ==
    ASSUME IInv, NEW p \in Clients, ReleaseFails(p)
    PROVE  IInv'
<1>1. PICK n \in Nat : Below(n)
  BY DEF IInv, IdsBounded
<1>2. Sound(apply[p]) /\ Ids(apply[p]) \subseteq 0..n /\ apply[p].step = "prune"
  BY <1>1 DEF IInv, ClientsOK, Below, ReleaseFails
<1>3. PICK i \in Nat, M \in SUBSET Labels : Step(p, Past(apply[p], i, M))
  <2>1. apply[p].half \in Nat /\ apply[p].gone \subseteq Nat
    BY <1>2 DEF Sound, Apply
  <2>2. \A i : {rows[j].label : j \in DOMAIN rows \cap {i}} \in SUBSET Labels
    BY DEF IInv, RowsOK, Row
  <2> QED
    BY <2>1, <2>2 DEF ReleaseFails
<1> DEFINE a == Past(apply[p], i, M)
<1>4. Sound(a) /\ Ids(a) \subseteq 0..n
  BY <1>2, PastSound DEF Ids
<1>5. UNCHANGED <<rows, engine, applies, steady>> /\ CatalogStep
  BY DEF ReleaseFails, CatalogStep
<1>6. upsets' \in 0..MaxUpsets
  BY BoundsAssumption DEF IInv, BookOK, ReleaseFails, Upset
<1> HIDE DEF a
<1> QED
  BY <1>1, <1>3, <1>4, <1>5, <1>6, QuietKeeps DEF a

LEMMA PublishKeeps ==
    ASSUME IInv, NEW p \in Clients, Publish(p)
    PROVE  IInv'
<1>1. PICK n \in Nat : Below(n)
  BY DEF IInv, IdsBounded
<1>2. Sound(apply[p]) /\ Ids(apply[p]) \subseteq 0..n /\ apply[p].step = "publish"
  BY <1>1 DEF IInv, ClientsOK, Below, Publish
<1> DEFINE S == [apply[p] EXCEPT !.step = "scope"]
           c == Replied(apply[p], "conflict")
           o == Replied(apply[p], "ok")
<1>3. /\ Sound(c) /\ Ids(c) = {0}
      /\ Sound(o) /\ Ids(o) = {0}
  BY <1>2, RepliesSound DEF Replies
<1>4. Sound(S) /\ Ids(S) \subseteq 0..n
  BY <1>2 DEF Sound, Apply, Ids
<1>5. Step(p, S) \/ Step(p, c) \/ Step(p, o)
  BY DEF Publish, Reply
<1>6. OfSomebody(File(p).bundle)
  BY <1>2 DEF Sound, File, OfSomebody
<1>7. CatalogStep
  BY <1>6 DEF Publish, CatalogStep
<1>8. /\ UNCHANGED <<rows, engine, applies>> /\ Touched(p, DOMAIN File(p).bundle)
      /\ upsets' \in 0..MaxUpsets
  BY DEF Publish, IInv, BookOK
<1> HIDE DEF S, c, o
<1> QED
  BY <1>1, <1>3, <1>4, <1>5, <1>7, <1>8, QuietKeeps

LEMMA ListDeploymentsKeeps ==
    ASSUME IInv, NEW p \in Clients, ListDeployments(p)
    PROVE  IInv'
<1>1. PICK n \in Nat : Below(n)
  BY DEF IInv, IdsBounded
<1>2. Sound(apply[p]) /\ Ids(apply[p]) \subseteq 0..n /\ apply[p].step = "scope"
  BY <1>1 DEF IInv, ClientsOK, Below, ListDeployments
<1> DEFINE D == {k \in Of(entries, "deployment") : Stray(p, k)}
           o == Replied(apply[p], "ok")
           a == [apply[p] EXCEPT !.step = "off", !.off = D]
<1>3. Sound(o) /\ Ids(o) = {0}
  BY <1>2, RepliesSound DEF Replies
<1>4. Sound(a) /\ Ids(a) \subseteq 0..n
  <2>1. D \subseteq CatalogKeys
    BY DEF IInv, CatalogOK, Of
  <2> HIDE DEF D
  <2> QED
    BY <1>2, <2>1 DEF Sound, Apply, Ids
<1>5. Step(p, o) \/ Step(p, a)
  BY DEF ListDeployments, Reply
<1>6. UNCHANGED <<rows, engine, applies, steady>> /\ CatalogStep /\ upsets' \in 0..MaxUpsets
  BY DEF ListDeployments, CatalogStep, IInv, BookOK
<1> HIDE DEF a, o
<1> QED
  BY <1>1, <1>3, <1>4, <1>5, <1>6, QuietKeeps

LEMMA DeactivateKeeps ==
    ASSUME IInv, NEW p \in Clients, NEW k \in apply[p].off, Deactivate(p, k)
    PROVE  IInv'
<1>1. PICK n \in Nat : Below(n)
  BY DEF IInv, IdsBounded
<1>2. Sound(apply[p]) /\ Ids(apply[p]) \subseteq 0..n /\ apply[p].step = "off"
  BY <1>1 DEF IInv, ClientsOK, Below, Deactivate
<1> DEFINE o == Replied(apply[p], "ok")
           a == [apply[p] EXCEPT !.off = @ \ {k}]
<1>3. Sound(o) /\ Ids(o) = {0}
  BY <1>2, RepliesSound DEF Replies
<1>4. Sound(a) /\ Ids(a) \subseteq 0..n
  BY <1>2 DEF Sound, Apply, Ids
<1>5. Step(p, o) \/ Step(p, a)
  BY DEF Deactivate, Reply
<1>6. /\ UNCHANGED <<rows, engine, applies>> /\ Touched(p, {k}) /\ CatalogStep
      /\ upsets' \in 0..MaxUpsets
  BY DEF Deactivate, CatalogStep, IInv, BookOK
<1> HIDE DEF a, o
<1> QED
  BY <1>1, <1>3, <1>4, <1>5, <1>6, QuietKeeps

-----------------------------------------------------------------------------
(* The other requests. *)

LEMMA OthersKeep ==
    ASSUME IInv, Others
    PROVE  IInv'
<1>1. PICK n \in Nat : Below(n)
  BY DEF IInv, IdsBounded
<1> SUFFICES ASSUME apply' = apply, engine' = engine, applies' = applies,
                    upsets' \in 0..MaxUpsets, steady' = steady \/ \E T : Touched(Nobody, T),
                    CatalogStep
             PROVE  RowsOK' /\ DOMAIN rows' \subseteq 1..(n + 1)
  <2>1. apply' = apply /\ engine' = engine /\ applies' = applies
    BY DEF Others, ApiClaim, ApiRelease, ApiRename, ApiPublish, ApiDeactivate, UploadAsset
  <2>2. upsets' \in 0..MaxUpsets
    <3>1. Upset
      BY DEF Others, ApiClaim, ApiRelease, ApiRename, ApiPublish, ApiDeactivate, UploadAsset
    <3> QED
      BY <3>1, BoundsAssumption DEF Upset, IInv, BookOK
  <2>3. steady' = steady \/ \E T : Touched(Nobody, T)
    BY DEF Others, ApiClaim, ApiRelease, ApiRename, ApiPublish, ApiDeactivate, UploadAsset
  <2>4. CatalogStep
    BY DEF Others, ApiClaim, ApiRelease, ApiRename, ApiPublish, ApiDeactivate, UploadAsset,
           CatalogStep, OfSomebody
  <2>5. ASSUME RowsOK', DOMAIN rows' \subseteq 1..(n + 1) PROVE IInv'
    <3>1. CatalogOK'
      BY <2>4, CatalogKept DEF IInv
    <3>2. BookOK'
      BY <2>1, <2>2, <2>3, SteadyKept DEF IInv, BookOK
    <3>3. n + 1 \in Nat /\ \A q \in Clients : Ids(apply[q]) \subseteq 0..(n + 1)
      BY <1>1 DEF Below
    <3>4. Below(n + 1)'
      BY <2>1, <2>5, <3>3 DEF Below
    <3>5. ClientsOK' /\ IdsBounded'
      BY <2>1, <3>3, <3>4 DEF IInv, ClientsOK, IdsBounded
    <3> QED
      BY <2>5, <3>1, <3>2, <3>5 DEF IInv
  <2> QED
    BY <2>1, <2>2, <2>3, <2>4, <2>5
<1>2. RowsOK /\ DOMAIN rows \subseteq 1..(n + 1)
  BY <1>1 DEF IInv, Below
<1>3. ASSUME NEW l \in Labels, ApiClaim(l) PROVE RowsOK' /\ DOMAIN rows' \subseteq 1..(n + 1)
  <2>1. PICK o \in Owners \cup {Nothing} :
            Insert([label |-> l, source |-> "api", project |-> Nothing, owner |-> o,
                    spec |-> Nothing, state |-> "active"])
    BY <1>3 DEF ApiClaim
  <2> DEFINE r == [label |-> l, source |-> "api", project |-> Nothing, owner |-> o,
                   spec |-> Nothing, state |-> "active"]
  <2>2. r \in Row
    BY DEF Row
  <2> HIDE DEF r
  <2>3. Added(r) \/ rows' = rows
    BY <1>1, <2>1, Inserted DEF r
  <2> QED
    BY <1>1, <1>2, <2>2, <2>3, RowsAdded DEF RowsOK
<1>4. ASSUME NEW i \in DOMAIN rows, ApiRelease(i)
      PROVE  RowsOK' /\ DOMAIN rows' \subseteq 1..(n + 1)
  <2> DEFINE r == [rows[i] EXCEPT !.state = "released"]
  <2>1. rows' = Drop(rows, {i}) \/ rows' = [rows EXCEPT ![i] = r]
    BY <1>4 DEF ApiRelease
  <2>2. r \in Row /\ r.label = rows[i].label
    BY <1>2 DEF RowsOK, Row
  <2> HIDE DEF r
  <2> QED
    BY <1>2, <2>1, <2>2, RowsDropped, RowsChanged
<1>5. ASSUME NEW i \in DOMAIN rows, NEW l \in Labels, ApiRename(i, l)
      PROVE  RowsOK' /\ DOMAIN rows' \subseteq 1..(n + 1)
  <2> DEFINE r == [rows[i] EXCEPT !.label = l]
  <2>1. rows' = [rows EXCEPT ![i] = r] /\ r \in Row /\ r.label = l /\ Find(l) = {}
    BY <1>2, <1>5 DEF ApiRename, RowsOK, Row
  <2> HIDE DEF r
  <2> QED
    BY <1>2, <2>1, RowsChanged
<1>6. CASE rows' = rows
  BY <1>2, <1>6 DEF RowsOK
<1> QED
  BY <1>3, <1>4, <1>5, <1>6 DEF Others, ApiPublish, ApiDeactivate, UploadAsset

-----------------------------------------------------------------------------
(* The theorems. *)

LEMMA InitHolds == Init => IInv
<1> SUFFICES ASSUME Init PROVE IInv
  OBVIOUS
<1>1. CatalogOK
  BY DEF Init, CatalogOK, WellFormed, Whole, Rooted, Imported, OneKeyEach, AllSelect, Of
<1>2. RowsOK
  BY DEF Init, RowsOK
<1>3. ClientsOK
  BY DEF Init, ClientsOK, Sound, Idle, Apply, Replies
<1>4. Below(0)
  BY DEF Init, Below, Ids, Idle
<1>5. BookOK
  BY BoundsAssumption DEF Init, BookOK
<1> QED
  BY <1>1, <1>2, <1>3, <1>4, <1>5 DEF IInv, IdsBounded

LEMMA StepKeepsIInv == IInv /\ [Next]_vars => IInv'
<1> SUFFICES ASSUME IInv, [Next]_vars PROVE IInv'
  OBVIOUS
<1>1. ASSUME NEW p \in Clients, Handler(p) PROVE IInv'
  <2>1. CASE \E f \in DOMAIN Files : Begin(p, f)
    BY <2>1, BeginKeeps
  <2>2. CASE \E w \in apply[p].todo : Claim(p, w)
    BY <2>2, ClaimKeeps
  <2>3. CASE \E i \in apply[p].gone : MarkReleased(p, i)
    BY <2>3, MarkReleasedKeeps
  <2>4. CASE \E k \in apply[p].off : Deactivate(p, k)
    BY <2>4, DeactivateKeeps
  <2> QED
    BY <1>1, <2>1, <2>2, <2>3, <2>4, LookKeeps, UpdateKeeps, ListOwnedKeeps,
       DeleteReleasedKeeps, PublishKeeps, ListDeploymentsKeeps, FailsKeeps, LookFailsKeeps,
       ReleaseFailsKeeps DEF Handler
<1>2. CASE UNCHANGED vars
  <2>1. Whole(entries)'
    BY <1>2 DEF vars, IInv, CatalogOK, Whole, Rooted, Imported, OneKeyEach, AllSelect, Selects
  <2>2. CatalogOK' /\ RowsOK' /\ BookOK'
    BY <1>2, <2>1 DEF vars, IInv, CatalogOK, RowsOK, BookOK
  <2>3. ClientsOK' /\ IdsBounded'
    BY <1>2 DEF vars, IInv, ClientsOK, IdsBounded, Below
  <2> QED
    BY <2>2, <2>3 DEF IInv
<1> QED
  BY <1>1, <1>2, OthersKeep DEF Next

\* The inductive invariant holds in every state.
THEOREM Invariance == Spec => []IInv
<1> QED
  BY InitHolds, StepKeepsIInv, PTL DEF Spec

\* Every variable has its type: ids are positive, no two rows share a label, rows of the
\* catalog have the fields of their kind.
THEOREM TypeCorrect == Spec => []TypeOK
<1>1. IInv => TypeOK
  BY DEF IInv, TypeOK, CatalogOK, RowsOK, ClientsOK, BookOK
<1> QED
  BY <1>1, Invariance, PTL

\* The catalog is whole at every moment, however many publishers, applies and
\* deactivations interleave: put() and Published refuse whatever would leave a
\* dangling reference, and nothing is ever deleted.
THEOREM CatalogStaysWhole == Spec => []CatalogWhole
<1>1. IInv => CatalogWhole
  <2> SUFFICES ASSUME IInv PROVE CatalogWhole
    OBVIOUS
  <2>1. Whole(entries)
    BY DEF IInv, CatalogOK
  <2>2. \A k \in DOMAIN entries : Logo(entries[k]) \in assets \cup {Nothing}
    BY <2>1 DEF Whole, Imported
  <2>3. \A j, k \in Of(entries, "service") :
          entries[j].app = entries[k].app /\ entries[j].key = entries[k].key => j = k
    BY <2>1 DEF Whole, OneKeyEach
  <2>4. \A k \in Of(entries, "deployment") : entries[k].selects # Nothing =>
          \E c \in Of(entries, "capability") : /\ entries[c].service = entries[k].service
                                              /\ entries[c].version = entries[k].selects
                                              /\ entries[c].app = entries[k].app
    BY <2>1 DEF Whole, AllSelect, Selects
  <2>5. \A s \in Scopes : Access(s) = Selecting(s)
    BY <2>1, <2>4 DEF Whole, Rooted, Access, Selecting
  <2> QED
    BY <2>2, <2>3, <2>4, <2>5 DEF CatalogWhole
<1> QED
  BY <1>1, Invariance, PTL

\* No step of anybody removes a row of the catalog, gives its identity to something else
\* or changes a capability version.
THEOREM IdentitiesAreKept == Spec => IdentitiesStay
<1>1. IInv /\ [Next]_vars => [\A k \in DOMAIN entries : Stays(k)]_vars
  <2> SUFFICES ASSUME IInv, Next, NEW k \in DOMAIN entries PROVE Stays(k)
    OBVIOUS
  <2>1. ASSUME NEW p \in Clients, Handler(p) PROVE CatalogStep
    <3>1. Publish(p) => OfSomebody(File(p).bundle)
      BY DEF IInv, ClientsOK, Sound, Publish, File, OfSomebody
    <3> QED
      BY <2>1, <3>1 DEF Handler, Begin, Claim, Look, Update, ListOwned, MarkReleased, DeleteReleased,
         Publish, ListDeployments, Deactivate, Fails, LookFails, ReleaseFails, CatalogStep
  <2>2. Others => CatalogStep
    BY DEF Others, ApiClaim, ApiRelease, ApiRename, ApiPublish, ApiDeactivate, UploadAsset,
           CatalogStep, OfSomebody
  <2> QED
    BY <2>1, <2>2, EntryStays DEF Next, IInv
<1>2. [\A k \in DOMAIN entries : Stays(k)]_vars
      => [\A k \in DOMAIN entries :
            /\ k \in DOMAIN entries'
            /\ Kind(k) = "capability" => entries'[k] = entries[k]
            /\ \A f \in {"project", "app", "key", "service", "scope"} \cap DOMAIN entries[k] :
                  entries'[k][f] = entries[k][f]]_vars
  BY DEF Stays
<1> QED
  BY <1>1, <1>2, Invariance, PTL DEF Spec, IdentitiesStay

-----------------------------------------------------------------------------
(* What an apply may touch. *)

Ours(i, a, R)  == R[i].source = "manifest" /\ R[i].project = Files[a.file].project
Named(i, a, R) == R[i].source = "api" /\ R[i].owner = Files[a.file].claims[a.at].owner

\* The rows R a request with ids that stay its own has in hand are its own.
HandOK(a, R) ==
    /\ a.step = "update" /\ a.id \in DOMAIN R => Ours(a.id, a, R) \/ Named(a.id, a, R)
    /\ \A i \in (a.gone \cup {a.half}) \cap DOMAIN R : Ours(i, a, R)

\* And so are the deployments.
OffOK(a, E) ==
    \A k \in a.off : /\ k \in Of(E, "deployment")
                     /\ E[k].app = App(Files[a.file].bundle)
                     /\ E[k].scope = Files[a.file].scope

\* A manifest's row has the owner and the project of some file's hostname.
Made(r) == r.source = "manifest" =>
    \E f \in DOMAIN Files : \E w \in DOMAIN Files[f].claims :
        r.owner = Files[f].claims[w].owner /\ r.project = Files[f].project
RowsMade(R) == \A i \in DOMAIN R : Made(R[i])

OwnInv == /\ RowsMade(rows)
          /\ engine = "postgres" => \A p \in Clients : HandOK(apply[p], rows)
          /\ \A p \in Clients : OffOK(apply[p], entries)

\* What every step does to rows on Postgres: a row keeps its source; a manifest's row
\* keeps its project, another its owner; a new row has an id nobody has in hand.
Steadfast ==
    /\ \A i \in DOMAIN rows \cap DOMAIN rows' :
          /\ rows'[i].source = rows[i].source
          /\ rows[i].source = "manifest" => rows'[i].project = rows[i].project
          /\ rows[i].source = "api" => rows'[i].owner = rows[i].owner
    /\ \A i \in DOMAIN rows' \ DOMAIN rows : \A p \in Clients : i \notin Ids(apply[p])

LEMMA HandStays ==
    ASSUME Steadfast, NEW p \in Clients, HandOK(apply[p], rows)
    PROVE  HandOK(apply[p], rows')
<1> DEFINE a == apply[p]
<1>1. \A i \in Ids(a) \cap DOMAIN rows' : i \in DOMAIN rows
  BY DEF Steadfast
<1>2. ASSUME NEW i \in Ids(a) \cap DOMAIN rows', Ours(i, a, rows) PROVE Ours(i, a, rows')
  BY <1>1, <1>2 DEF Steadfast, Ours
<1>3. ASSUME NEW i \in Ids(a) \cap DOMAIN rows', Named(i, a, rows) PROVE Named(i, a, rows')
  BY <1>1, <1>3 DEF Steadfast, Named
<1> HIDE DEF a
<1> QED
  BY <1>1, <1>2, <1>3 DEF HandOK, Ids, a

\* A request that goes on with no more in hand.
LEMMA LessInHand ==
    ASSUME NEW a, NEW b, NEW R, HandOK(a, R), b.file = a.file, b.step # "update",
           b.gone \cup {b.half} \subseteq a.gone \cup {a.half, 0}, 0 \notin DOMAIN R
    PROVE  HandOK(b, R)
BY DEF HandOK, Ours

LEMMA OffStays ==
    ASSUME CatalogOK, CatalogStep, NEW a, OffOK(a, entries)
    PROVE  OffOK(a, entries')
<1> SUFFICES ASSUME NEW k \in a.off
             PROVE  /\ k \in Of(entries', "deployment")
                    /\ entries'[k].app = App(Files[a.file].bundle)
                    /\ entries'[k].scope = Files[a.file].scope
  BY DEF OffOK
<1>1. /\ k \in DOMAIN entries /\ Kind(k) = "deployment"
      /\ entries[k].app = App(Files[a.file].bundle)
      /\ entries[k].scope = Files[a.file].scope
  BY DEF OffOK, Of
<1>2. Stays(k)
  BY <1>1, EntryStays
<1>3. entries[k] = [f \in Fields("deployment") |-> entries[k][f]]
  BY <1>1 DEF CatalogOK, WellFormed
<1>4. {"app", "scope"} \subseteq DOMAIN entries[k]
  BY <1>3 DEF Fields
<1> QED
  BY <1>1, <1>2, <1>4 DEF Stays, Of

LEMMA OwnKept ==
    ASSUME IInv, OwnInv, engine = "postgres" => Steadfast, RowsMade(rows'), engine' = engine,
           CatalogStep, NEW p \in Clients, NEW a, Step(p, a), OffOK(a, entries'),
           engine = "postgres" => HandOK(a, rows')
    PROVE  OwnInv'
<1>1. apply'[p] = a /\ \A q \in Clients \ {p} : apply'[q] = apply[q]
  BY DEF IInv, ClientsOK, Step
<1>2. \A q \in Clients \ {p} : OffOK(apply'[q], entries')
  BY <1>1, OffStays DEF OwnInv, IInv
<1>3. engine = "postgres" => \A q \in Clients \ {p} : HandOK(apply'[q], rows')
  BY <1>1, HandStays DEF OwnInv
<1>4. \A q \in Clients : OffOK(apply'[q], entries')
  BY <1>1, <1>2
<1>5. engine' = "postgres" => \A q \in Clients : HandOK(apply'[q], rows')
  BY <1>1, <1>3
<1> QED
  BY <1>4, <1>5 DEF OwnInv

LEMMA SameRows ==
    ASSUME OwnInv, rows' = rows
    PROVE  Steadfast /\ RowsMade(rows')
BY DEF OwnInv, Steadfast

LEMMA AddedRows ==
    ASSUME IInv, OwnInv, NEW r, Added(r) \/ rows' = rows, Made(r)
    PROVE  (engine = "postgres" => Steadfast) /\ RowsMade(rows')
<1>1. CASE Added(r)
  <2>1. PICK n \in Nat : Below(n)
    BY DEF IInv, IdsBounded
  <2> DEFINE N == NewId
  <2>2. /\ N \notin DOMAIN rows
        /\ engine = "postgres" => \A p \in Clients : N \notin Ids(apply[p])
        /\ DOMAIN rows' = DOMAIN rows \cup {N}
        /\ \A i \in DOMAIN rows : rows'[i] = rows[i]
        /\ rows'[N] = r
    BY <1>1, <2>1, NewIdIsNew DEF Added
  <2> HIDE DEF N
  <2>3. engine = "postgres" => Steadfast
    BY <2>2 DEF Steadfast
  <2>4. RowsMade(rows')
    BY <2>2 DEF OwnInv, RowsMade
  <2> QED
    BY <2>3, <2>4
<1>2. CASE rows' = rows
  BY <1>2, SameRows
<1> QED
  BY <1>1, <1>2

\* A request that goes on with the same file and no more in hand, or answers.
LEMMA GoesOn ==
    ASSUME IInv, IInv', OwnInv, NEW p \in Clients, NEW a, Step(p, a),
           a.file = apply[p].file, a.step # "update",
           a.gone \cup {a.half} \subseteq apply[p].gone \cup {apply[p].half, 0},
           a.off \subseteq apply[p].off,
           engine = "postgres" => Steadfast, RowsMade(rows'), engine' = engine, CatalogStep
    PROVE  OwnInv'
<1>1. 0 \notin DOMAIN rows'
  BY DEF IInv, RowsOK
<1>2. engine = "postgres" => HandOK(a, rows')
  BY <1>1, HandStays, LessInHand DEF OwnInv
<1>3. OffOK(a, entries')
  <2>1. OffOK(apply[p], entries')
    BY OffStays DEF IInv, OwnInv
  <2> QED
    BY <2>1 DEF OffOK
<1> QED
  BY <1>2, <1>3, OwnKept

LEMMA Answers ==
    ASSUME IInv, IInv', OwnInv, NEW p \in Clients, NEW r, Reply(p, r), rows' = rows,
           engine' = engine, CatalogStep
    PROVE  OwnInv'
<1> DEFINE a == Replied(apply[p], r)
<1>1. Step(p, a)
  BY DEF Reply
<1>2. /\ a.file = apply[p].file /\ a.step # "update"
      /\ a.gone = {} /\ a.half = 0 /\ a.off = {}
  BY DEF Replied, Idle
<1> HIDE DEF a
<1> QED
  BY <1>1, <1>2, SameRows, GoesOn

LEMMA BeginOwn ==
    ASSUME IInv, IInv', OwnInv, NEW p \in Clients, NEW f \in DOMAIN Files, Begin(p, f)
    PROVE  OwnInv'
<1>1. PICK a : Step(p, a) /\ a.step # "update" /\ a.gone = {} /\ a.half = 0 /\ a.off = {}
  <2> DEFINE C == [Idle EXCEPT !.step = "claim", !.file = f, !.todo = DOMAIN Files[f].claims]
             R == [Idle EXCEPT !.file = f, !.reply = "conflict"]
  <2>1. Step(p, C) \/ Step(p, R)
    BY DEF Begin
  <2>2. C.step # "update" /\ C.gone = {} /\ C.half = 0 /\ C.off = {}
    BY DEF Idle
  <2>3. R.step # "update" /\ R.gone = {} /\ R.half = 0 /\ R.off = {}
    BY DEF Idle
  <2> HIDE DEF C, R
  <2> QED
    BY <2>1, <2>2, <2>3
<1>2. HandOK(a, rows')
  BY <1>1 DEF HandOK, IInv, RowsOK
<1>3. OffOK(a, entries')
  BY <1>1 DEF OffOK
<1>4. rows' = rows /\ engine' = engine /\ CatalogStep
  BY DEF Begin, CatalogStep
<1> QED
  BY <1>1, <1>2, <1>3, <1>4, SameRows, OwnKept

LEMMA ClaimOwn ==
    ASSUME IInv, IInv', OwnInv, NEW p \in Clients, NEW w \in apply[p].todo, Claim(p, w)
    PROVE  OwnInv'
<1>1. PICK n \in Nat : Below(n)
  BY DEF IInv, IdsBounded
<1>2. /\ apply[p] \in Apply /\ apply[p].step = "claim"
      /\ apply[p].file \in DOMAIN Files /\ w \in DOMAIN File(p).claims
  BY DEF IInv, ClientsOK, Sound, Claim, File
<1> DEFINE T == apply[p].todo \ {w}
           S == IF Find(Norm[w]) = {} THEN "claim" ELSE "look"
           t == IF Find(Norm[w]) = {} THEN Nothing ELSE w
           a == [apply[p] EXCEPT !.todo = T, !.step = S, !.at = t]
<1>3. Step(p, a)
  BY DEF Claim
<1>4. /\ a.file = apply[p].file /\ a.step # "update"
      /\ a.gone = apply[p].gone /\ a.half = apply[p].half /\ a.off = apply[p].off
  BY <1>2 DEF Apply
<1>5. Made(Asked(p, w))
  BY <1>2 DEF Made, Asked, File
<1>6. Added(Asked(p, w)) \/ rows' = rows
  BY <1>1, Inserted DEF Claim
<1>7. engine' = engine /\ CatalogStep
  BY DEF Claim, CatalogStep
<1> HIDE DEF a
<1> QED
  BY <1>3, <1>4, <1>5, <1>6, <1>7, AddedRows, GoesOn

LEMMA LookOwn ==
    ASSUME IInv, IInv', OwnInv, NEW p \in Clients, Look(p)
    PROVE  OwnInv'
<1>1. rows' = rows /\ engine' = engine /\ CatalogStep
  BY DEF Look, CatalogStep
<1>2. /\ apply[p] \in Apply /\ apply[p].file \in DOMAIN Files
      /\ apply[p].at \in DOMAIN File(p).claims
  BY DEF IInv, ClientsOK, Sound, Look, File
<1>3. ASSUME NEW i \in DOMAIN rows, Owns(p, i),
             Step(p, [apply[p] EXCEPT !.step = "update", !.id = i, !.state = rows[i].state])
      PROVE  OwnInv'
  <2> DEFINE a == [apply[p] EXCEPT !.step = "update", !.id = i, !.state = rows[i].state]
  <2>1. /\ a.file = apply[p].file /\ a.id = i /\ a.at = apply[p].at
        /\ a.gone = apply[p].gone /\ a.half = apply[p].half /\ a.off = apply[p].off
    BY <1>2 DEF Apply
  <2>2. Step(p, a)
    BY <1>3
  <2> HIDE DEF a
  <2>3. Ours(i, a, rows) \/ Named(i, a, rows)
    <3>1. rows[i].source \in {"manifest", "api"}
      BY DEF IInv, RowsOK, Row
    <3>2. CASE rows[i].source = "manifest" /\ rows[i].owner = File(p).claims[apply[p].at].owner
      <4>1. PICK f \in DOMAIN Files : \E w \in DOMAIN Files[f].claims :
                /\ rows[i].owner = Files[f].claims[w].owner
                /\ rows[i].project = Files[f].project
        BY <3>2 DEF OwnInv, RowsMade, Made
      <4>2. Files[f].project = File(p).project
        BY <1>2, <3>2, <4>1, OwnersAssumption DEF File
      <4> QED
        BY <2>1, <3>2, <4>1, <4>2 DEF Ours, File
    <3>3. CASE rows[i].source = "api" /\ rows[i].owner = File(p).claims[apply[p].at].owner
      BY <2>1, <3>3 DEF Named, File
    <3>4. CASE rows[i].source = "manifest" /\ rows[i].project = File(p).project
      BY <2>1, <3>4 DEF Ours, File
    <3> QED
      BY <1>3, <3>1, <3>2, <3>3, <3>4 DEF Owns
  <2>4. engine = "postgres" => HandOK(a, rows')
    BY <1>1, <2>1, <2>3 DEF HandOK, OwnInv, Ours
  <2>5. OffOK(a, entries')
    <3>1. OffOK(apply[p], entries')
      BY <1>1, OffStays DEF IInv, OwnInv
    <3> QED
      BY <2>1, <3>1 DEF OffOK
  <2> QED
    BY <1>1, <2>2, <2>4, <2>5, SameRows, OwnKept
<1>4. Reply(p, "taken") => OwnInv'
  BY <1>1, Answers
<1>5. \/ Reply(p, "taken")
      \/ \E i \in DOMAIN rows :
           /\ Owns(p, i)
           /\ Step(p, [apply[p] EXCEPT !.step = "update", !.id = i, !.state = rows[i].state])
  BY DEF Look, Find
<1> QED
  BY <1>3, <1>4, <1>5

LEMMA UpdateOwn ==
    ASSUME IInv, IInv', OwnInv, NEW p \in Clients, Update(p)
    PROVE  OwnInv'
<1> DEFINE a == [apply[p] EXCEPT !.step = "claim", !.at = Nothing, !.id = 0, !.state = "active"]
           i == apply[p].id
           c == Changed(p, rows[i])
<1>1. /\ apply[p] \in Apply /\ apply[p].file \in DOMAIN Files
      /\ apply[p].step = "update" /\ apply[p].at \in DOMAIN File(p).claims
  BY DEF IInv, ClientsOK, Sound, Update, File
<1>2. /\ a.file = apply[p].file /\ a.step # "update"
      /\ a.gone = apply[p].gone /\ a.half = apply[p].half /\ a.off = apply[p].off
  BY <1>1 DEF Apply
<1>3. Step(p, a) /\ engine' = engine /\ CatalogStep
  BY DEF Update, CatalogStep
<1> HIDE DEF a
<1>4. CASE i \in DOMAIN rows
  <2>1. rows' = [rows EXCEPT ![i] = c] /\ rows[i] \in Row
    BY <1>4 DEF Update, IInv, RowsOK
  <2>2. /\ c.source = rows[i].source /\ c.project = File(p).project
        /\ c.owner = File(p).claims[apply[p].at].owner
    BY <2>1 DEF Changed, Row
  <2>3. engine = "postgres" => Ours(i, apply[p], rows) \/ Named(i, apply[p], rows)
    BY <1>1, <1>4 DEF OwnInv, HandOK
  <2> HIDE DEF i, c
  <2>4. engine = "postgres" => Steadfast
    BY <1>4, <2>1, <2>2, <2>3 DEF Steadfast, Ours, Named, File
  <2>5. Made(c)
    BY <1>1, <2>2 DEF Made, File
  <2>6. RowsMade(rows')
    BY <1>4, <2>1, <2>5 DEF OwnInv, RowsMade
  <2> QED
    BY <1>2, <1>3, <2>4, <2>6, GoesOn
<1>5. CASE i \notin DOMAIN rows
  <2>1. rows' = rows
    BY <1>5 DEF Update
  <2> QED
    BY <1>2, <1>3, <2>1, SameRows, GoesOn
<1> QED
  BY <1>4, <1>5

LEMMA ListOwnedOwn ==
    ASSUME IInv, IInv', OwnInv, NEW p \in Clients, ListOwned(p)
    PROVE  OwnInv'
<1>1. apply[p] \in Apply /\ apply[p].half = 0
  BY DEF IInv, ClientsOK, Sound, ListOwned
<1>2. PICK G : /\ G \subseteq {i \in DOMAIN rows : rows[i].source = "manifest" /\ rows[i].project = File(p).project}
               /\ Step(p, [apply[p] EXCEPT !.step = IF G = {} THEN "publish" ELSE "prune",
                                           !.gone = G])
  BY DEF ListOwned
<1> DEFINE a == [apply[p] EXCEPT !.step = IF G = {} THEN "publish" ELSE "prune", !.gone = G]
<1>3. /\ a.file = apply[p].file /\ a.step # "update" /\ a.off = apply[p].off
      /\ a.gone = G /\ a.half = 0
  BY <1>1 DEF Apply
<1>4. Step(p, a)
  BY <1>2
<1> HIDE DEF a
<1>5. rows' = rows /\ engine' = engine /\ CatalogStep
  BY DEF ListOwned, CatalogStep
<1>6. HandOK(a, rows')
  BY <1>2, <1>3, <1>5 DEF HandOK, Ours, File, IInv, RowsOK
<1>7. OffOK(a, entries')
  <2>1. OffOK(apply[p], entries')
    BY <1>5, OffStays DEF IInv, OwnInv
  <2> QED
    BY <1>3, <2>1 DEF OffOK
<1> QED
  BY <1>4, <1>5, <1>6, <1>7, SameRows, OwnKept

LEMMA MarkReleasedOwn ==
    ASSUME IInv, IInv', OwnInv, NEW p \in Clients, NEW i \in apply[p].gone, MarkReleased(p, i)
    PROVE  OwnInv'
<1>1. apply[p] \in Apply /\ apply[p].step = "prune"
  BY DEF IInv, ClientsOK, Sound, MarkReleased
<1> DEFINE a == Past(apply[p], i, {})
           h == [apply[p] EXCEPT !.gone = @ \ {i}, !.half = i]
<1>2. /\ a.file = apply[p].file /\ a.step # "update"
      /\ a.gone \subseteq apply[p].gone /\ a.half = 0 /\ a.off = apply[p].off
  BY <1>1, PastFields
<1>3. /\ h.file = apply[p].file /\ h.step # "update"
      /\ h.gone \subseteq apply[p].gone /\ h.half = i /\ h.off = apply[p].off
  BY <1>1 DEF Apply
<1>5. Step(p, a) \/ Step(p, h)
  BY DEF MarkReleased
<1>6. engine' = engine /\ CatalogStep
  BY DEF MarkReleased, CatalogStep
<1>7. Steadfast /\ RowsMade(rows')
  <2>1. CASE i \in DOMAIN rows
    <3>1. /\ DOMAIN rows' = DOMAIN rows
          /\ \A j \in DOMAIN rows : /\ rows'[j].source = rows[j].source
                                   /\ rows'[j].project = rows[j].project
                                   /\ rows'[j].owner = rows[j].owner
      BY <2>1 DEF MarkReleased, IInv, RowsOK, Row
    <3> QED
      BY <3>1 DEF Steadfast, OwnInv, RowsMade, Made
  <2>2. CASE i \notin DOMAIN rows
    BY <2>2, SameRows DEF MarkReleased
  <2> QED
    BY <2>1, <2>2
<1> HIDE DEF a, h
<1>8. PICK b : /\ Step(p, b) /\ b.file = apply[p].file /\ b.step # "update"
               /\ b.gone \cup {b.half} \subseteq apply[p].gone \cup {apply[p].half, 0}
               /\ b.off \subseteq apply[p].off
  BY <1>2, <1>3, <1>5
<1> QED
  BY <1>6, <1>7, <1>8, GoesOn

LEMMA DeleteReleasedOwn ==
    ASSUME IInv, IInv', OwnInv, NEW p \in Clients, DeleteReleased(p)
    PROVE  OwnInv'
<1>1. apply[p] \in Apply /\ apply[p].step = "prune"
  BY DEF IInv, ClientsOK, Sound, DeleteReleased
<1> DEFINE a == Past(apply[p], apply[p].half, {})
<1>2. /\ a.file = apply[p].file /\ a.step # "update"
      /\ a.gone \subseteq apply[p].gone /\ a.half = 0 /\ a.off = apply[p].off
  BY <1>1, PastFields
<1>3. Step(p, a) /\ engine' = engine /\ CatalogStep
  BY DEF DeleteReleased, CatalogStep
<1>4. DOMAIN rows' \subseteq DOMAIN rows /\ \A i \in DOMAIN rows' : rows'[i] = rows[i]
  BY RowsDropped DEF IInv, DeleteReleased
<1>5. Steadfast /\ RowsMade(rows')
  BY <1>4 DEF Steadfast, OwnInv, RowsMade
<1> HIDE DEF a
<1> QED
  BY <1>2, <1>3, <1>5, GoesOn

LEMMA ReleaseFailsOwn ==
    ASSUME IInv, IInv', OwnInv, NEW p \in Clients, ReleaseFails(p)
    PROVE  OwnInv'
<1>1. apply[p] \in Apply
  BY DEF IInv, ClientsOK, Sound
<1>2. PICK i, M : Step(p, Past(apply[p], i, M))
  BY DEF ReleaseFails
<1> DEFINE a == Past(apply[p], i, M)
<1>3. /\ a.file = apply[p].file /\ a.step # "update"
      /\ a.gone \subseteq apply[p].gone /\ a.half = 0 /\ a.off = apply[p].off
  BY <1>1, PastFields
<1>4. rows' = rows /\ engine' = engine /\ CatalogStep
  BY DEF ReleaseFails, CatalogStep
<1> HIDE DEF a
<1> QED
  BY <1>2, <1>3, <1>4, SameRows, GoesOn DEF a

LEMMA PublishOwn ==
    ASSUME IInv, IInv', OwnInv, NEW p \in Clients, Publish(p)
    PROVE  OwnInv'
<1>1. apply[p] \in Apply /\ apply[p].file \in DOMAIN Files
  BY DEF IInv, ClientsOK, Sound, Publish
<1>2. rows' = rows /\ engine' = engine /\ CatalogStep
  BY <1>1 DEF Publish, CatalogStep, OfSomebody, File
<1> DEFINE S == [apply[p] EXCEPT !.step = "scope"]
<1>3. /\ S.file = apply[p].file /\ S.step # "update"
      /\ S.gone = apply[p].gone /\ S.half = apply[p].half /\ S.off = apply[p].off
  BY <1>1 DEF Apply
<1>4. Step(p, S) \/ \E r : Reply(p, r)
  BY DEF Publish
<1> HIDE DEF S
<1> QED
  BY <1>2, <1>3, <1>4, SameRows, GoesOn, Answers

LEMMA ListDeploymentsOwn ==
    ASSUME IInv, IInv', OwnInv, NEW p \in Clients, ListDeployments(p)
    PROVE  OwnInv'
<1>1. apply[p] \in Apply /\ apply[p].step = "scope"
  BY DEF IInv, ClientsOK, Sound, ListDeployments
<1>2. rows' = rows /\ engine' = engine /\ CatalogStep
  BY DEF ListDeployments, CatalogStep
<1> DEFINE D == {k \in Of(entries, "deployment") : Stray(p, k)}
           a == [apply[p] EXCEPT !.step = "off", !.off = D]
<1>3. /\ a.file = apply[p].file /\ a.step # "update" /\ a.off = D
      /\ a.gone = apply[p].gone /\ a.half = apply[p].half
  BY <1>1 DEF Apply
<1>4. (\E r : Reply(p, r)) \/ Step(p, a)
  BY DEF ListDeployments
<1>5. OffOK(a, entries')
  <2>1. entries' = entries
    BY DEF ListDeployments
  <2> QED
    BY <1>3, <2>1 DEF OffOK, Stray, File
<1> HIDE DEF a, D
<1>6. engine = "postgres" => HandOK(a, rows')
  BY <1>2, <1>3, LessInHand DEF IInv, RowsOK, OwnInv
<1> QED
  BY <1>2, <1>4, <1>5, <1>6, SameRows, Answers, OwnKept

LEMMA DeactivateOwn ==
    ASSUME IInv, IInv', OwnInv, NEW p \in Clients, NEW k \in apply[p].off, Deactivate(p, k)
    PROVE  OwnInv'
<1>1. apply[p] \in Apply /\ apply[p].step = "off"
  BY DEF IInv, ClientsOK, Sound, Deactivate
<1>2. rows' = rows /\ engine' = engine /\ CatalogStep
  BY DEF Deactivate, CatalogStep
<1> DEFINE a == [apply[p] EXCEPT !.off = @ \ {k}]
<1>3. /\ a.file = apply[p].file /\ a.step # "update" /\ a.off \subseteq apply[p].off
      /\ a.gone = apply[p].gone /\ a.half = apply[p].half
  BY <1>1 DEF Apply
<1>4. (\E r : Reply(p, r)) \/ Step(p, a)
  BY DEF Deactivate
<1> HIDE DEF a
<1> QED
  BY <1>2, <1>3, <1>4, SameRows, GoesOn, Answers

LEMMA FailsOwn ==
    ASSUME IInv, IInv', OwnInv, NEW p \in Clients, Fails(p)
    PROVE  OwnInv'
<1>1. Reply(p, "error") /\ rows' = rows /\ engine' = engine /\ CatalogStep
  BY DEF Fails, CatalogStep
<1> QED
  BY <1>1, Answers

LEMMA LookFailsOwn ==
    ASSUME IInv, IInv', OwnInv, NEW p \in Clients, LookFails(p)
    PROVE  OwnInv'
<1>1. Reply(p, "taken") /\ rows' = rows /\ engine' = engine /\ CatalogStep
  BY DEF LookFails, CatalogStep
<1> QED
  BY <1>1, Answers

LEMMA OthersOwn ==
    ASSUME IInv, IInv', OwnInv, Others
    PROVE  OwnInv'
<1>1. apply' = apply /\ engine' = engine
  BY DEF Others, ApiClaim, ApiRelease, ApiRename, ApiPublish, ApiDeactivate, UploadAsset
<1>2. CatalogStep
  BY DEF Others, ApiClaim, ApiRelease, ApiRename, ApiPublish, ApiDeactivate, UploadAsset,
         CatalogStep, OfSomebody
<1>3. (engine = "postgres" => Steadfast) /\ RowsMade(rows')
  <2>1. ASSUME NEW l \in Labels, ApiClaim(l)
        PROVE  (engine = "postgres" => Steadfast) /\ RowsMade(rows')
    <3>1. PICK n \in Nat : Below(n)
      BY DEF IInv, IdsBounded
    <3>2. PICK o \in Owners \cup {Nothing} :
              Insert([label |-> l, source |-> "api", project |-> Nothing, owner |-> o,
                      spec |-> Nothing, state |-> "active"])
      BY <2>1 DEF ApiClaim
    <3> DEFINE r == [label |-> l, source |-> "api", project |-> Nothing, owner |-> o,
                     spec |-> Nothing, state |-> "active"]
    <3>3. Made(r)
      BY DEF Made
    <3>4. Insert(r)
      BY <3>2
    <3> HIDE DEF r
    <3>5. Added(r) \/ rows' = rows
      BY <3>1, <3>4, Inserted
    <3> QED
      BY <3>3, <3>5, AddedRows
  <2>2. ASSUME NEW i \in DOMAIN rows, ApiRelease(i)
        PROVE  Steadfast /\ RowsMade(rows')
    <3>1. CASE rows' = Drop(rows, {i})
      <4>1. DOMAIN rows' \subseteq DOMAIN rows /\ \A j \in DOMAIN rows' : rows'[j] = rows[j]
        BY <3>1, RowsDropped DEF IInv
      <4> QED
        BY <4>1 DEF Steadfast, OwnInv, RowsMade
    <3>2. CASE rows' = [rows EXCEPT ![i].state = "released"]
      <4>1. /\ DOMAIN rows' = DOMAIN rows
            /\ \A j \in DOMAIN rows : /\ rows'[j].source = rows[j].source
                                     /\ rows'[j].project = rows[j].project
                                     /\ rows'[j].owner = rows[j].owner
        BY <3>2 DEF IInv, RowsOK, Row
      <4> QED
        BY <4>1 DEF Steadfast, OwnInv, RowsMade, Made
    <3> QED
      BY <2>2, <3>1, <3>2 DEF ApiRelease
  <2>3. ASSUME NEW i \in DOMAIN rows, NEW l \in Labels, ApiRename(i, l)
        PROVE  Steadfast /\ RowsMade(rows')
    <3>1. /\ DOMAIN rows' = DOMAIN rows
          /\ \A j \in DOMAIN rows : /\ rows'[j].source = rows[j].source
                                   /\ rows'[j].project = rows[j].project
                                   /\ rows'[j].owner = rows[j].owner
      BY <2>3 DEF ApiRename, IInv, RowsOK, Row
    <3> QED
      BY <3>1 DEF Steadfast, OwnInv, RowsMade, Made
  <2>4. CASE rows' = rows
    BY <2>4, SameRows
  <2> QED
    BY <2>1, <2>2, <2>3, <2>4 DEF Others, ApiPublish, ApiDeactivate, UploadAsset
<1>4. engine = "postgres" => \A q \in Clients : HandOK(apply'[q], rows')
  BY <1>1, <1>3, HandStays DEF OwnInv
<1>5. \A q \in Clients : OffOK(apply'[q], entries')
  BY <1>1, <1>2, OffStays DEF OwnInv, IInv
<1> QED
  BY <1>1, <1>3, <1>4, <1>5 DEF OwnInv

LEMMA StepKeepsOwn == IInv /\ IInv' /\ OwnInv /\ [Next]_vars => OwnInv'
<1> SUFFICES ASSUME IInv, IInv', OwnInv, [Next]_vars PROVE OwnInv'
  OBVIOUS
<1>1. ASSUME NEW p \in Clients, Handler(p) PROVE OwnInv'
  <2>1. CASE \E f \in DOMAIN Files : Begin(p, f)
    BY <2>1, BeginOwn
  <2>2. CASE \E w \in apply[p].todo : Claim(p, w)
    BY <2>2, ClaimOwn
  <2>3. CASE \E i \in apply[p].gone : MarkReleased(p, i)
    BY <2>3, MarkReleasedOwn
  <2>4. CASE \E k \in apply[p].off : Deactivate(p, k)
    BY <2>4, DeactivateOwn
  <2> QED
    BY <1>1, <2>1, <2>2, <2>3, <2>4, LookOwn, UpdateOwn, ListOwnedOwn, DeleteReleasedOwn,
       PublishOwn, ListDeploymentsOwn, FailsOwn, LookFailsOwn, ReleaseFailsOwn DEF Handler
<1>2. CASE UNCHANGED vars
  BY <1>2 DEF vars, OwnInv
<1> QED
  BY <1>1, <1>2, OthersOwn DEF Next

\* With ids that are never reused, an id that an apply read and is about to update or
\* release (reconcileManifest, Release) is gone by then or still a row of its project.
THEOREM OwnInvariance == Spec => []OwnInv
<1>1. Init => OwnInv
  BY DEF Init, OwnInv, RowsMade, HandOK, OffOK, Idle
<1> QED
  BY <1>1, StepKeepsOwn, Invariance, PTL DEF Spec

\* A request on Postgres leaves every row alone that is not its own.
LEMMA RowsOfOthersStay ==
    ASSUME IInv, OwnInv, engine = "postgres", NEW p \in Clients, Handler(p), NEW i \in DOMAIN rows,
           ~OwnRow(p, i)
    PROVE  i \in DOMAIN rows' /\ rows'[i] = rows[i]
<1>1. HandOK(apply[p], rows)
  BY DEF OwnInv
<1>2. CASE rows' = rows
  BY <1>2
<1>3. ASSUME NEW w \in apply[p].todo, Claim(p, w) PROVE i \in DOMAIN rows' /\ rows'[i] = rows[i]
  <2>1. PICK n \in Nat : Below(n)
    BY DEF IInv, IdsBounded
  <2>2. Added(Asked(p, w)) \/ rows' = rows
    BY <1>3, <2>1, Inserted DEF Claim
  <2> QED
    BY <2>2 DEF Added
<1>4. ASSUME Update(p) PROVE i \in DOMAIN rows' /\ rows'[i] = rows[i]
  <2>1. apply[p].step = "update" /\ apply[p].at \in DOMAIN File(p).claims
    BY <1>4 DEF Update, IInv, ClientsOK, Sound, File
  <2>2. i # apply[p].id
    BY <1>1, <2>1 DEF HandOK, Ours, Named, OwnRow, File
  <2> QED
    BY <1>4, <2>2 DEF Update
<1>5. ASSUME NEW j \in apply[p].gone, MarkReleased(p, j)
      PROVE  i \in DOMAIN rows' /\ rows'[i] = rows[i]
  <2>1. i # j
    BY <1>1 DEF HandOK, Ours, OwnRow, File
  <2> QED
    BY <1>5, <2>1 DEF MarkReleased
<1>6. ASSUME DeleteReleased(p) PROVE i \in DOMAIN rows' /\ rows'[i] = rows[i]
  <2>1. i # apply[p].half
    BY <1>1 DEF HandOK, Ours, OwnRow, File
  <2> QED
    BY <1>6, <2>1 DEF DeleteReleased, Drop
<1> QED
  BY <1>2, <1>3, <1>4, <1>5, <1>6
     DEF Handler, Begin, Look, ListOwned, Publish, ListDeployments, Deactivate, Fails, LookFails,
         ReleaseFails

\* A request that is under way changes no deployment of another application or scope.
LEMMA DeploymentsOfOthersStay ==
    ASSUME IInv, OwnInv, NEW p \in Clients, Handler(p), NEW k \in Of(entries, "deployment"),
           entries'[k] # entries[k]
    PROVE  entries[k].app = App(File(p).bundle) /\ entries[k].scope = File(p).scope
<1>1. CASE Publish(p)
  <2> DEFINE b == File(p).bundle
  <2>1. apply[p].file \in DOMAIN Files
    BY <1>1 DEF IInv, ClientsOK, Sound, Publish
  <2>2. entries' = Merged(entries, b) /\ Validate(b) /\ ~Conflict(entries, b)
    BY <1>1 DEF Publish, ApplyCatalog, Accepts
  <2>3. \A j \in Of(b, "deployment") : b[j].scope = File(p).scope
    BY <2>1, FilesAssumption DEF File
  <2> HIDE DEF b
  <2>4. k \in DOMAIN entries /\ Kind(k) = "deployment"
    BY DEF Of
  <2>5. k \in DOMAIN b
    BY <2>2, <2>4 DEF Merged
  <2>6. k \in Of(b, "deployment") /\ App(b) \in Of(b, "application")
    BY <2>2, <2>4, <2>5 DEF Of, Validate, App
  <2>7. k # App(b)
    BY <2>6 DEF Of
  <2>8. b[k].app = App(b)
    BY <2>2, <2>5, <2>7 DEF Validate
  <2>9. entries[k].app = b[k].app /\ entries[k].scope = b[k].scope
    BY <2>2, <2>4, <2>5 DEF Conflict, Immutable
  <2> QED
    BY <2>3, <2>6, <2>8, <2>9 DEF b
<1>2. ASSUME NEW j \in apply[p].off, Deactivate(p, j)
      PROVE  entries[k].app = App(File(p).bundle) /\ entries[k].scope = File(p).scope
  <2>1. k = j
    BY <1>2 DEF Deactivate, DeactivateCatalogDeployment
  <2> QED
    BY <2>1 DEF OwnInv, OffOK, File
<1> QED
  BY <1>1, <1>2 DEF Handler, Begin, Claim, Look, Update, ListOwned, MarkReleased, DeleteReleased,
                    ListDeployments, Fails, LookFails, ReleaseFails

\* Whatever other requests and failures come in between, an apply changes only rows of
\* its own project and owners (where ids are not given twice), and only deployments of
\* its own application and scope: what it looked up stays its own until it acts on it.
THEOREM AppliesKeepToTheirOwn == Spec => OnlyOwn
<1> DEFINE Only ==
      \A p \in Clients : Acts(p) =>
        /\ engine = "postgres" => \A i \in DOMAIN rows :
              ~OwnRow(p, i) => i \in DOMAIN rows' /\ rows'[i] = rows[i]
        /\ \A k \in Of(entries, "deployment") : entries'[k] # entries[k] =>
              entries[k].app = App(File(p).bundle) /\ entries[k].scope = File(p).scope
<1>1. IInv /\ OwnInv /\ [Next]_vars => [Only]_vars
  <2> SUFFICES ASSUME IInv, OwnInv, Next, NEW p \in Clients, Acts(p)
               PROVE  /\ engine = "postgres" => \A i \in DOMAIN rows :
                            ~OwnRow(p, i) => i \in DOMAIN rows' /\ rows'[i] = rows[i]
                      /\ \A k \in Of(entries, "deployment") : entries'[k] # entries[k] =>
                            entries[k].app = App(File(p).bundle) /\ entries[k].scope = File(p).scope
    OBVIOUS
  <2>1. ~Others
    BY DEF Acts, Others, ApiClaim, ApiRelease, ApiRename, ApiPublish, ApiDeactivate, UploadAsset
  <2>2. PICK q \in Clients : Handler(q)
    BY <2>1 DEF Next
  <2>3. \E a : Step(q, a)
    BY <2>2 DEF Handler, Begin, Claim, Look, Update, ListOwned, MarkReleased, DeleteReleased,
                Publish, ListDeployments, Deactivate, Fails, LookFails, ReleaseFails, Reply
  <2>4. q = p
    BY <2>3 DEF Step, Acts, IInv, ClientsOK
  <2> QED
    BY <2>2, <2>4, RowsOfOthersStay, DeploymentsOfOthersStay
<1> QED
  BY <1>1, Invariance, OwnInvariance, PTL DEF Spec, OnlyOwn

-----------------------------------------------------------------------------
(* What an apply has done so far: a is a request, S the labels and catalog   *)
(* keys nobody else touched since it began, R the rows, E the catalog.       *)

AskedOf(a) == Files[a.file].claims
Normals(a) == {Norm[w] : w \in DOMAIN AskedOf(a)}
Plain(w)   == Norm[w] = w

\* Nothing else is in hand than what the step is about, and an answered request has
\* nothing in hand.
Tidy(a) == /\ a.step # "idle" => a.reply = "none"
           /\ a.reply = "ok" => a.file \in DOMAIN Files
           /\ a.step \notin {"claim", "look", "update"} => a.todo = {}
           /\ a.step # "prune" => a.gone = {}
           /\ a.half # 0 => a.half \notin a.gone
           /\ a.step # "off" => a.off = {}

\* A request that is under way or has been answered with success.
Counts(a) == a.step # "idle" \/ a.reply = "ok"

\* The hostnames still to be claimed or taken over.
Pending(a) == a.todo \cup (IF a.step \in {"look", "update"} THEN {a.at} ELSE {})

\* A row says what the file asks for the hostname.
AsAsked(a, r, w) == /\ r.project = Files[a.file].project
                    /\ r.owner = AskedOf(a)[w].owner
                    /\ r.spec = AskedOf(a)[w].spec

\* A taken hostname that nobody touched is still taken; what was read of its row is true.
LookTrue(a, S, R) ==
    a.step = "look" /\ a.at \in S /\ Plain(a.at) => \E i \in DOMAIN R : R[i].label = a.at
FoundTrue(a, S, R) ==
    a.step = "update" =>
       /\ a.at \in S => a.id \in DOMAIN R /\ R[a.id].label = a.at
       /\ a.id \in DOMAIN R /\ R[a.id].label \in S => R[a.id].label = a.at /\ R[a.id].state = a.state

\* Rows to release have labels the file does not ask for.
GoneTrue(a, S, R) ==
    \A i \in (a.gone \cup {a.half}) \cap DOMAIN R : R[i].label \in S => R[i].label \notin DOMAIN AskedOf(a)

\* What is claimed stays claimed.
ClaimedTrue(a, S, R) ==
    \A w \in DOMAIN AskedOf(a) \ Pending(a) : w \in S /\ Plain(w) =>
       \E i \in DOMAIN R : R[i].label = w /\ AsAsked(a, R[i], w)

\* What is not asked for is released, about to be, or could not be.
PrunedTrue(a, S, R) ==
    a.step \notin {"claim", "look", "update"} /\ Files[a.file].prune /\ Files[a.file].manages =>
       \A i \in DOMAIN R :
          R[i].label \in S \ Normals(a) /\ R[i].source = "manifest" /\ R[i].project = Files[a.file].project
          => R[i].state = "released" \/ i \in a.gone \/ R[i].label \in a.missed

RowsTrue(a, S, R) == /\ LookTrue(a, S, R) /\ FoundTrue(a, S, R) /\ GoneTrue(a, S, R)
                     /\ ClaimedTrue(a, S, R) /\ PrunedTrue(a, S, R)

StrayOf(a, row, k) == /\ row.app = App(Files[a.file].bundle)
                      /\ row.scope = Files[a.file].scope
                      /\ k \notin DOMAIN Files[a.file].bundle

\* What is published stays published; strays are off, or about to be.
CatalogTrue(a, S, E) ==
    /\ a.step \in {"scope", "off"} \/ a.reply = "ok" =>
         \A k \in DOMAIN Files[a.file].bundle \cap S : k \in DOMAIN E /\ E[k] = Files[a.file].bundle[k]
    /\ (a.step = "off" \/ a.reply = "ok") /\ Files[a.file].prune /\ Files[a.file].deploys =>
         \A k \in Of(E, "deployment") \cap S : StrayOf(a, E[k], k) => E[k].life = "inactive" \/ k \in a.off
    /\ \A k \in a.off : k \notin DOMAIN Files[a.file].bundle

Done(p) == /\ Tidy(apply[p])
           /\ Counts(apply[p]) => /\ RowsTrue(apply[p], steady[p], rows)
                                  /\ CatalogTrue(apply[p], steady[p], entries)

DInv == IInv /\ \A p \in Clients : Done(p)

-----------------------------------------------------------------------------
(* Somebody else's step, while a request watches. *)

\* Of a row under a label of S that the file asks for, only project, owner and spec may
\* change, to what the file asks. Another row under a label of S may be released, and a
\* new one has a label the file asks for.
GentleRows(a, S) ==
    /\ \A i \in DOMAIN rows : rows[i].label \in S \cap DOMAIN AskedOf(a) =>
          /\ i \in DOMAIN rows' /\ rows'[i].label = rows[i].label /\ rows'[i].state = rows[i].state
          /\ \/ AsAsked(a, rows'[i], rows[i].label)
             \/ /\ rows'[i].project = rows[i].project /\ rows'[i].owner = rows[i].owner
                /\ rows'[i].spec = rows[i].spec
    /\ \A i \in DOMAIN rows' : rows'[i].label \in S =>
          \/ /\ i \in DOMAIN rows /\ rows'[i].label = rows[i].label
             /\ rows[i].label \notin DOMAIN AskedOf(a) =>
                   /\ rows'[i].source = rows[i].source /\ rows'[i].project = rows[i].project
                   /\ rows'[i].state \in {rows[i].state, "released"}
          \/ i \notin Ids(a) /\ rows'[i].label \in Normals(a)

\* Entries of the bundle may be published again, deployments that are not may go off.
GentleCatalog(a, S) ==
    LET B == Files[a.file].bundle
    IN  /\ \A k \in DOMAIN B \cap DOMAIN entries \cap S :
              k \in DOMAIN entries' /\ entries'[k] \in {entries[k], B[k]}
        /\ \A k \in (Of(entries', "deployment") \cap S) \ DOMAIN B :
              /\ k \in Of(entries, "deployment")
              /\ entries'[k].app = entries[k].app /\ entries'[k].scope = entries[k].scope
              /\ entries'[k].life \in {entries[k].life, "inactive"}

\* A label of a row that the file asks for is one of its normal labels.
LEMMA AskedIsNormal ==
    ASSUME NEW a, NEW l \in Labels, l \in DOMAIN AskedOf(a)
    PROVE  l \in Normals(a)
BY NormAssumption DEF Normals

LEMMA GentleRowsKeep ==
    ASSUME RowsOK, NEW a, Sound(a), NEW S, NEW S2, S2 \subseteq S,
           RowsTrue(a, S, rows), GentleRows(a, S2)
    PROVE  RowsTrue(a, S2, rows')
<1>1. LookTrue(a, S2, rows')
  <2> SUFFICES ASSUME a.step = "look", a.at \in S2, Plain(a.at)
               PROVE  \E i \in DOMAIN rows' : rows'[i].label = a.at
    BY DEF LookTrue
  <2>1. PICK i \in DOMAIN rows : rows[i].label = a.at
    BY DEF RowsTrue, LookTrue
  <2>2. a.at \in DOMAIN AskedOf(a)
    BY DEF Sound, AskedOf
  <2> QED
    BY <2>1, <2>2 DEF GentleRows
<1>2. FoundTrue(a, S2, rows')
  <2> SUFFICES ASSUME a.step = "update"
               PROVE  /\ a.at \in S2 => a.id \in DOMAIN rows' /\ rows'[a.id].label = a.at
                      /\ a.id \in DOMAIN rows' /\ rows'[a.id].label \in S2
                            => rows'[a.id].label = a.at /\ rows'[a.id].state = a.state
    BY DEF FoundTrue
  <2>1. a.at \in DOMAIN AskedOf(a) /\ a.id \in Ids(a)
    BY DEF Sound, AskedOf, Ids
  <2>2. /\ a.at \in S => a.id \in DOMAIN rows /\ rows[a.id].label = a.at
        /\ a.id \in DOMAIN rows /\ rows[a.id].label \in S
              => rows[a.id].label = a.at /\ rows[a.id].state = a.state
    BY DEF RowsTrue, FoundTrue
  <2> QED
    BY <2>1, <2>2 DEF GentleRows
<1>3. GoneTrue(a, S2, rows')
  <2>1. a.gone \cup {a.half} \subseteq Ids(a)
    BY DEF Ids
  <2>2. \A i \in (a.gone \cup {a.half}) \cap DOMAIN rows :
            rows[i].label \in S => rows[i].label \notin DOMAIN AskedOf(a)
    BY DEF RowsTrue, GoneTrue
  <2> QED
    BY <2>1, <2>2 DEF GoneTrue, GentleRows
<1>4. ClaimedTrue(a, S2, rows')
  <2> SUFFICES ASSUME NEW w \in DOMAIN AskedOf(a) \ Pending(a), w \in S2, Plain(w)
               PROVE  \E i \in DOMAIN rows' : rows'[i].label = w /\ AsAsked(a, rows'[i], w)
    BY DEF ClaimedTrue
  <2>1. PICK i \in DOMAIN rows : rows[i].label = w /\ AsAsked(a, rows[i], w)
    BY DEF RowsTrue, ClaimedTrue
  <2>2. /\ i \in DOMAIN rows' /\ rows'[i].label = w
        /\ \/ AsAsked(a, rows'[i], w)
           \/ /\ rows'[i].project = rows[i].project /\ rows'[i].owner = rows[i].owner
              /\ rows'[i].spec = rows[i].spec
    BY <2>1 DEF GentleRows
  <2> QED
    BY <2>1, <2>2 DEF AsAsked
<1>5. PrunedTrue(a, S2, rows')
  <2> SUFFICES ASSUME a.step \notin {"claim", "look", "update"},
                      Files[a.file].prune, Files[a.file].manages,
                      NEW i \in DOMAIN rows', rows'[i].label \in S2 \ Normals(a),
                      rows'[i].source = "manifest", rows'[i].project = Files[a.file].project
               PROVE  rows'[i].state = "released" \/ i \in a.gone \/ rows'[i].label \in a.missed
    BY DEF PrunedTrue
  <2>1. i \in DOMAIN rows /\ rows'[i].label = rows[i].label
    BY DEF GentleRows
  <2>2. rows[i].label \notin DOMAIN AskedOf(a)
    BY <2>1, AskedIsNormal DEF RowsOK, Row
  <2>3. /\ rows'[i].source = rows[i].source /\ rows'[i].project = rows[i].project
        /\ rows'[i].state \in {rows[i].state, "released"}
    BY <2>1, <2>2 DEF GentleRows
  <2>4. rows[i].state = "released" \/ i \in a.gone \/ rows[i].label \in a.missed
    BY <2>1, <2>3 DEF RowsTrue, PrunedTrue
  <2> QED
    BY <2>1, <2>3, <2>4
<1> QED
  BY <1>1, <1>2, <1>3, <1>4, <1>5 DEF RowsTrue

LEMMA GentleCatalogKeeps ==
    ASSUME NEW a, NEW S, NEW S2, S2 \subseteq S,
           CatalogTrue(a, S, entries), GentleCatalog(a, S2)
    PROVE  CatalogTrue(a, S2, entries')
<1> DEFINE B == Files[a.file].bundle
<1>1. ASSUME a.step \in {"scope", "off"} \/ a.reply = "ok", NEW k \in DOMAIN B \cap S2
      PROVE  k \in DOMAIN entries' /\ entries'[k] = B[k]
  <2>1. k \in DOMAIN entries /\ entries[k] = B[k]
    BY <1>1 DEF CatalogTrue
  <2> QED
    BY <1>1, <2>1 DEF GentleCatalog
<1>2. ASSUME a.step = "off" \/ a.reply = "ok", Files[a.file].prune, Files[a.file].deploys,
             NEW k \in Of(entries', "deployment") \cap S2, StrayOf(a, entries'[k], k)
      PROVE  entries'[k].life = "inactive" \/ k \in a.off
  <2>1. /\ k \in Of(entries, "deployment") /\ StrayOf(a, entries[k], k)
        /\ entries'[k].life \in {entries[k].life, "inactive"}
    BY <1>2 DEF GentleCatalog, StrayOf
  <2> QED
    BY <1>2, <2>1 DEF CatalogTrue
<1> QED
  BY <1>1, <1>2 DEF CatalogTrue

\* What is touched and still steady for a request was touched by one for the same file,
\* for which it was steady too.
LEMMA TouchedLeaves ==
    ASSUME BookOK, NEW p \in Clients, NEW q, q # p, NEW T, Touched(q, T)
    PROVE  /\ steady'[p] \subseteq steady[p]
           /\ \A t \in T \cap steady'[p] : /\ q \in Clients /\ engine = "postgres"
                                        /\ apply[q].file = apply[p].file
                                        /\ t \in steady[q]
BY DEF BookOK, Touched

LEMMA SameRowsGentle ==
    ASSUME NEW a, NEW S, rows' = rows
    PROVE  GentleRows(a, S)
BY DEF GentleRows

LEMMA SameCatalogGentle ==
    ASSUME NEW a, NEW S, entries' = entries
    PROVE  GentleCatalog(a, S)
BY DEF GentleCatalog

\* Another apply claims a hostname: a new row is of the same file, or not watched.
LEMMA ClaimIsGentle ==
    ASSUME DInv, NEW p \in Clients, NEW q \in Clients, q # p,
           NEW w \in apply[q].todo, Claim(q, w)
    PROVE  steady'[p] \subseteq steady[p] /\ GentleRows(apply[p], steady'[p])
<1> DEFINE r == Asked(q, w)
           S == steady'[p]
           N == NewId
<1>0. IInv
  BY DEF DInv
<1>1. PICK n \in Nat : Below(n)
  BY <1>0 DEF IInv, IdsBounded
<1>2. /\ S \subseteq steady[p]
      /\ Norm[w] \in S => engine = "postgres" /\ apply[q].file = apply[p].file
  BY <1>0, TouchedLeaves DEF IInv, Claim
<1>3. w \in DOMAIN AskedOf(apply[q])
  BY <1>0 DEF IInv, ClientsOK, Sound, Claim, AskedOf
<1>4. Added(r) \/ rows' = rows
  BY <1>1, Inserted DEF Claim
<1>5. CASE Added(r)
  <2>1. /\ DOMAIN rows' = DOMAIN rows \cup {N} /\ \A i \in DOMAIN rows : rows'[i] = rows[i]
        /\ rows'[N].label = Norm[w]
    BY <1>5 DEF Added, Asked
  <2>2. Norm[w] \in S => N \notin Ids(apply[p]) /\ Norm[w] \in Normals(apply[p])
    BY <1>1, <1>2, <1>3, NewIdIsNew DEF Normals, AskedOf
  <2> HIDE DEF N, S
  <2>3. \A i \in DOMAIN rows' : rows'[i].label \in S =>
            \/ i \in DOMAIN rows /\ rows'[i] = rows[i]
            \/ i \notin Ids(apply[p]) /\ rows'[i].label \in Normals(apply[p])
    BY <2>1, <2>2
  <2>4. GentleRows(apply[p], S)
    BY <2>1, <2>3 DEF GentleRows
  <2> QED
    BY <1>2, <2>4 DEF S
<1>6. CASE rows' = rows
  BY <1>2, <1>6, SameRowsGentle
<1> QED
  BY <1>4, <1>5, <1>6

\* Another apply updates a row: of a watched one it says what the file asks for.
LEMMA UpdateIsGentle ==
    ASSUME DInv, NEW p \in Clients, NEW q \in Clients, q # p, Update(q)
    PROVE  steady'[p] \subseteq steady[p] /\ GentleRows(apply[p], steady'[p])
<1> DEFINE i == apply[q].id
           l == rows[i].label
           c == Changed(q, rows[i])
           S == steady'[p]
<1>0. IInv /\ Sound(apply[q]) /\ apply[q].step = "update"
  BY DEF DInv, IInv, ClientsOK, Update
<1>1. CASE i \notin DOMAIN rows
  BY <1>1, SameRowsGentle DEF Update
<1>2. CASE i \in DOMAIN rows
  <2>1. /\ DOMAIN rows' = DOMAIN rows /\ \A j \in DOMAIN rows : j # i => rows'[j] = rows[j]
        /\ rows'[i] = c /\ Touched(q, {l})
    BY <1>2 DEF Update
  <2>2. /\ S \subseteq steady[p]
        /\ l \in S => apply[q].file = apply[p].file /\ l \in steady[q]
    BY <1>0, <2>1, TouchedLeaves DEF IInv
  <2>3. rows[i] \in Row
    BY <1>0, <1>2 DEF IInv, RowsOK
  <2>4. /\ c.label = l /\ c.project = File(q).project /\ c.state = apply[q].state
        /\ c.owner = File(q).claims[apply[q].at].owner
        /\ c.spec = File(q).claims[apply[q].at].spec
    BY <2>3 DEF Changed, Row
  <2>5. l \in S => l = apply[q].at /\ c.state = rows[i].state /\ l \in DOMAIN AskedOf(apply[p])
    <3>1. FoundTrue(apply[q], steady[q], rows)
      BY <1>0 DEF DInv, Done, Counts, RowsTrue
    <3>2. apply[q].at \in DOMAIN AskedOf(apply[q])
      BY <1>0 DEF Sound, AskedOf
    <3> QED
      BY <1>0, <1>2, <2>2, <2>4, <3>1, <3>2 DEF FoundTrue, AskedOf
  <2>6. l \in S => AsAsked(apply[p], c, l)
    BY <2>2, <2>4, <2>5 DEF AsAsked, AskedOf, File
  <2> HIDE DEF c, i, S
  <2>7. GentleRows(apply[p], S)
    BY <2>1, <2>4, <2>5, <2>6 DEF GentleRows
  <2> QED
    BY <2>2, <2>7 DEF S
<1> QED
  BY <1>1, <1>2

\* Another apply releases a row: not one under a watched hostname of the file.
LEMMA MarkReleasedIsGentle ==
    ASSUME DInv, NEW p \in Clients, NEW q \in Clients, q # p,
           NEW i \in apply[q].gone, MarkReleased(q, i)
    PROVE  steady'[p] \subseteq steady[p] /\ GentleRows(apply[p], steady'[p])
<1> DEFINE l == rows[i].label
           S == steady'[p]
<1>0. IInv /\ apply[q].step = "prune"
  BY DEF DInv, MarkReleased
<1>1. CASE i \notin DOMAIN rows
  BY <1>1, SameRowsGentle DEF MarkReleased
<1>2. CASE i \in DOMAIN rows
  <2>1. /\ DOMAIN rows' = DOMAIN rows /\ \A j \in DOMAIN rows : j # i => rows'[j] = rows[j]
        /\ rows'[i] = [rows[i] EXCEPT !.state = "released"] /\ Touched(q, {l})
    BY <1>2 DEF MarkReleased
  <2>2. rows[i] \in Row
    BY <1>0, <1>2 DEF IInv, RowsOK
  <2>3. /\ rows'[i].label = l /\ rows'[i].state = "released"
        /\ rows'[i].source = rows[i].source /\ rows'[i].project = rows[i].project
    BY <2>1, <2>2 DEF Row
  <2>4. /\ S \subseteq steady[p]
        /\ l \in S => apply[q].file = apply[p].file /\ l \in steady[q]
    BY <1>0, <2>1, TouchedLeaves DEF IInv
  <2>5. l \in S => l \notin DOMAIN AskedOf(apply[p])
    <3>1. GoneTrue(apply[q], steady[q], rows)
      BY <1>0 DEF DInv, Done, Counts, RowsTrue
    <3> QED
      BY <1>2, <2>4, <3>1 DEF GoneTrue, AskedOf
  <2> HIDE DEF S
  <2>6. GentleRows(apply[p], S)
    BY <2>1, <2>3, <2>5 DEF GentleRows
  <2> QED
    BY <2>4, <2>6 DEF S
<1> QED
  BY <1>1, <1>2

LEMMA DeleteReleasedIsGentle ==
    ASSUME DInv, NEW p \in Clients, NEW q \in Clients, q # p, DeleteReleased(q)
    PROVE  steady'[p] \subseteq steady[p] /\ GentleRows(apply[p], steady'[p])
<1> DEFINE h == apply[q].half
           T == {rows[i].label : i \in DOMAIN rows \cap {h}}
           S == steady'[p]
<1>0. IInv /\ apply[q].step = "prune"
  BY DEF DInv, IInv, ClientsOK, Sound, DeleteReleased
<1>1. rows' = Drop(rows, {h}) /\ Touched(q, T)
  BY DEF DeleteReleased
<1>2. /\ S \subseteq steady[p]
      /\ \A t \in T \cap S : apply[q].file = apply[p].file /\ t \in steady[q]
  BY <1>0, <1>1, TouchedLeaves DEF IInv
<1>3. h \in DOMAIN rows /\ rows[h].label \in S => rows[h].label \notin DOMAIN AskedOf(apply[p])
  <2>1. GoneTrue(apply[q], steady[q], rows)
    BY <1>0 DEF DInv, Done, Counts, RowsTrue
  <2> QED
    BY <1>2, <2>1 DEF GoneTrue, AskedOf
<1>4. /\ DOMAIN rows' = DOMAIN rows \ {h}
      /\ \A i \in DOMAIN rows' : rows'[i] = rows[i]
  BY <1>1 DEF Drop
<1> HIDE DEF S
<1>5. GentleRows(apply[p], S)
  BY <1>3, <1>4 DEF GentleRows
<1> QED
  BY <1>2, <1>5 DEF S

\* Another bundle: of the same file, or of keys that are not watched.
LEMMA PublishIsGentle ==
    ASSUME IInv, NEW p \in Clients, NEW q, q # p, NEW b, ApplyCatalog(b), Touched(q, DOMAIN b),
           q \in Clients => b = File(q).bundle
    PROVE  steady'[p] \subseteq steady[p] /\ GentleCatalog(apply[p], steady'[p])
<1> DEFINE S == steady'[p]
           B == Files[apply[p].file].bundle
<1>1. /\ S \subseteq steady[p]
      /\ \A k \in DOMAIN b \cap S : b = B
  BY TouchedLeaves DEF IInv, File
<1>2. CASE entries' = entries
  BY <1>1, <1>2, SameCatalogGentle
<1>3. CASE entries' = Merged(entries, b)
  <2>1. DOMAIN entries' = DOMAIN entries \cup DOMAIN b
    BY <1>3 DEF Merged
  <2>2. \A k \in DOMAIN entries' : entries'[k] = IF k \in DOMAIN b THEN b[k] ELSE entries[k]
    BY <1>3 DEF Merged
  <2> HIDE DEF S
  <2>3. \A k \in DOMAIN B \cap DOMAIN entries \cap S :
              k \in DOMAIN entries' /\ entries'[k] \in {entries[k], B[k]}
    BY <1>1, <2>1, <2>2
  <2>4. \A k \in (Of(entries', "deployment") \cap S) \ DOMAIN B :
              k \in Of(entries, "deployment") /\ entries'[k] = entries[k]
    BY <1>1, <2>1, <2>2 DEF Of
  <2>5. GentleCatalog(apply[p], S)
    BY <2>3, <2>4 DEF GentleCatalog
  <2> QED
    BY <1>1, <2>5 DEF S
<1> QED
  BY <1>2, <1>3 DEF ApplyCatalog

\* A deployment that is deactivated is not in the bundle of a request that watches it.
LEMMA DeactivateIsGentle ==
    ASSUME DInv, NEW p \in Clients, NEW q, q # p, NEW d, DeactivateCatalogDeployment(d),
           Touched(q, {d}), q \in Clients => apply[q].step = "off" /\ d \in apply[q].off
    PROVE  steady'[p] \subseteq steady[p] /\ GentleCatalog(apply[p], steady'[p])
<1> DEFINE S == steady'[p]
           B == Files[apply[p].file].bundle
<1>0. IInv
  BY DEF DInv
<1>1. /\ S \subseteq steady[p]
      /\ d \in S => q \in Clients /\ apply[q].file = apply[p].file
  BY <1>0, TouchedLeaves DEF IInv
<1>2. d \in S => d \notin DOMAIN B
  BY <1>1 DEF DInv, Done, Counts, CatalogTrue
<1>3. CASE d \notin Of(entries, "deployment")
  BY <1>1, <1>3, SameCatalogGentle DEF DeactivateCatalogDeployment
<1>4. CASE d \in Of(entries, "deployment")
  <2>1. entries' = Off(entries, d)
    BY <1>4 DEF DeactivateCatalogDeployment, Off
  <2>2. /\ DOMAIN entries' = DOMAIN entries
        /\ \A k \in DOMAIN entries : k # d => entries'[k] = entries[k]
        /\ entries'[d] = [f \in Fields("deployment") |-> IF f = "life" THEN "inactive" ELSE entries[d][f]]
    BY <1>0, <1>4, <2>1, Deactivated DEF IInv, CatalogOK
  <2>3. /\ entries'[d].app = entries[d].app /\ entries'[d].scope = entries[d].scope
        /\ entries'[d].life = "inactive"
    BY <2>2 DEF Fields
  <2> HIDE DEF S
  <2>4. \A k \in DOMAIN B \cap DOMAIN entries \cap S :
              k \in DOMAIN entries' /\ entries'[k] \in {entries[k], B[k]}
    BY <1>2, <2>2
  <2>5. \A k \in (Of(entries', "deployment") \cap S) \ DOMAIN B :
              /\ k \in Of(entries, "deployment")
              /\ entries'[k].app = entries[k].app /\ entries'[k].scope = entries[k].scope
              /\ entries'[k].life \in {entries[k].life, "inactive"}
    BY <2>2, <2>3 DEF Of
  <2>6. GentleCatalog(apply[p], S)
    BY <2>4, <2>5 DEF GentleCatalog
  <2> QED
    BY <1>1, <2>6 DEF S
<1> QED
  BY <1>3, <1>4

\* Nobody else's step disturbs what an apply has done.
LEMMA HandlersAreGentle ==
    ASSUME DInv, NEW p \in Clients, NEW q \in Clients, q # p, Handler(q)
    PROVE  /\ steady'[p] \subseteq steady[p] /\ apply'[p] = apply[p]
           /\ GentleRows(apply[p], steady'[p]) /\ GentleCatalog(apply[p], steady'[p])
<1>0. IInv /\ steady \in [Clients -> SUBSET (Labels \cup CatalogKeys)] /\ apply \in [Clients -> Apply]
  BY DEF DInv, IInv, BookOK, ClientsOK
<1>1. apply'[p] = apply[p]
  <2>1. \E a : Step(q, a)
    BY DEF Handler, Begin, Claim, Look, Update, ListOwned, MarkReleased, DeleteReleased,
           Publish, ListDeployments, Deactivate, Fails, LookFails, ReleaseFails, Reply
  <2> QED
    BY <1>0, <2>1 DEF Step
<1>2. CASE \/ \E f \in DOMAIN Files : Begin(q, f)
           \/ Look(q) \/ ListOwned(q) \/ ListDeployments(q)
           \/ Fails(q) \/ LookFails(q) \/ ReleaseFails(q)
  <2>1. rows' = rows /\ entries' = entries /\ steady'[p] = steady[p]
    BY <1>0, <1>2 DEF Begin, Look, ListOwned, ListDeployments, Fails, LookFails, ReleaseFails
  <2> QED
    BY <1>1, <2>1, SameRowsGentle, SameCatalogGentle
<1>3. ASSUME NEW w \in apply[q].todo, Claim(q, w)
      PROVE  /\ steady'[p] \subseteq steady[p]
             /\ GentleRows(apply[p], steady'[p]) /\ GentleCatalog(apply[p], steady'[p])
  BY <1>3, ClaimIsGentle, SameCatalogGentle DEF Claim
<1>4. ASSUME Update(q)
      PROVE  /\ steady'[p] \subseteq steady[p]
             /\ GentleRows(apply[p], steady'[p]) /\ GentleCatalog(apply[p], steady'[p])
  BY <1>4, UpdateIsGentle, SameCatalogGentle DEF Update
<1>5. ASSUME NEW i \in apply[q].gone, MarkReleased(q, i)
      PROVE  /\ steady'[p] \subseteq steady[p]
             /\ GentleRows(apply[p], steady'[p]) /\ GentleCatalog(apply[p], steady'[p])
  BY <1>5, MarkReleasedIsGentle, SameCatalogGentle DEF MarkReleased
<1>6. ASSUME DeleteReleased(q)
      PROVE  /\ steady'[p] \subseteq steady[p]
             /\ GentleRows(apply[p], steady'[p]) /\ GentleCatalog(apply[p], steady'[p])
  BY <1>6, DeleteReleasedIsGentle, SameCatalogGentle DEF DeleteReleased
<1>7. ASSUME Publish(q)
      PROVE  /\ steady'[p] \subseteq steady[p]
             /\ GentleRows(apply[p], steady'[p]) /\ GentleCatalog(apply[p], steady'[p])
  BY <1>0, <1>7, PublishIsGentle, SameRowsGentle DEF Publish
<1>8. ASSUME NEW k \in apply[q].off, Deactivate(q, k)
      PROVE  /\ steady'[p] \subseteq steady[p]
             /\ GentleRows(apply[p], steady'[p]) /\ GentleCatalog(apply[p], steady'[p])
  BY <1>8, DeactivateIsGentle, SameRowsGentle DEF Deactivate
<1> QED
  BY <1>1, <1>2, <1>3, <1>4, <1>5, <1>6, <1>7, <1>8 DEF Handler

LEMMA OthersAreGentle ==
    ASSUME DInv, NEW p \in Clients, Others
    PROVE  /\ steady'[p] \subseteq steady[p] /\ apply'[p] = apply[p]
           /\ GentleRows(apply[p], steady'[p]) /\ GentleCatalog(apply[p], steady'[p])
<1> DEFINE S == steady'[p]
<1>0. IInv /\ Nobody \notin Clients /\ Nobody # p
  BY ClientsAssumption DEF DInv, Nobody
<1>1. apply'[p] = apply[p]
  BY DEF Others, ApiClaim, ApiRelease, ApiRename, ApiPublish, ApiDeactivate, UploadAsset
<1>2. \A T : Touched(Nobody, T) => S \subseteq steady[p] /\ S \cap T = {}
  BY <1>0, TouchedLeaves DEF IInv
<1>3. ASSUME NEW l \in Labels, ApiClaim(l)
      PROVE  S \subseteq steady[p] /\ GentleRows(apply[p], S) /\ entries' = entries
  <2>1. PICK n \in Nat : Below(n)
    BY <1>0 DEF IInv, IdsBounded
  <2>2. PICK r : Insert(r) /\ r.label = l
    BY <1>3 DEF ApiClaim
  <2>3. Added(r) \/ rows' = rows
    BY <2>1, <2>2, Inserted
  <2>4. S \subseteq steady[p] /\ l \notin S
    BY <1>2, <1>3 DEF ApiClaim
  <2> HIDE DEF S
  <2>5. ASSUME Added(r) PROVE GentleRows(apply[p], S)
    BY <2>2, <2>4, <2>5 DEF Added, GentleRows
  <2>6. ASSUME rows' = rows PROVE GentleRows(apply[p], S)
    BY <2>6, SameRowsGentle
  <2> QED
    BY <1>3, <2>3, <2>4, <2>5, <2>6 DEF ApiClaim
<1>4. ASSUME NEW i \in DOMAIN rows, ApiRelease(i)
      PROVE  S \subseteq steady[p] /\ GentleRows(apply[p], S) /\ entries' = entries
  <2>1. S \subseteq steady[p] /\ rows[i].label \notin S
    BY <1>2, <1>4 DEF ApiRelease
  <2>2. /\ DOMAIN rows' \in {DOMAIN rows, DOMAIN rows \ {i}}
        /\ \A j \in DOMAIN rows' : j # i => rows'[j] = rows[j]
        /\ i \in DOMAIN rows' => rows'[i].label = rows[i].label
    BY <1>0, <1>4 DEF ApiRelease, Drop, IInv, RowsOK, Row
  <2> HIDE DEF S
  <2>3. GentleRows(apply[p], S)
    BY <2>1, <2>2 DEF GentleRows
  <2> QED
    BY <1>4, <2>1, <2>3 DEF ApiRelease
<1>5. ASSUME NEW i \in DOMAIN rows, NEW l \in Labels, ApiRename(i, l)
      PROVE  S \subseteq steady[p] /\ GentleRows(apply[p], S) /\ entries' = entries
  <2>1. S \subseteq steady[p] /\ rows[i].label \notin S /\ l \notin S
    BY <1>2, <1>5 DEF ApiRename
  <2>2. /\ DOMAIN rows' = DOMAIN rows /\ \A j \in DOMAIN rows : j # i => rows'[j] = rows[j]
        /\ rows'[i] = [rows[i] EXCEPT !.label = l]
    BY <1>5 DEF ApiRename
  <2>3. rows'[i].label = l
    BY <1>0, <2>2 DEF IInv, RowsOK, Row
  <2> HIDE DEF S
  <2>4. GentleRows(apply[p], S)
    BY <2>1, <2>2, <2>3 DEF GentleRows
  <2> QED
    BY <1>5, <2>1, <2>4 DEF ApiRename
<1>6. ASSUME NEW b \in Bundles, ApiPublish(b)
      PROVE  S \subseteq steady[p] /\ rows' = rows /\ GentleCatalog(apply[p], S)
  BY <1>0, <1>6, PublishIsGentle DEF ApiPublish
<1>7. ASSUME NEW k \in Of(entries, "deployment"), ApiDeactivate(k)
      PROVE  S \subseteq steady[p] /\ rows' = rows /\ GentleCatalog(apply[p], S)
  BY <1>0, <1>7, DeactivateIsGentle DEF ApiDeactivate
<1>8. ASSUME NEW a \in Assets, UploadAsset(a)
      PROVE  S \subseteq steady[p] /\ rows' = rows /\ entries' = entries
  BY <1>8 DEF UploadAsset
<1> HIDE DEF S
<1>9. S \subseteq steady[p] /\ GentleRows(apply[p], S) /\ GentleCatalog(apply[p], S)
  BY <1>3, <1>4, <1>5, <1>6, <1>7, <1>8, SameRowsGentle, SameCatalogGentle DEF Others
<1> QED
  BY <1>1, <1>9 DEF S

\* So a request that watches a gentle step is where it was.
LEMMA WatchingKeepsDone ==
    ASSUME DInv, NEW p \in Clients, apply'[p] = apply[p], steady'[p] \subseteq steady[p],
           GentleRows(apply[p], steady'[p]), GentleCatalog(apply[p], steady'[p])
    PROVE  Done(p)'
<1>1. Done(p) /\ RowsOK /\ Sound(apply[p])
  BY DEF DInv, IInv, ClientsOK
<1>2. CASE Counts(apply[p])
  <2>1. RowsTrue(apply[p], steady'[p], rows')
    BY <1>1, <1>2, GentleRowsKeep DEF Done
  <2>2. CatalogTrue(apply[p], steady'[p], entries')
    BY <1>1, <1>2, GentleCatalogKeeps DEF Done
  <2> QED
    BY <1>1, <2>1, <2>2 DEF Done
<1>3. CASE ~Counts(apply[p])
  BY <1>1, <1>3 DEF Done
<1> QED
  BY <1>2, <1>3

-----------------------------------------------------------------------------
(* The steps of the apply itself. *)

LEMMA StepDone ==
    ASSUME IInv, NEW p \in Clients, NEW a, Step(p, a), steady'[p] = steady[p], Tidy(a),
           Counts(a) => RowsTrue(a, steady[p], rows') /\ CatalogTrue(a, steady[p], entries')
    PROVE  Done(p)'
<1>1. apply'[p] = a
  BY DEF Step, IInv, ClientsOK
<1> QED
  BY <1>1 DEF Done

LEMMA OwnSteady ==
    ASSUME IInv, NEW p \in Clients, NEW T, Touched(p, T)
    PROVE  steady'[p] = steady[p]
BY DEF IInv, BookOK, Touched

\* The request once it is answered.
Answer(p, r) == Replied(apply[p], r)

LEMMA AnswerFields ==
    ASSUME NEW p, NEW r
    PROVE  LET b == Answer(p, r)
           IN  /\ b.step = "idle" /\ b.file = apply[p].file /\ b.reply = r
               /\ b.todo = {} /\ b.gone = {} /\ b.half = 0 /\ b.off = {}
               /\ b.missed = apply[p].missed
BY DEF Answer, Replied, Idle

LEMMA RefusedDone ==
    ASSUME IInv, NEW p \in Clients, NEW r, r # "ok", Reply(p, r), steady'[p] = steady[p]
    PROVE  Done(p)'
<1>1. Step(p, Answer(p, r))
  BY DEF Reply, Answer
<1>2. Tidy(Answer(p, r)) /\ ~Counts(Answer(p, r))
  BY AnswerFields DEF Tidy, Counts
<1> QED
  BY <1>1, <1>2, StepDone

\* Once the rows to release are known, what is true of the rows stays so as the request
\* goes on to other things.
LEMMA LaterRows ==
    ASSUME NEW a, NEW b, NEW S, RowsTrue(a, S, rows), Tidy(a),
           a.step \notin {"claim", "look", "update"}, b.step \notin {"claim", "look", "update"},
           b.file = a.file, b.todo = {}, b.gone = a.gone, b.half = a.half, b.missed = a.missed
    PROVE  RowsTrue(b, S, rows)
<1>1. Pending(a) = {} /\ Pending(b) = {}
  BY DEF Pending, Tidy
<1>2. LookTrue(b, S, rows) /\ FoundTrue(b, S, rows)
  BY DEF LookTrue, FoundTrue
<1>3. GoneTrue(b, S, rows)
  BY DEF RowsTrue, GoneTrue, AskedOf
<1>4. ClaimedTrue(b, S, rows)
  BY <1>1 DEF RowsTrue, ClaimedTrue, AskedOf, AsAsked
<1>5. PrunedTrue(b, S, rows)
  BY DEF RowsTrue, PrunedTrue, Normals, AskedOf
<1> QED
  BY <1>2, <1>3, <1>4, <1>5 DEF RowsTrue

LEMMA SucceededDone ==
    ASSUME DInv, NEW p \in Clients, apply[p].step \in {"publish", "scope", "off"},
           Reply(p, "ok"), steady'[p] = steady[p], rows' = rows,
           CatalogTrue(Answer(p, "ok"), steady[p], entries')
    PROVE  Done(p)'
<1> DEFINE b == Answer(p, "ok")
<1>0. /\ IInv /\ Sound(apply[p]) /\ Tidy(apply[p])
      /\ RowsTrue(apply[p], steady[p], rows)
  BY DEF DInv, IInv, ClientsOK, Done, Counts
<1>1. Step(p, b)
  BY DEF Reply, Answer
<1>2. /\ b.step = "idle" /\ b.file = apply[p].file /\ b.reply = "ok"
      /\ b.todo = {} /\ b.gone = {} /\ b.half = 0 /\ b.off = {}
      /\ b.missed = apply[p].missed
  BY AnswerFields
<1>3. apply[p].gone = {} /\ apply[p].half = 0 /\ apply[p].file \in DOMAIN Files
  BY <1>0 DEF Tidy, Sound
<1> HIDE DEF b
<1>4. Tidy(b)
  BY <1>2, <1>3 DEF Tidy
<1>5. RowsTrue(b, steady[p], rows)
  BY <1>0, <1>2, <1>3, LaterRows
<1> QED
  BY <1>0, <1>1, <1>4, <1>5, StepDone DEF b

LEMMA BeginDone ==
    ASSUME DInv, NEW p \in Clients, NEW f \in DOMAIN Files, Begin(p, f)
    PROVE  Done(p)'
<1> DEFINE a == [Idle EXCEPT !.step = "claim", !.file = f, !.todo = DOMAIN Files[f].claims]
           c == [Idle EXCEPT !.file = f, !.reply = "conflict"]
<1>0. IInv /\ rows' = rows /\ 0 \notin DOMAIN rows
  BY DEF DInv, IInv, RowsOK, Begin
<1>1. apply'[p] = a \/ apply'[p] = c
  BY <1>0 DEF Begin, Step, IInv, ClientsOK
<1>2. /\ a.step = "claim" /\ a.file = f /\ a.todo = DOMAIN Files[f].claims /\ a.reply = "none"
      /\ a.gone = {} /\ a.half = 0 /\ a.off = {}
  BY DEF Idle
<1>3. c.step = "idle" /\ c.reply = "conflict" /\ c.todo = {} /\ c.gone = {} /\ c.off = {}
  BY DEF Idle
<1> HIDE DEF a, c
<1>4. Tidy(c) /\ ~Counts(c)
  BY <1>3 DEF Tidy, Counts
<1>5. Tidy(a)
  BY <1>2 DEF Tidy
<1>6. RowsTrue(a, steady'[p], rows') /\ CatalogTrue(a, steady'[p], entries')
  BY <1>0, <1>2 DEF RowsTrue, LookTrue, FoundTrue, GoneTrue, ClaimedTrue, PrunedTrue, Pending,
                    AskedOf, CatalogTrue
<1> QED
  BY <1>1, <1>4, <1>5, <1>6 DEF Done

\* Before the bundle is published there is nothing to say of the catalog.
LEMMA EarlyCatalog ==
    ASSUME NEW a, NEW S, NEW E, Tidy(a), a.step \in {"claim", "look", "update", "prune", "publish"}
    PROVE  CatalogTrue(a, S, E)
BY DEF Tidy, CatalogTrue

\* A hostname that was free is the file's now; one that was not is looked at.
LEMMA ClaimDone ==
    ASSUME DInv, NEW p \in Clients, NEW w \in apply[p].todo, Claim(p, w)
    PROVE  Done(p)'
<1> DEFINE S == steady[p]
           T == apply[p].todo \ {w}
           c == [apply[p] EXCEPT !.todo = T, !.step = "claim", !.at = Nothing]
           l == [apply[p] EXCEPT !.todo = T, !.step = "look", !.at = w]
           r == Asked(p, w)
<1>0. /\ IInv /\ Sound(apply[p]) /\ Tidy(apply[p]) /\ RowsTrue(apply[p], S, rows)
      /\ apply[p].step = "claim" /\ 0 \notin DOMAIN rows'
  <2>1. IInv'
    BY ClaimKeeps DEF DInv
  <2> QED
    BY <2>1 DEF DInv, IInv, RowsOK, ClientsOK, Done, Counts, Claim
<1>1. steady'[p] = S
  BY <1>0, OwnSteady DEF Claim
<1>2. apply[p].gone = {} /\ apply[p].half = 0 /\ apply[p].off = {} /\ apply[p].reply = "none"
  BY <1>0 DEF Tidy, Sound
<1>3. Pending(apply[p]) = apply[p].todo
  BY <1>0 DEF Pending
<1>4. CASE Find(Norm[w]) = {}
  <2>1. Step(p, c)
    BY <1>4 DEF Claim
  <2>2. /\ c.step = "claim" /\ c.file = apply[p].file /\ c.todo = T /\ c.reply = "none"
        /\ c.gone = {} /\ c.half = 0 /\ c.off = {}
    BY <1>0, <1>2 DEF Sound, Apply
  <2>3. Added(r)
    <3>1. PICK n \in Nat : Below(n)
      BY <1>0 DEF IInv, IdsBounded
    <3>2. Insert(r) /\ Find(r.label) = {}
      BY <1>4 DEF Claim, Asked
    <3> DEFINE N == NewId
    <3>3. rows' = Put(rows, N, r) /\ N \notin DOMAIN rows
      BY <3>1, <3>2, NewIdIsNew DEF Insert
    <3> HIDE DEF N
    <3>4. rows' # rows
      BY <3>3 DEF Put
    <3> QED
      BY <3>1, <3>2, <3>4, Inserted
  <2>4. /\ r.label = Norm[w] /\ r.project = File(p).project
        /\ r.owner = File(p).claims[w].owner /\ r.spec = File(p).claims[w].spec
    BY DEF Asked
  <2>5. PICK i \in DOMAIN rows' : rows'[i] = r
    BY <2>3 DEF Added
  <2>6. \A j \in DOMAIN rows : j \in DOMAIN rows' /\ rows'[j] = rows[j]
    BY <2>3 DEF Added
  <2> HIDE DEF c, r, S
  <2>7. Tidy(c)
    BY <2>2 DEF Tidy
  <2>8. ClaimedTrue(c, S, rows')
    <3> SUFFICES ASSUME NEW u \in DOMAIN AskedOf(c) \ Pending(c), u \in S, Plain(u)
                 PROVE  \E j \in DOMAIN rows' : rows'[j].label = u /\ AsAsked(c, rows'[j], u)
      BY DEF ClaimedTrue
    <3>1. AskedOf(c) = AskedOf(apply[p]) /\ u \notin T
      BY <2>2 DEF AskedOf, Pending
    <3>2. CASE u = w
      BY <2>2, <2>4, <2>5, <3>2 DEF Plain, AsAsked, AskedOf, File
    <3>3. CASE u # w
      <4>1. PICK j \in DOMAIN rows : rows[j].label = u /\ AsAsked(apply[p], rows[j], u)
        BY <1>0, <1>3, <3>1, <3>3 DEF RowsTrue, ClaimedTrue
      <4> QED
        BY <2>2, <2>6, <4>1 DEF AsAsked, AskedOf
    <3> QED
      BY <3>2, <3>3
  <2>9. RowsTrue(c, S, rows')
    BY <1>0, <2>2, <2>8 DEF RowsTrue, LookTrue, FoundTrue, GoneTrue, PrunedTrue
  <2> QED
    BY <1>0, <1>1, <2>1, <2>2, <2>7, <2>9, EarlyCatalog, StepDone DEF S
<1>5. CASE Find(Norm[w]) # {}
  <2>1. Step(p, l) /\ rows' = rows
    BY <1>5 DEF Claim, Insert, Asked
  <2>2. /\ l.step = "look" /\ l.file = apply[p].file /\ l.todo = T /\ l.reply = "none"
        /\ l.gone = {} /\ l.half = 0 /\ l.off = {} /\ l.at = w
    BY <1>0, <1>2 DEF Sound, Apply
  <2> HIDE DEF l, S
  <2>3. Tidy(l)
    BY <2>2 DEF Tidy
  <2>4. LookTrue(l, S, rows)
    BY <1>5, <2>2 DEF LookTrue, Plain, Find
  <2>5. ClaimedTrue(l, S, rows)
    <3>1. AskedOf(l) = AskedOf(apply[p]) /\ apply[p].todo \subseteq Pending(l)
      BY <2>2 DEF AskedOf, Pending
    <3> QED
      BY <1>0, <1>3, <2>2, <3>1 DEF RowsTrue, ClaimedTrue, AsAsked, AskedOf
  <2>6. RowsTrue(l, S, rows')
    BY <1>0, <2>1, <2>2, <2>4, <2>5 DEF RowsTrue, FoundTrue, GoneTrue, PrunedTrue
  <2> QED
    BY <1>0, <1>1, <2>1, <2>2, <2>3, <2>6, EarlyCatalog, StepDone DEF S
<1> QED
  BY <1>4, <1>5

LEMMA LookDone ==
    ASSUME DInv, NEW p \in Clients, Look(p)
    PROVE  Done(p)'
<1> DEFINE S == steady[p]
<1>0. /\ IInv /\ Sound(apply[p]) /\ Tidy(apply[p]) /\ RowsTrue(apply[p], S, rows)
      /\ apply[p].step = "look" /\ 0 \notin DOMAIN rows /\ rows' = rows /\ steady'[p] = S
  BY DEF DInv, IInv, RowsOK, ClientsOK, Done, Counts, Look
<1>1. CASE Reply(p, "taken")
  BY <1>0, <1>1, RefusedDone
<1>2. ASSUME NEW i \in DOMAIN rows, rows[i].label = apply[p].at,
             Step(p, [apply[p] EXCEPT !.step = "update", !.id = i, !.state = rows[i].state])
      PROVE  Done(p)'
  <2> DEFINE u == [apply[p] EXCEPT !.step = "update", !.id = i, !.state = rows[i].state]
  <2>1. /\ u.step = "update" /\ u.file = apply[p].file /\ u.todo = apply[p].todo
        /\ u.reply = apply[p].reply /\ u.gone = apply[p].gone /\ u.half = apply[p].half
        /\ u.off = apply[p].off /\ u.at = apply[p].at /\ u.id = i /\ u.state = rows[i].state
    BY <1>0 DEF Sound, Apply
  <2>2. Step(p, u)
    BY <1>2
  <2> HIDE DEF u, S
  <2>3. Tidy(u)
    BY <1>0, <2>1 DEF Tidy
  <2>4. FoundTrue(u, S, rows)
    BY <1>2, <2>1 DEF FoundTrue
  <2>5. ClaimedTrue(u, S, rows)
    <3>1. AskedOf(u) = AskedOf(apply[p]) /\ Pending(u) = Pending(apply[p])
      BY <1>0, <2>1 DEF AskedOf, Pending
    <3> QED
      BY <1>0, <2>1, <3>1 DEF RowsTrue, ClaimedTrue, AsAsked, AskedOf
  <2>6. RowsTrue(u, S, rows)
    BY <1>0, <2>1, <2>4, <2>5 DEF RowsTrue, LookTrue, GoneTrue, PrunedTrue, AskedOf
  <2> QED
    BY <1>0, <2>1, <2>2, <2>3, <2>6, EarlyCatalog, StepDone DEF S
<1> QED
  BY <1>1, <1>2 DEF Look, Find

\* The row found is the file's now, and no other that the file asks for was changed.
LEMMA UpdateDone ==
    ASSUME DInv, NEW p \in Clients, Update(p)
    PROVE  Done(p)'
<1> DEFINE S == steady[p]
           a == [apply[p] EXCEPT !.step = "claim", !.at = Nothing, !.id = 0, !.state = "active"]
           i == apply[p].id
           c == Changed(p, rows[i])
<1>0. /\ IInv /\ Sound(apply[p]) /\ Tidy(apply[p]) /\ RowsTrue(apply[p], S, rows)
      /\ apply[p].step = "update" /\ 0 \notin DOMAIN rows'
  <2>1. IInv'
    BY UpdateKeeps DEF DInv
  <2> QED
    BY <2>1 DEF DInv, IInv, RowsOK, ClientsOK, Done, Counts, Update
<1>1. steady'[p] = S
  BY <1>0, OwnSteady DEF Update
<1>2. Step(p, a)
  BY DEF Update
<1>3. /\ a.step = "claim" /\ a.file = apply[p].file /\ a.todo = apply[p].todo
      /\ a.reply = "none" /\ a.gone = {} /\ a.half = 0 /\ a.off = {}
  BY <1>0 DEF Sound, Apply, Tidy
<1>4. /\ Pending(apply[p]) = apply[p].todo \cup {apply[p].at}
      /\ Pending(a) = apply[p].todo /\ AskedOf(a) = AskedOf(apply[p])
  BY <1>0, <1>3 DEF Pending, AskedOf
<1>5. FoundTrue(apply[p], S, rows)
  BY <1>0 DEF RowsTrue
<1>6. /\ DOMAIN rows' = DOMAIN rows /\ \A j \in DOMAIN rows : j # i => rows'[j] = rows[j]
      /\ i \in DOMAIN rows => rows'[i] = c
  BY DEF Update
<1>7. i \in DOMAIN rows => /\ c.label = rows[i].label /\ c.project = File(p).project
                           /\ c.owner = File(p).claims[apply[p].at].owner
                           /\ c.spec = File(p).claims[apply[p].at].spec
  BY <1>0 DEF Changed, IInv, RowsOK, Row
<1> HIDE DEF a, c, i, S
<1>8. Tidy(a)
  BY <1>3 DEF Tidy
<1>9. ClaimedTrue(a, S, rows')
  <2> SUFFICES ASSUME NEW w \in DOMAIN AskedOf(a) \ Pending(a), w \in S, Plain(w)
               PROVE  \E j \in DOMAIN rows' : rows'[j].label = w /\ AsAsked(a, rows'[j], w)
    BY DEF ClaimedTrue
  <2>1. CASE w = apply[p].at
    <3>1. i \in DOMAIN rows /\ rows[i].label = w
      BY <1>0, <1>5, <2>1 DEF FoundTrue, i
    <3> QED
      BY <1>3, <1>6, <1>7, <2>1, <3>1 DEF AsAsked, AskedOf, File
  <2>2. CASE w # apply[p].at
    <3>1. PICK j \in DOMAIN rows : rows[j].label = w /\ AsAsked(apply[p], rows[j], w)
      BY <1>0, <1>4, <2>2 DEF RowsTrue, ClaimedTrue
    <3>2. j # i
      BY <1>0, <1>5, <2>2, <3>1 DEF FoundTrue, i
    <3> QED
      BY <1>3, <1>6, <3>1, <3>2 DEF AsAsked, AskedOf
  <2> QED
    BY <2>1, <2>2
<1>10. RowsTrue(a, S, rows')
  BY <1>0, <1>3, <1>9 DEF RowsTrue, LookTrue, FoundTrue, GoneTrue, PrunedTrue
<1> QED
  BY <1>0, <1>1, <1>2, <1>3, <1>8, <1>10, EarlyCatalog, StepDone DEF S

\* What the file does not ask for is listed to be released.
LEMMA ListOwnedDone ==
    ASSUME DInv, NEW p \in Clients, ListOwned(p)
    PROVE  Done(p)'
<1> DEFINE S == steady[p]
           G == {i \in DOMAIN rows : /\ File(p).manages /\ File(p).prune
                                     /\ rows[i].project = File(p).project
                                     /\ rows[i].state # "released"
                                     /\ rows[i].source = "manifest" /\ Unwanted(p, i)}
           a == [apply[p] EXCEPT !.step = IF G = {} THEN "publish" ELSE "prune", !.gone = G]
<1>0. /\ IInv /\ RowsOK /\ Sound(apply[p]) /\ Tidy(apply[p]) /\ RowsTrue(apply[p], S, rows)
      /\ apply[p].step = "claim" /\ apply[p].todo = {} /\ 0 \notin DOMAIN rows
      /\ rows' = rows /\ steady'[p] = S
  BY DEF DInv, IInv, RowsOK, ClientsOK, Done, Counts, ListOwned
<1>1. Step(p, a)
  BY DEF ListOwned
<1>2. \A i \in G : rows[i].label \notin DOMAIN AskedOf(apply[p])
  BY DEF Unwanted, AskedOf, File
<1>3. ASSUME File(p).prune, File(p).manages, NEW i \in DOMAIN rows,
             rows[i].label \notin Normals(apply[p]), rows[i].source = "manifest",
             rows[i].project = File(p).project, rows[i].state # "released"
      PROVE  i \in G
  BY <1>0, <1>3, AskedIsNormal DEF RowsOK, Row, Unwanted, AskedOf, File
<1> HIDE DEF G
<1>4. /\ a.step = (IF G = {} THEN "publish" ELSE "prune") /\ a.file = apply[p].file
      /\ a.todo = {} /\ a.reply = "none" /\ a.gone = G /\ a.half = 0 /\ a.off = {}
  BY <1>0 DEF Sound, Apply, Tidy
<1> HIDE DEF a, S
<1>5. Tidy(a)
  BY <1>4 DEF Tidy
<1>6. AskedOf(a) = AskedOf(apply[p]) /\ Normals(a) = Normals(apply[p])
  BY <1>4 DEF AskedOf, Normals
<1>7. GoneTrue(a, S, rows)
  BY <1>0, <1>2, <1>4, <1>6 DEF GoneTrue
<1>8. ClaimedTrue(a, S, rows)
  <2>1. Pending(a) = {} /\ Pending(apply[p]) = {}
    BY <1>0, <1>4 DEF Pending
  <2> QED
    BY <1>0, <1>4, <1>6, <2>1 DEF RowsTrue, ClaimedTrue, AsAsked
<1>9. PrunedTrue(a, S, rows)
  BY <1>3, <1>4, <1>6 DEF PrunedTrue, File
<1>10. RowsTrue(a, S, rows)
  BY <1>4, <1>7, <1>8, <1>9 DEF RowsTrue, LookTrue, FoundTrue
<1> QED
  BY <1>0, <1>1, <1>4, <1>5, <1>10, EarlyCatalog, StepDone DEF S

\* What is left of a request that prunes once it is done with a row.
LEMMA PastPruned ==
    ASSUME NEW a, Sound(a), a.todo = {}, a.reply = "none", a.off = {}, NEW i, NEW M
    PROVE  LET b == Past(a, i, M)
           IN  /\ b.step \in {"prune", "publish"} /\ (b.step = "publish" => b.gone = {})
               /\ b.file = a.file /\ b.todo = {} /\ b.reply = "none"
               /\ b.gone = a.gone \ {i} /\ b.half = 0 /\ b.off = {}
               /\ b.missed = a.missed \cup M
BY PastFields DEF Sound

\* The same, when nothing went wrong with the row.
LEMMA PastNone ==
    ASSUME NEW a, Sound(a), a.todo = {}, a.reply = "none", a.off = {}, NEW i
    PROVE  LET b == Past(a, i, {})
           IN  /\ b.step \in {"prune", "publish"} /\ (b.step = "publish" => b.gone = {})
               /\ b.file = a.file /\ b.todo = {} /\ b.reply = "none"
               /\ b.gone = a.gone \ {i} /\ b.half = 0 /\ b.off = {}
               /\ b.missed = a.missed
<1> DEFINE b == Past(a, i, {})
<1>1. a \in Apply /\ a.missed \cup {} = a.missed
  BY DEF Sound
<1>2. /\ b.step = IF a.gone \subseteq {i} THEN "publish" ELSE "prune"
      /\ b.file = a.file /\ b.todo = a.todo /\ b.reply = a.reply /\ b.gone = a.gone \ {i}
      /\ b.half = 0 /\ b.off = a.off
  BY <1>1 DEF Past, Apply
<1>3. b.missed = a.missed \cup {}
  BY <1>1 DEF Past, Apply
<1>4. b.missed = a.missed
  BY <1>1, <1>3
<1>5. b.step = "publish" => b.gone = {}
  BY <1>2
<1> QED
  BY <1>2, <1>4, <1>5, Zenon

\* A row to be released is released, and deleted in the next statement.
LEMMA MarkReleasedDone ==
    ASSUME DInv, NEW p \in Clients, NEW i \in apply[p].gone, MarkReleased(p, i)
    PROVE  Done(p)'
<1> DEFINE S == steady[p]
           a == Past(apply[p], i, {})
           h == [apply[p] EXCEPT !.gone = @ \ {i}, !.half = i]
<1>0. /\ IInv /\ RowsOK /\ Sound(apply[p]) /\ Tidy(apply[p]) /\ RowsTrue(apply[p], S, rows)
      /\ apply[p].step = "prune" /\ apply[p].half = 0 /\ apply[p].todo = {}
      /\ apply[p].reply = "none" /\ apply[p].off = {} /\ 0 \notin DOMAIN rows
  BY DEF DInv, IInv, RowsOK, ClientsOK, Done, Counts, MarkReleased, Tidy
<1>1. steady'[p] = S
  BY <1>0, OwnSteady DEF MarkReleased
<1>2. /\ a.step \in {"prune", "publish"} /\ (a.step = "publish" => a.gone = {})
      /\ a.file = apply[p].file /\ a.todo = {} /\ a.reply = "none"
      /\ a.gone = apply[p].gone \ {i} /\ a.half = 0 /\ a.off = {} /\ a.missed = apply[p].missed
  BY <1>0, PastNone
<1>3. /\ h.step = "prune" /\ h.file = apply[p].file /\ h.todo = {} /\ h.reply = "none"
      /\ h.gone = apply[p].gone \ {i} /\ h.half = i /\ h.off = {} /\ h.missed = apply[p].missed
  BY <1>0 DEF Sound, Apply
<1>4. Step(p, a) \/ Step(p, h)
  BY DEF MarkReleased
<1> HIDE DEF a, h
<1>5. PICK b \in {a, h} : Step(p, b)
  BY <1>4
<1>6. /\ DOMAIN rows' = DOMAIN rows
      /\ \A j \in DOMAIN rows : /\ rows'[j].label = rows[j].label /\ rows'[j].source = rows[j].source
                               /\ rows'[j].project = rows[j].project
                               /\ rows'[j].owner = rows[j].owner /\ rows'[j].spec = rows[j].spec
                               /\ rows'[j].state = IF j = i THEN "released" ELSE rows[j].state
  BY <1>0 DEF MarkReleased, RowsOK, Row
<1>7. /\ b.step \in {"prune", "publish"} /\ (b.step = "publish" => b.gone = {})
      /\ b.file = apply[p].file /\ b.todo = {} /\ b.reply = "none"
      /\ b.gone = apply[p].gone \ {i} /\ b.half \in {0, i} /\ b.off = {}
      /\ b.missed = apply[p].missed
  BY <1>2, <1>3, <1>5
<1> HIDE DEF S
<1>8. Tidy(b)
  BY <1>7 DEF Tidy
<1>9. AskedOf(b) = AskedOf(apply[p]) /\ Normals(b) = Normals(apply[p])
  BY <1>7 DEF AskedOf, Normals
<1>10. GoneTrue(b, S, rows')
  BY <1>0, <1>6, <1>7, <1>9 DEF RowsTrue, GoneTrue
<1>11. ClaimedTrue(b, S, rows')
  <2>1. Pending(b) = {} /\ Pending(apply[p]) = {}
    BY <1>0, <1>7 DEF Pending
  <2> QED
    BY <1>0, <1>6, <1>7, <1>9, <2>1 DEF RowsTrue, ClaimedTrue, AsAsked
<1>12. PrunedTrue(b, S, rows')
  BY <1>0, <1>6, <1>7, <1>9 DEF RowsTrue, PrunedTrue
<1>13. RowsTrue(b, S, rows')
  BY <1>7, <1>10, <1>11, <1>12 DEF RowsTrue, LookTrue, FoundTrue
<1> QED
  BY <1>0, <1>1, <1>5, <1>7, <1>8, <1>13, EarlyCatalog, StepDone DEF S

LEMMA DeleteReleasedDone ==
    ASSUME DInv, NEW p \in Clients, DeleteReleased(p)
    PROVE  Done(p)'
<1> DEFINE S == steady[p]
           h == apply[p].half
           b == Past(apply[p], h, {})
<1>0. /\ IInv /\ RowsOK /\ Sound(apply[p]) /\ Tidy(apply[p])
      /\ apply[p].step = "prune" /\ RowsTrue(apply[p], S, rows) /\ apply[p].todo = {}
      /\ apply[p].reply = "none" /\ apply[p].off = {} /\ 0 \notin DOMAIN rows
  BY DEF DInv, IInv, RowsOK, ClientsOK, Sound, Done, Counts, DeleteReleased, Tidy
<1>1. steady'[p] = S
  BY <1>0, OwnSteady DEF DeleteReleased
<1>2. Step(p, b)
  BY DEF DeleteReleased
<1>3. /\ b.step \in {"prune", "publish"} /\ (b.step = "publish" => b.gone = {})
      /\ b.file = apply[p].file /\ b.todo = {} /\ b.reply = "none"
      /\ b.gone = apply[p].gone \ {h} /\ b.half = 0 /\ b.off = {} /\ b.missed = apply[p].missed
  BY <1>0, PastNone
<1>4. DOMAIN rows' = DOMAIN rows \ {h} /\ \A j \in DOMAIN rows' : rows'[j] = rows[j]
  BY DEF DeleteReleased, Drop
<1> HIDE DEF b, S
<1>5. Tidy(b)
  BY <1>3 DEF Tidy
<1>6. AskedOf(b) = AskedOf(apply[p]) /\ Normals(b) = Normals(apply[p])
  BY <1>3 DEF AskedOf, Normals
<1>7. GoneTrue(b, S, rows')
  BY <1>0, <1>3, <1>4, <1>6 DEF RowsTrue, GoneTrue
<1>8. ClaimedTrue(b, S, rows')
  <2> SUFFICES ASSUME NEW w \in DOMAIN AskedOf(b), w \in S, Plain(w)
               PROVE  \E j \in DOMAIN rows' : rows'[j].label = w /\ AsAsked(b, rows'[j], w)
    BY DEF ClaimedTrue
  <2>1. Pending(apply[p]) = {}
    BY <1>0 DEF Pending
  <2>2. PICK j \in DOMAIN rows : rows[j].label = w /\ AsAsked(apply[p], rows[j], w)
    BY <1>0, <1>6, <2>1 DEF RowsTrue, ClaimedTrue
  <2>3. j # h
    BY <1>0, <1>6, <2>2 DEF RowsTrue, GoneTrue
  <2> QED
    BY <1>3, <1>4, <1>6, <2>2, <2>3 DEF AsAsked
<1>9. PrunedTrue(b, S, rows')
  BY <1>0, <1>3, <1>4, <1>6 DEF RowsTrue, PrunedTrue
<1>10. RowsTrue(b, S, rows')
  BY <1>3, <1>7, <1>8, <1>9 DEF RowsTrue, LookTrue, FoundTrue
<1> QED
  BY <1>0, <1>1, <1>2, <1>3, <1>5, <1>10, EarlyCatalog, StepDone DEF S

\* A row whose release fails is not asked for either, and its label is remembered.
LEMMA ReleaseFailsDone ==
    ASSUME DInv, NEW p \in Clients, ReleaseFails(p)
    PROVE  Done(p)'
<1> DEFINE S == steady[p]
<1>0. /\ IInv /\ Sound(apply[p]) /\ Tidy(apply[p])
      /\ apply[p].step = "prune" /\ RowsTrue(apply[p], S, rows) /\ apply[p].todo = {}
      /\ apply[p].reply = "none" /\ apply[p].off = {} /\ 0 \notin DOMAIN rows
      /\ steady'[p] = S /\ rows' = rows
  BY DEF DInv, IInv, RowsOK, ClientsOK, Done, Counts, ReleaseFails, Tidy
<1>1. PICK i, M : /\ Step(p, Past(apply[p], i, M))
                  /\ i \in DOMAIN rows \cap apply[p].gone => rows[i].label \in M
  <2>1. CASE apply[p].half # 0
    <3>1. Step(p, Past(apply[p], apply[p].half, {})) /\ apply[p].half \notin apply[p].gone
      BY <1>0, <2>1 DEF ReleaseFails, Tidy
    <3> QED
      BY <3>1
  <2>2. CASE apply[p].half = 0
    <3>1. PICK i \in apply[p].gone :
              Step(p, Past(apply[p], i, {rows[j].label : j \in DOMAIN rows \cap {i}}))
      BY <2>2 DEF ReleaseFails
    <3> QED
      BY <3>1
  <2> QED
    BY <2>1, <2>2
<1> DEFINE b == Past(apply[p], i, M)
<1>2. /\ b.step \in {"prune", "publish"} /\ (b.step = "publish" => b.gone = {})
      /\ b.file = apply[p].file /\ b.todo = {} /\ b.reply = "none"
      /\ b.gone = apply[p].gone \ {i} /\ b.half = 0 /\ b.off = {}
      /\ b.missed = apply[p].missed \cup M
  BY <1>0, PastFields DEF Sound
<1>3. Step(p, b)
  BY <1>1
<1> HIDE DEF b, S
<1>4. Tidy(b)
  BY <1>2 DEF Tidy
<1>5. AskedOf(b) = AskedOf(apply[p]) /\ Normals(b) = Normals(apply[p])
  BY <1>2 DEF AskedOf, Normals
<1>6. GoneTrue(b, S, rows)
  BY <1>0, <1>2, <1>5 DEF RowsTrue, GoneTrue
<1>7. ClaimedTrue(b, S, rows)
  <2>1. Pending(b) = {} /\ Pending(apply[p]) = {}
    BY <1>0, <1>2 DEF Pending
  <2> QED
    BY <1>0, <1>2, <1>5, <2>1 DEF RowsTrue, ClaimedTrue, AsAsked
<1>8. PrunedTrue(b, S, rows)
  BY <1>0, <1>1, <1>2, <1>5 DEF RowsTrue, PrunedTrue
<1>9. RowsTrue(b, S, rows)
  BY <1>2, <1>6, <1>7, <1>8 DEF RowsTrue, LookTrue, FoundTrue
<1> QED
  BY <1>0, <1>2, <1>3, <1>4, <1>9, EarlyCatalog, StepDone DEF S

\* A bundle that is accepted is the catalog's from then on.
LEMMA PublishDone ==
    ASSUME DInv, NEW p \in Clients, Publish(p)
    PROVE  Done(p)'
<1> DEFINE S == steady[p]
           B == File(p).bundle
           s == [apply[p] EXCEPT !.step = "scope"]
<1>0. /\ IInv /\ Sound(apply[p]) /\ Tidy(apply[p])
      /\ RowsTrue(apply[p], S, rows) /\ rows' = rows
      /\ apply[p].step = "publish" /\ apply[p].todo = {} /\ apply[p].gone = {}
      /\ apply[p].reply = "none" /\ apply[p].off = {}
  BY DEF DInv, IInv, ClientsOK, Done, Counts, Publish, Tidy
<1>1. steady'[p] = S
  BY <1>0, OwnSteady DEF Publish
<1>2. CASE ~Accepts(B)
  BY <1>0, <1>1, <1>2, RefusedDone DEF Publish
<1>3. CASE Accepts(B)
  <2>1. \A k \in DOMAIN B : k \in DOMAIN entries' /\ entries'[k] = B[k]
    BY <1>3 DEF Publish, ApplyCatalog, Merged
  <2>2. CASE ~(File(p).deploys /\ File(p).prune)
    <3> DEFINE o == Answer(p, "ok")
    <3>1. o.file = apply[p].file /\ o.step = "idle" /\ o.off = {}
      BY AnswerFields
    <3>2. Reply(p, "ok")
      BY <1>3, <2>2 DEF Publish
    <3> HIDE DEF o
    <3>3. CatalogTrue(o, S, entries')
      BY <2>1, <2>2, <3>1 DEF CatalogTrue, File
    <3> QED
      BY <1>0, <1>1, <3>2, <3>3, SucceededDone DEF o
  <2>3. CASE File(p).deploys /\ File(p).prune
    <3>1. Step(p, s)
      BY <1>3, <2>3 DEF Publish
    <3>2. /\ s.step = "scope" /\ s.file = apply[p].file /\ s.todo = {} /\ s.reply = "none"
          /\ s.gone = {} /\ s.half = apply[p].half /\ s.off = {}
          /\ s.missed = apply[p].missed
      BY <1>0 DEF Sound, Apply
    <3> HIDE DEF s, S
    <3>3. Tidy(s)
      BY <3>2 DEF Tidy
    <3>4. RowsTrue(s, S, rows)
      BY <1>0, <3>2, LaterRows
    <3>5. CatalogTrue(s, S, entries')
      BY <2>1, <3>2 DEF CatalogTrue, File
    <3> QED
      BY <1>0, <1>1, <3>1, <3>3, <3>4, <3>5, StepDone DEF S
  <2> QED
    BY <2>2, <2>3
<1> QED
  BY <1>2, <1>3

LEMMA ListDeploymentsDone ==
    ASSUME DInv, NEW p \in Clients, ListDeployments(p)
    PROVE  Done(p)'
<1> DEFINE S == steady[p]
           D == {k \in Of(entries, "deployment") : Stray(p, k)}
           o == Answer(p, "ok")
           a == [apply[p] EXCEPT !.step = "off", !.off = D]
<1>0. /\ IInv /\ Sound(apply[p]) /\ Tidy(apply[p])
      /\ RowsTrue(apply[p], S, rows) /\ CatalogTrue(apply[p], S, entries)
      /\ rows' = rows /\ entries' = entries /\ steady'[p] = S
      /\ apply[p].step = "scope" /\ apply[p].todo = {} /\ apply[p].gone = {}
      /\ apply[p].reply = "none" /\ apply[p].off = {}
  BY DEF DInv, IInv, ClientsOK, Done, Counts, ListDeployments, Tidy
<1>1. \A k \in Of(entries, "deployment") : StrayOf(apply[p], entries[k], k) <=> k \in D
  BY DEF Stray, StrayOf, File
<1>2. \A k \in D : k \notin DOMAIN Files[apply[p].file].bundle
  BY DEF Stray, File
<1>3. (D = {} /\ Reply(p, "ok")) \/ Step(p, a)
  BY DEF ListDeployments
<1> HIDE DEF D
<1>4. CASE D = {} /\ Reply(p, "ok")
  <2>1. o.file = apply[p].file /\ o.step = "idle" /\ o.off = {}
    BY AnswerFields
  <2> HIDE DEF o, S
  <2>2. CatalogTrue(o, S, entries)
    BY <1>0, <1>1, <1>4, <2>1 DEF CatalogTrue, StrayOf
  <2> QED
    BY <1>0, <1>4, <2>2, SucceededDone DEF o, S
<1>5. CASE Step(p, a)
  <2>1. /\ a.step = "off" /\ a.file = apply[p].file /\ a.todo = {} /\ a.reply = "none"
        /\ a.gone = {} /\ a.half = apply[p].half /\ a.off = D /\ a.missed = apply[p].missed
    BY <1>0 DEF Sound, Apply
  <2> HIDE DEF a, S
  <2>2. Tidy(a)
    BY <2>1 DEF Tidy
  <2>3. RowsTrue(a, S, rows)
    BY <1>0, <2>1, LaterRows
  <2>4. CatalogTrue(a, S, entries)
    BY <1>0, <1>1, <1>2, <2>1 DEF CatalogTrue, StrayOf
  <2> QED
    BY <1>0, <1>5, <2>2, <2>3, <2>4, StepDone DEF S
<1> QED
  BY <1>3, <1>4, <1>5

LEMMA DeactivateDone ==
    ASSUME DInv, NEW p \in Clients, NEW d \in apply[p].off, Deactivate(p, d)
    PROVE  Done(p)'
<1> DEFINE S == steady[p]
           B == Files[apply[p].file].bundle
           o == Answer(p, "ok")
           a == [apply[p] EXCEPT !.off = @ \ {d}]
<1>0. /\ IInv /\ Sound(apply[p]) /\ Tidy(apply[p])
      /\ RowsTrue(apply[p], S, rows) /\ CatalogTrue(apply[p], S, entries)
      /\ rows' = rows /\ apply[p].step = "off" /\ apply[p].todo = {} /\ apply[p].gone = {}
      /\ apply[p].reply = "none" /\ d \notin DOMAIN B
  BY DEF DInv, IInv, ClientsOK, Done, Counts, Deactivate, Tidy, CatalogTrue
<1>1. steady'[p] = S
  BY <1>0, OwnSteady DEF Deactivate
<1>2. /\ DOMAIN entries' = DOMAIN entries
      /\ \A k \in DOMAIN entries : k # d => entries'[k] = entries[k]
      /\ d \in Of(entries, "deployment") => entries'[d].life = "inactive"
  <2>1. CASE d \in Of(entries, "deployment")
    <3>1. entries' = Off(entries, d)
      BY <2>1 DEF Deactivate, DeactivateCatalogDeployment, Off
    <3>2. /\ DOMAIN entries' = DOMAIN entries
          /\ \A k \in DOMAIN entries : k # d => entries'[k] = entries[k]
          /\ entries'[d] = [f \in Fields("deployment") |->
                             IF f = "life" THEN "inactive" ELSE entries[d][f]]
      BY <1>0, <2>1, <3>1, Deactivated DEF IInv, CatalogOK
    <3>3. entries'[d].life = "inactive"
      BY <3>2 DEF Fields
    <3> QED
      BY <3>2, <3>3
  <2>2. CASE d \notin Of(entries, "deployment")
    BY <2>2 DEF Deactivate, DeactivateCatalogDeployment
  <2> QED
    BY <2>1, <2>2
\* Whatever of the deployments to go off is left is in X.
<1>3. ASSUME NEW b, NEW X, b.file = apply[p].file, b.off = X, apply[p].off \subseteq X \cup {d},
             X \subseteq apply[p].off
      PROVE  CatalogTrue(b, S, entries')
  <2> HIDE DEF S
  <2>1. \A k \in DOMAIN B \cap S : k \in DOMAIN entries' /\ entries'[k] = B[k]
    BY <1>0, <1>2 DEF CatalogTrue
  <2>2. ASSUME Files[b.file].prune, Files[b.file].deploys,
               NEW k \in Of(entries', "deployment") \cap S, StrayOf(b, entries'[k], k)
        PROVE  entries'[k].life = "inactive" \/ k \in X
    <3>1. k \in Of(entries, "deployment")
      BY <1>2, <2>2 DEF Of
    <3>2. CASE k = d
      BY <1>2, <3>1, <3>2
    <3>3. CASE k # d
      <4>1. entries'[k] = entries[k] /\ StrayOf(apply[p], entries[k], k)
        BY <1>2, <1>3, <2>2, <3>1, <3>3 DEF Of, StrayOf
      <4> QED
        BY <1>0, <1>3, <2>2, <3>1, <3>3, <4>1 DEF CatalogTrue
    <3> QED
      BY <3>2, <3>3
  <2>3. \A k \in X : k \notin DOMAIN B
    BY <1>0, <1>3 DEF CatalogTrue
  <2> QED
    BY <1>3, <2>1, <2>2, <2>3 DEF CatalogTrue
<1>4. CASE apply[p].off = {d} /\ Reply(p, "ok")
  <2>1. o.file = apply[p].file /\ o.off = {}
    BY AnswerFields
  <2> HIDE DEF o, S
  <2>2. CatalogTrue(o, S, entries')
    BY <1>3, <1>4, <2>1
  <2> QED
    BY <1>0, <1>1, <1>4, <2>2, SucceededDone DEF o, S
<1>5. CASE Step(p, a)
  <2>1. /\ a.step = "off" /\ a.file = apply[p].file /\ a.todo = {} /\ a.reply = "none"
        /\ a.gone = {} /\ a.half = apply[p].half /\ a.off = apply[p].off \ {d}
        /\ a.missed = apply[p].missed
    BY <1>0 DEF Sound, Apply
  <2> HIDE DEF a, S
  <2>2. Tidy(a)
    BY <2>1 DEF Tidy
  <2>3. RowsTrue(a, S, rows)
    BY <1>0, <2>1, LaterRows
  <2>4. CatalogTrue(a, S, entries')
    BY <1>3, <2>1
  <2> QED
    BY <1>0, <1>1, <1>5, <2>2, <2>3, <2>4, StepDone DEF S
<1> QED
  BY <1>4, <1>5 DEF Deactivate

-----------------------------------------------------------------------------
(* Its theorems. *)

LEMMA InitDone == Init => DInv
<1> SUFFICES ASSUME Init PROVE DInv
  OBVIOUS
<1>1. IInv
  BY InitHolds
<1>2. \A p \in Clients : apply[p] = Idle
  BY DEF Init
<1>3. Tidy(Idle) /\ ~Counts(Idle)
  BY DEF Idle, Tidy, Counts
<1> QED
  BY <1>1, <1>2, <1>3 DEF DInv, Done

\* An apply's own step is one of these.
LEMMA HandlerDone ==
    ASSUME DInv, NEW p \in Clients, Handler(p)
    PROVE  Done(p)'
<1>1. ASSUME Fails(p) \/ LookFails(p) PROVE Done(p)'
  BY <1>1, RefusedDone DEF Fails, LookFails, DInv
<1> QED
  BY <1>1, BeginDone, ClaimDone, LookDone, UpdateDone, ListOwnedDone, MarkReleasedDone,
     DeleteReleasedDone, ReleaseFailsDone, PublishDone, ListDeploymentsDone, DeactivateDone
     DEF Handler

LEMMA StepKeepsDone == DInv /\ [Next]_vars => DInv'
<1> SUFFICES ASSUME DInv, [Next]_vars PROVE DInv'
  OBVIOUS
<1>1. IInv'
  BY StepKeepsIInv DEF DInv
<1>2. ASSUME NEW p \in Clients PROVE Done(p)'
  <2>1. CASE Handler(p)
    BY <2>1, HandlerDone
  <2>2. ASSUME NEW q \in Clients, q # p, Handler(q) PROVE Done(p)'
    BY <2>2, HandlersAreGentle, WatchingKeepsDone
  <2>3. CASE Others
    BY <2>3, OthersAreGentle, WatchingKeepsDone
  <2>4. CASE UNCHANGED vars
    BY <2>4, SameRowsGentle, SameCatalogGentle, WatchingKeepsDone DEF vars
  <2> QED
    BY <2>1, <2>2, <2>3, <2>4 DEF Next
<1> QED
  BY <1>1, <1>2 DEF DInv

\* Whatever else goes on, each request knows what of its work is done: claimed hostnames
\* are claimed, listed rows are not asked for, published entries are published, as far as
\* nobody touched them (handleManifestApply).
THEOREM DoneInvariance == Spec => []DInv
<1>1. Init => DInv
  BY InitDone
<1>2. DInv /\ [Next]_vars => DInv'
  BY StepKeepsDone
<1> QED
  BY <1>1, <1>2, PTL DEF Spec

\* When an apply answers "ok", the registry and the catalog say what its file says, as
\* far as nobody else touched it since it began and no release of its own failed,
\* whatever overlapping, interrupted and refused applies have left behind.
THEOREM SuccessIsConformance == Spec => []SuccessConforms
<1>1. DInv => SuccessConforms
  <2> SUFFICES ASSUME DInv, NEW p \in Clients, apply[p].reply = "ok" PROVE Conforms(p)
    BY DEF SuccessConforms
  <2> DEFINE a == apply[p]
             S == steady[p]
  <2>1. /\ Tidy(a) /\ RowsTrue(a, S, rows) /\ CatalogTrue(a, S, entries)
    BY DEF DInv, Done, Counts
  <2>2. a.step = "idle" /\ a.todo = {} /\ a.gone = {} /\ a.off = {}
    BY <2>1 DEF Tidy
  <2>3. Pending(a) = {}
    BY <2>2 DEF Pending
  <2>4. ASSUME NEW w \in DOMAIN File(p).claims, Declared(p, w)
        PROVE  \E i \in Find(w) : /\ rows[i].project = File(p).project
                                  /\ rows[i].owner = File(p).claims[w].owner
                                  /\ rows[i].spec = File(p).claims[w].spec
    <3>1. PICK i \in DOMAIN rows : rows[i].label = w /\ AsAsked(a, rows[i], w)
      BY <2>1, <2>3, <2>4 DEF RowsTrue, ClaimedTrue, AskedOf, File, Declared, Plain
    <3> QED
      BY <3>1 DEF AsAsked, AskedOf, File, Find
  <2>5. ASSUME File(p).prune, File(p).manages, NEW i \in DOMAIN rows,
               rows[i].label \in steady[p] \ {Norm[w] : w \in DOMAIN File(p).claims},
               rows[i].label \notin apply[p].missed,
               rows[i].source = "manifest", rows[i].project = File(p).project
        PROVE  rows[i].state = "released"
    BY <2>1, <2>2, <2>5 DEF RowsTrue, PrunedTrue, File, Normals, AskedOf
  <2>6. \A k \in DOMAIN File(p).bundle \cap steady[p] :
            k \in DOMAIN entries /\ entries[k] = File(p).bundle[k]
    BY <2>1 DEF CatalogTrue, File
  <2>7. ASSUME File(p).prune, File(p).deploys,
               NEW k \in Of(entries, "deployment") \cap steady[p], Stray(p, k)
        PROVE  entries[k].life = "inactive"
    <3>1. StrayOf(a, entries[k], k)
      BY <2>7 DEF Stray, StrayOf, File
    <3> QED
      BY <2>1, <2>2, <2>7, <3>1 DEF CatalogTrue, File
  <2> HIDE DEF a, S
  <2> QED
    BY <2>4, <2>5, <2>6, <2>7 DEF Conforms
<1> QED
  BY <1>1, DoneInvariance, PTL

\* A request moves on by a step of its own only.
LEMMA ActsByHandler ==
    ASSUME DInv, [Next]_vars, NEW p \in Clients, Acts(p)
    PROVE  Handler(p) /\ apply[p].step # "idle"
<1>1. apply'[p] # apply[p]
  BY DEF Acts
<1>2. ~Others /\ ~(UNCHANGED vars)
  BY <1>1, OthersAreGentle DEF vars
<1>3. \A q \in Clients : q # p => ~Handler(q)
  BY <1>1, HandlersAreGentle
<1> QED
  BY <1>2, <1>3 DEF Next, Acts

\* An apply never takes out of service a hostname its own file declares, not between a
\* release and a claim either: what it lists to be released is not in the file, and the
\* row it writes back is the one it read, unless somebody else touched the hostname.
THEOREM DeclaredNamesAreServed == Spec => ServedThroughout
<1>1. ASSUME DInv, [Next]_vars, NEW p \in Clients, NEW i \in DOMAIN rows, Acts(p),
             rows[i].label \in DOMAIN File(p).claims \cap steady[p], rows[i].state = "active"
      PROVE  i \in DOMAIN rows' /\ rows'[i].state = "active"
  <2> DEFINE S == steady[p]
  <2>0. /\ Handler(p) /\ IInv /\ apply[p].step # "idle" /\ RowsTrue(apply[p], S, rows)
        /\ rows[i] \in Row /\ rows[i].label \in DOMAIN AskedOf(apply[p]) \cap S
    BY <1>1, ActsByHandler DEF DInv, Done, Counts, IInv, RowsOK, AskedOf, File
  <2>1. ASSUME rows' = rows PROVE i \in DOMAIN rows' /\ rows'[i].state = "active"
    BY <1>1, <2>1
  <2>2. ASSUME NEW w \in apply[p].todo, Claim(p, w)
        PROVE  i \in DOMAIN rows' /\ rows'[i].state = "active"
    <3>1. PICK n \in Nat : Below(n)
      BY <2>0 DEF IInv, IdsBounded
    <3>2. Added(Asked(p, w)) \/ rows' = rows
      BY <2>2, <3>1, Inserted DEF Claim
    <3> QED
      BY <1>1, <3>2 DEF Added
  <2>3. ASSUME Update(p) PROVE i \in DOMAIN rows' /\ rows'[i].state = "active"
    <3>1. CASE apply[p].id \in DOMAIN rows /\ i = apply[p].id
      <4>1. apply[p].state = "active"
        BY <1>1, <2>0, <2>3, <3>1 DEF RowsTrue, FoundTrue, Update
      <4>2. rows' = [rows EXCEPT ![i] = Changed(p, rows[i])]
        BY <2>3, <3>1 DEF Update
      <4>3. Changed(p, rows[i]).state = "active"
        BY <2>0, <4>1 DEF Changed, Row
      <4> QED
        BY <1>1, <4>2, <4>3
    <3>2. CASE apply[p].id \in DOMAIN rows /\ i # apply[p].id
      BY <1>1, <2>3, <3>2 DEF Update
    <3>3. CASE apply[p].id \notin DOMAIN rows
      BY <1>1, <2>3, <3>3 DEF Update
    <3> QED
      BY <3>1, <3>2, <3>3
  <2>4. ASSUME NEW j \in apply[p].gone, MarkReleased(p, j)
        PROVE  i \in DOMAIN rows' /\ rows'[i].state = "active"
    <3>1. i # j
      BY <2>0 DEF RowsTrue, GoneTrue
    <3> QED
      BY <1>1, <2>4, <3>1 DEF MarkReleased
  <2>5. ASSUME DeleteReleased(p) PROVE i \in DOMAIN rows' /\ rows'[i].state = "active"
    <3>1. i # apply[p].half
      BY <2>0 DEF RowsTrue, GoneTrue
    <3> QED
      BY <1>1, <2>5, <3>1 DEF DeleteReleased, Drop
  <2>6. ASSUME \/ \E f \in DOMAIN Files : Begin(p, f)
               \/ Look(p) \/ ListOwned(p) \/ Publish(p) \/ ListDeployments(p)
               \/ \E k \in apply[p].off : Deactivate(p, k)
               \/ Fails(p) \/ LookFails(p) \/ ReleaseFails(p)
        PROVE  rows' = rows
    BY <2>6 DEF Begin, Look, ListOwned, Publish, ListDeployments, Deactivate, Fails, LookFails,
                ReleaseFails
  <2> QED
    BY <2>0, <2>1, <2>2, <2>3, <2>4, <2>5, <2>6 DEF Handler
<1>2. DInv /\ [Next]_vars =>
        [\A p \in Clients : \A i \in DOMAIN rows :
           /\ Acts(p)
           /\ rows[i].label \in DOMAIN File(p).claims \cap steady[p]
           /\ rows[i].state = "active"
           => i \in DOMAIN rows' /\ rows'[i].state = "active"]_vars
  BY <1>1
<1> QED
  BY <1>2, DoneInvariance, PTL DEF Spec, ServedThroughout

\* Nothing but looking at a taken hostname answers "taken".
LEMMA TakenByLook ==
    ASSUME DInv, NEW p \in Clients, Handler(p), apply[p].step # "idle", apply'[p].reply = "taken"
    PROVE  Look(p) \/ LookFails(p)
<1>0. /\ apply[p].reply = "none" /\ apply[p] \in Apply /\ apply \in [Clients -> Apply]
  BY DEF DInv, Done, Tidy, IInv, ClientsOK, Sound
<1>1. ASSUME NEW a, Step(p, a), a.reply # "taken" PROVE FALSE
  BY <1>0, <1>1 DEF Step
<1>2. ASSUME NEW r, Reply(p, r), r # "taken" PROVE FALSE
  <2>1. Step(p, Answer(p, r))
    BY <1>2 DEF Reply, Answer
  <2> QED
    BY <1>1, <1>2, <2>1, AnswerFields
<1>3. ASSUME NEW w \in apply[p].todo, Claim(p, w) PROVE FALSE
  <2> DEFINE a == [apply[p] EXCEPT !.todo = @ \ {w},
                                !.step = IF Find(Norm[w]) = {} THEN "claim" ELSE "look",
                                !.at = IF Find(Norm[w]) = {} THEN Nothing ELSE w]
  <2>1. Step(p, a)
    BY <1>3 DEF Claim
  <2>2. a.reply = "none"
    BY <1>0 DEF Apply
  <2> QED
    BY <1>1, <2>1, <2>2
<1>4. ASSUME Update(p) PROVE FALSE
  <2> DEFINE a == [apply[p] EXCEPT !.step = "claim", !.at = Nothing, !.id = 0, !.state = "active"]
  <2>1. Step(p, a)
    BY <1>4 DEF Update
  <2>2. a.reply = "none"
    BY <1>0 DEF Apply
  <2> QED
    BY <1>1, <2>1, <2>2
<1>5. ASSUME ListOwned(p) PROVE FALSE
  <2>1. PICK s, G : Step(p, [apply[p] EXCEPT !.step = s, !.gone = G])
    BY <1>5 DEF ListOwned
  <2>2. [apply[p] EXCEPT !.step = s, !.gone = G].reply = "none"
    BY <1>0 DEF Apply
  <2> QED
    BY <1>1, <2>1, <2>2
<1>6. ASSUME NEW i \in apply[p].gone, MarkReleased(p, i) PROVE FALSE
  <2> DEFINE a == Past(apply[p], i, {})
             h == [apply[p] EXCEPT !.gone = @ \ {i}, !.half = i]
  <2>1. a.reply = "none" /\ h.reply = "none"
    BY <1>0, PastFields DEF Apply
  <2>2. Step(p, a) \/ Step(p, h)
    BY <1>6 DEF MarkReleased
  <2> HIDE DEF a, h
  <2> QED
    BY <1>1, <2>1, <2>2
<1>7. ASSUME DeleteReleased(p) \/ ReleaseFails(p) PROVE FALSE
  <2>1. PICK i, M : Step(p, Past(apply[p], i, M))
    BY <1>7 DEF DeleteReleased, ReleaseFails
  <2>2. Past(apply[p], i, M).reply = "none"
    BY <1>0, PastFields
  <2> QED
    BY <1>1, <2>1, <2>2
<1>8. ASSUME Publish(p) PROVE FALSE
  <2> DEFINE a == [apply[p] EXCEPT !.step = "scope"]
  <2>1. Reply(p, "conflict") \/ Step(p, a) \/ Reply(p, "ok")
    BY <1>8 DEF Publish
  <2>2. a.reply = "none"
    BY <1>0 DEF Apply
  <2> HIDE DEF a
  <2> QED
    BY <1>1, <1>2, <2>1, <2>2
<1>9. ASSUME ListDeployments(p) PROVE FALSE
  <2>1. PICK D : Reply(p, "ok") \/ Step(p, [apply[p] EXCEPT !.step = "off", !.off = D])
    BY <1>9 DEF ListDeployments
  <2>2. [apply[p] EXCEPT !.step = "off", !.off = D].reply = "none"
    BY <1>0 DEF Apply
  <2> QED
    BY <1>1, <1>2, <2>1, <2>2
<1>10. ASSUME NEW k \in apply[p].off, Deactivate(p, k) PROVE FALSE
  <2> DEFINE a == [apply[p] EXCEPT !.off = @ \ {k}]
  <2>1. Reply(p, "ok") \/ Step(p, a)
    BY <1>10 DEF Deactivate
  <2>2. a.reply = "none"
    BY <1>0 DEF Apply
  <2> HIDE DEF a
  <2> QED
    BY <1>1, <1>2, <2>1, <2>2
<1>11. ASSUME Fails(p) PROVE FALSE
  BY <1>2, <1>11 DEF Fails
<1>12. ASSUME NEW f \in DOMAIN Files, Begin(p, f) PROVE FALSE
  BY <1>12 DEF Begin
<1> QED
  BY <1>3, <1>4, <1>5, <1>6, <1>7, <1>8, <1>9, <1>10, <1>11, <1>12 DEF Handler

\* An apply whose lookup does not fail is refused as taken because a row of the API or of
\* another project has the hostname: a row that an interrupted apply of the same project
\* left is taken over, and a row that vanished in between was somebody else's doing.
THEOREM RefusalsHaveCause == Spec => RefusedForCause
<1>1. ASSUME DInv, [Next]_vars, NEW p \in Clients, Acts(p), ~LookFails(p),
             apply'[p].reply = "taken", Declared(p, apply[p].at)
      PROVE  \E i \in Find(apply[p].at) : rows[i].source = "api" \/ rows[i].project # File(p).project
  <2> DEFINE a == apply[p]
  <2>1. Look(p) /\ a.step = "look"
    BY <1>1, ActsByHandler, TakenByLook DEF Look
  <2>2. IInv /\ Tidy(a) /\ LookTrue(a, steady[p], rows)
    BY <1>1, <2>1 DEF DInv, Done, Counts, RowsTrue
  <2>3. PICK i \in DOMAIN rows : rows[i].label = a.at
    BY <1>1, <2>1, <2>2 DEF LookTrue, Declared, Plain
  <2>4. Find(a.at) # {} /\ \A j \in Find(a.at) : rows[j] \in Row
    BY <2>2, <2>3 DEF Find, IInv, RowsOK
  <2>5. ASSUME NEW j \in Find(a.at), Owns(p, j),
               Step(p, [apply[p] EXCEPT !.step = "update", !.id = j, !.state = rows[j].state])
        PROVE  FALSE
    <3>1. [apply[p] EXCEPT !.step = "update", !.id = j, !.state = rows[j].state].reply = "none"
      BY <2>1, <2>2 DEF IInv, ClientsOK, Apply, Tidy
    <3> QED
      BY <1>1, <2>2, <2>5, <3>1 DEF Step, IInv, ClientsOK
  <2>6. PICK j \in Find(a.at) : ~Owns(p, j)
    BY <2>1, <2>4, <2>5 DEF Look
  <2> QED
    BY <2>4, <2>6 DEF Owns, Row
<1>2. DInv /\ [Next]_vars =>
        [\A p \in Clients :
           /\ Acts(p) /\ ~LookFails(p)
           /\ apply'[p].reply = "taken" /\ Declared(p, apply[p].at)
           => \E i \in Find(apply[p].at) :
                 rows[i].source = "api" \/ rows[i].project # File(p).project]_vars
  BY <1>1
<1> QED
  BY <1>2, DoneInvariance, PTL DEF Spec, RefusedForCause
=============================================================================
