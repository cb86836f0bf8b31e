------------------------------- MODULE Catalog -------------------------------
(***************************************************************************)
(* The catalog of applications, services, capability versions, deployments *)
(* and resources (internal/store/catalog.go, catalog/). Publishers send    *)
(* bundles; every bundle is stored in one transaction, or refused as a     *)
(* whole.                                                                  *)
(*                                                                         *)
(* A bundle, like the table itself, is a function from <<kind, id>> to     *)
(* rows. A row keeps the fields some rule looks at; every other field of   *)
(* the JSON is in says. scope stands for environment, workspace, zone and  *)
(* owner, which are fixed together.                                        *)
(***************************************************************************)
EXTENDS Tables

CONSTANTS Bundles,      \* what publishers send to POST /v1/catalog/apply
          Assets,       \* logos
          Nothing       \* no version selected, no logo

VARIABLES
    entries,    \* catalog_entries
    assets      \* catalog_assets: the logos that were imported

Kinds == {"application", "service", "capability", "deployment", "resource"}
Key(kind, id) == <<kind, id>>
Kind(k) == k[1]
Of(B, kind) == {k \in DOMAIN B : Kind(k) = kind}

\* The fields a row of the kind has, and those put() does not let change.
Fields(kind) ==
    CASE kind = "application" -> {"project", "says", "logo"}
      [] kind = "service"     -> {"app", "key", "says", "logo"}
      [] kind = "capability"  -> {"app", "service", "version", "says"}
      [] kind = "deployment"  -> {"app", "service", "scope", "selects", "life", "says"}
      [] kind = "resource"    -> {"app", "key", "scope", "uses", "says", "logo"}

SlipMutableCapability(kind) ==
    CASE kind = "application" -> {"project"}
      [] kind = "service"     -> {"app", "key"}
      [] kind = "capability"  -> {"app", "service", "version"}
      [] kind = "deployment"  -> {"app", "service", "scope"}
      [] kind = "resource"    -> {"app", "key", "scope"}

Immutable(kind) ==
    CASE kind = "application" -> {"project"}
      [] kind = "service"     -> {"app", "key"}
      [] kind = "capability"  -> Fields(kind)
      [] kind = "deployment"  -> {"app", "service", "scope"}
      [] kind = "resource"    -> {"app", "key", "scope"}

Logo(row) == IF "logo" \in DOMAIN row THEN row.logo ELSE Nothing

WellFormed(E) ==
    \A k \in DOMAIN E : /\ Kind(k) \in Kinds
                        /\ E[k] = [f \in Fields(Kind(k)) |-> E[k][f]]
                        /\ Logo(E[k]) \in Assets \cup {Nothing}
                        /\ Kind(k) = "deployment" => E[k].life \in {"registered", "inactive"}

ASSUME BundlesAssumption == \A b \in Bundles : WellFormed(b)

-----------------------------------------------------------------------------
(* Rules. *)

App(b) == CHOOSE k \in Of(b, "application") : TRUE

\* Bundle.Validate: one application that owns everything, one id and one key for each,
\* versions, deployments and resources of services in the bundle.
Validate(b) ==
    /\ \E k \in Of(b, "application") : Of(b, "application") = {k}
    /\ \A k \in DOMAIN b \ {App(b)} : b[k].app = App(b)
    /\ \A j, k \in DOMAIN b : j[2] = k[2] => j = k
    /\ \A j, k \in Of(b, "service") : b[j].key = b[k].key => j = k
    /\ \A k \in Of(b, "capability") \cup Of(b, "deployment") : b[k].service \in Of(b, "service")
    /\ \A k \in Of(b, "resource") : b[k].uses \subseteq Of(b, "service")

Merged(E, b) == [k \in DOMAIN E \cup DOMAIN b |-> IF k \in DOMAIN b THEN b[k] ELSE E[k]]

\* UNIQUE (kind, application_id, natural_key).
Natural(kind, row) ==
    CASE kind = "service"  -> <<row.key>>
      [] kind = "resource" -> <<row.scope, row.key>>
      [] OTHER             -> <<>>

SameNatural(kind, r, s) == /\ Natural(kind, r) # <<>>
                           /\ r.app = s.app /\ Natural(kind, r) = Natural(kind, s)

\* put() refuses an identity that is taken or would change, a version that would.
Conflict(E, b) ==
    \E k \in DOMAIN b :
       \/ k \in DOMAIN E /\ \E f \in Immutable(Kind(k)) : E[k][f] # b[k][f]
       \/ \E j \in Of(E, Kind(k)) \ {k} : SameNatural(Kind(k), E[j], b[k])

SlipAnyApplication(E, b) ==
    \A k \in Of(b, "deployment") : b[k].selects # Nothing =>
       \E c \in Of(Merged(E, b), "capability") : Merged(E, b)[c].version = b[k].selects

\* A deployment selects a version its application has published, with this bundle or
\* before it.
Published(E, b) ==
    \A k \in Of(b, "deployment") : b[k].selects # Nothing =>
       \E c \in Of(Merged(E, b), "capability") :
          /\ Merged(E, b)[c].service = b[k].service
          /\ Merged(E, b)[c].version = b[k].selects
          /\ Merged(E, b)[c].app = b[k].app

SlipAnyLogo(b) == TRUE
LogosImported(b) == \A k \in DOMAIN b : Logo(b[k]) \in assets \cup {Nothing}

\* CheckCatalog runs the same transaction and rolls it back.
Accepts(b) == Validate(b) /\ ~Conflict(entries, b) /\ Published(entries, b) /\ LogosImported(b)

-----------------------------------------------------------------------------
(* Handlers: each is one statement or one transaction under the writers' lock. *)

ApplyCatalog(b) == entries' = IF Accepts(b) THEN Merged(entries, b) ELSE entries

DeactivateCatalogDeployment(k) ==
    entries' = IF k \in Of(entries, "deployment")
               THEN [entries EXCEPT ![k].life = "inactive"] ELSE entries

PutCatalogAsset(a) == assets' = assets \cup {a}

-----------------------------------------------------------------------------
(* Reading. *)

Selecting(scope) ==
    {k \in Of(entries, "deployment") : /\ entries[k].scope = scope
                                       /\ entries[k].life = "registered"
                                       /\ entries[k].selects # Nothing}

\* Snapshot.Access: one entry for each selecting deployment all of whose parts are there.
Access(scope) ==
    {k \in Selecting(scope) :
       /\ entries[k].app \in Of(entries, "application")
       /\ entries[k].service \in Of(entries, "service")
       /\ \E c \in Of(entries, "capability") : /\ entries[c].service = entries[k].service
                                               /\ entries[c].version = entries[k].selects}
=============================================================================
