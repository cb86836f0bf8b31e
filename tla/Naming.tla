------------------------------- MODULE Naming -------------------------------
(***************************************************************************)
(* How a name becomes a row of the registry, wherever it comes from: what  *)
(* internal/core makes of a label (normalize.go, policy.go), what the API  *)
(* says of it before it is claimed (service/alloc.go), and which zone and  *)
(* label the label watcher, manifests, the observer and the DNS server     *)
(* take a hostname for.                                                    *)
(*                                                                         *)
(* A name is a sequence of DNS labels, <<"@">> the apex of a zone and      *)
(* <<"*", ...>> a wildcard.  What NFKC, lower case, punycode and the rune  *)
(* checks do to one DNS label is the table Odd: the canonical form of each *)
(* label not written in it, Bad for those refused.                         *)
(***************************************************************************)
EXTENDS Naturals, Sequences, FiniteSets

CONSTANTS Odd, Bad, LabelMax

ASSUME OddAssumption == \A p \in DOMAIN Odd : Odd[p] \notin DOMAIN Odd
ASSUME LabelMaxAssumption == LabelMax \in Nat

Apex == <<"@">>
IsWild(name) == Len(name) > 1 /\ Head(name) = "*"
Base(name) == IF IsWild(name) THEN Tail(name) ELSE name

\* normalizeDNSLabel, the length being that of the encoded label.
Canonical(p) ==
    LET c == IF p \in DOMAIN Odd THEN Odd[p] ELSE p
    IN  IF c = Bad THEN Bad ELSE IF Len(c) \in 1 .. LabelMax THEN c ELSE Bad

Invalid == <<>>

Normalize(label, kind) ==
    IF label = Apex THEN Apex
    ELSE IF \/ label = <<>>
            \/ kind # "platform" /\ (IsWild(label) \/ Len(Base(label)) > 1)
            \/ \E i \in DOMAIN Base(label) : Canonical(Base(label)[i]) = Bad
    THEN Invalid
    ELSE [i \in DOMAIN label |-> IF IsWild(label) /\ i = 1 THEN "*" ELSE Canonical(label[i])]

\* core.FQDN
FQDN(label, zone) == IF label \in {Apex, <<>>} THEN zone ELSE label \o zone

-----------------------------------------------------------------------------
(* Policies.  A policy is a record of the kinds it allows ({} for all), the *)
(* labels it blocks, the least and greatest length, and the labels its      *)
(* pattern does not match.                                                  *)

\* The length of the label in bytes: dots count.
Size(label) == LET size[i \in 0 .. Len(label)] ==
                       IF i = 0 THEN 0
                       ELSE IF i = 1 THEN Len(label[1])
                       ELSE size[i - 1] + 1 + Len(label[i])
               IN  size[Len(label)]

\* Policy.Check: the reason a label is refused for, or "".
Check(policy, label, kind) ==
    IF policy.kinds # {} /\ kind \notin policy.kinds THEN "policy_violation"
    ELSE IF kind # "tenant" THEN ""
    ELSE IF label \in policy.blocked THEN "blocked"
    ELSE IF Size(label) < policy.min \/ Size(label) > policy.max \/ label \in policy.unmatched
    THEN "policy_violation"
    ELSE ""

\* Suggest, for a label of one part (only tenants ask).  The candidates it leaves out as
\* too long are those Normalize refuses when FilterAvailable looks at them.
Suggest(base) ==
    IF Len(base) # 1 THEN <<>>
    ELSE <<base[1] \o "-app", base[1] \o "-hq", base[1] \o "-team", "get" \o base[1], base[1] \o "-2">>

-----------------------------------------------------------------------------
(* What the API says of a label.  table is a zone's allocations by label,   *)
(* with their kind and state.                                               *)

SlipAnyFree(c, table, policy) == Check(policy, c, "tenant") = ""

Free(c, table, policy) ==
    c # Invalid /\ Check(policy, c, "tenant") = "" /\ c \notin DOMAIN table

\* filterAvailable: the first three of the candidates that are free.
FilterAvailable(candidates, table, policy) ==
    LET norm == [i \in DOMAIN candidates |-> Normalize(<<candidates[i]>>, "tenant")]
        out[i \in 0 .. Len(candidates)] ==
            IF i = 0 THEN <<>>
            ELSE IF Len(out[i - 1]) < 3 /\ Free(norm[i], table, policy) THEN Append(out[i - 1], norm[i])
            ELSE out[i - 1]
    IN  out[Len(candidates)]

TakenReason(row) == IF row.kind = "tenant" THEN "taken" ELSE "reserved"

\* CheckAvailability: "" is available.
Availability(raw, table, policy) ==
    LET label == Normalize(raw, "tenant")
        refused == Check(policy, label, "tenant")
        reason == IF label = Invalid THEN "invalid"
                  ELSE IF refused # "" THEN refused
                  ELSE IF label \in DOMAIN table /\ table[label].state # "released"
                  THEN TakenReason(table[label]) ELSE ""
    IN  [reason |-> reason,
         suggestions |-> IF reason \in {"", "invalid"} THEN <<>>
                         ELSE FilterAvailable(Suggest(label), table, policy)]

\* claimHostname for a tenant through the API: "" is claimed.
ClaimReason(raw, table, policy) ==
    LET label == Normalize(raw, "tenant")
        refused == Check(policy, label, "tenant")
    IN  IF label = Invalid THEN "invalid"
        ELSE IF refused # "" THEN refused
        ELSE IF label \in DOMAIN table THEN TakenReason(table[label]) ELSE ""

-----------------------------------------------------------------------------
(* Hostnames and zones. *)

Under(host, zone) == /\ Len(host) > Len(zone)
                     /\ SubSeq(host, Len(host) - Len(zone) + 1, Len(host)) = zone
Prefix(host, zone) == SubSeq(host, 1, Len(host) - Len(zone))

\* LabelForZone of the observer, and labelFor of manifests on a hostname without
\* its "*.".
LabelForZone(host, zone) ==
    IF host = zone THEN Apex ELSE IF Under(host, zone) THEN Prefix(host, zone) ELSE Invalid

NoHome == [zone |-> <<>>, label |-> Invalid]

SlipFirstZone(host, zones) ==
    LET above == {i \in DOMAIN zones : Under(host, zones[i])}
        first == CHOOSE i \in above : \A j \in above : i <= j
    IN  IF \E i \in DOMAIN zones : zones[i] = host THEN [zone |-> host, label |-> Apex]
        ELSE IF above = {} THEN NoHome
        ELSE [zone |-> zones[first], label |-> Prefix(host, zones[first])]

\* splitByZones of the label watcher goes through the zones in their order and keeps
\* the first of the longest.
SplitByZones(host, zones) ==
    LET above == {i \in DOMAIN zones : Under(host, zones[i])}
        first == CHOOSE i \in above :
                    \A j \in above : \/ Size(zones[j]) < Size(zones[i])
                                     \/ Size(zones[j]) = Size(zones[i]) /\ i <= j
    IN  IF \E i \in DOMAIN zones : zones[i] = host THEN [zone |-> host, label |-> Apex]
        ELSE IF above = {} THEN NoHome
        ELSE [zone |-> zones[first], label |-> Prefix(host, zones[first])]

\* The DNS server's Server.matches.
Matches(name, zones) == \E i \in DOMAIN zones : name = zones[i] \/ Under(name, zones[i])

\* Server.handle: advertise is "v4" or "v6", what SetAdvertise left to answer with.
Handle(name, qtype, zones, advertise) ==
    IF ~ Matches(name, zones) THEN "NXDOMAIN"
    ELSE IF <<qtype, advertise>> \in {<<"A", "v4">>, <<"AAAA", "v6">>,
                                      <<"A", "both">>, <<"AAAA", "both">>}
    THEN "answer" ELSE "empty"
=============================================================================
