-------------------------------- MODULE Rules --------------------------------
(***************************************************************************)
(* What the observer reads out of the cluster's routes                     *)
(* (internal/observe/traefik.go): the hosts in a Traefik rule, and the     *)
(* check that no catch-all takes the traffic of a routed host.             *)
(*                                                                         *)
(* A rule is a sequence of clauses <<function, arguments>>; a route has a  *)
(* name (namespace and name of its object, which may have several), a rule,*)
(* the rule's length, and an explicit priority or 0.                       *)
(***************************************************************************)
EXTENDS Naming

\* A host pattern: an exact host, a catch-all over the labels of a zone, or a regular
\* expression of another shape.
Exact(host)  == [is |-> "exact", host |-> host]
CatchAll(zone) == [is |-> "catchall", host |-> zone]
Other        == [is |-> "other", host |-> <<>>]

PatternsOf(clause) ==
    CASE clause[1] \in {"Host", "HostSNI"} -> {Exact(h) : h \in clause[2]}
      [] clause[1] = "HostRegexp" -> {IF z = <<>> THEN Other ELSE CatchAll(z) : z \in clause[2]}
      [] OTHER -> {}

\* ParseMatch: all clauses count, whatever joins them; paths and methods do not.
ParseMatch(rule) == UNION {PatternsOf(rule[i]) : i \in DOMAIN rule}

EffectivePriority(r) == IF r.priority # 0 THEN r.priority ELSE r.length

SlipTiesPass(r, ca) == EffectivePriority(r) < EffectivePriority(ca)

\* "Ties lose traffic non-deterministically."
Shadows(r, ca) == EffectivePriority(r) <= EffectivePriority(ca)

InClass(host, zone) == Under(host, zone) /\ Len(host) = Len(zone) + 1

HostsIn(r, zone) == {p.host : p \in {q \in ParseMatch(r.rule) : q.is = "exact" /\ InClass(q.host, zone)}}

\* ShadowCheck: the hosts of a zone, their routes, and the catch-alls over the zone that
\* may take their traffic. Routes of one object are not held against each other.
ShadowCheck(zone, routes) ==
    UNION {{[host |-> h, route |-> r.name, related |-> ca.name] :
               h \in HostsIn(r, zone),
               ca \in {c \in routes : /\ CatchAll(zone) \in ParseMatch(c.rule)
                                      /\ r.name # c.name
                                      /\ Shadows(r, c)}} : r \in routes}
=============================================================================
