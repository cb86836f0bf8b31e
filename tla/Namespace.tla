----------------------------- MODULE Namespace -----------------------------
(***************************************************************************)
(* What the registry promises to its clients: a hostname is held by one    *)
(* owner at a time.  A free hostname may be granted, a held one may be     *)
(* given up, and a holder may move its claim to a free hostname of the     *)
(* same zone.  No step takes a hostname from one owner and hands it to     *)
(* another, and no step grants one that is held.                           *)
(***************************************************************************)
CONSTANTS Names,     \* hostnames, as <<zone, label>>
          Owners,    \* owner_ref values
          Free       \* "nobody holds this hostname", not an owner

VARIABLE holder      \* holder[n]: who holds hostname n

TypeOK == holder \in [Names -> Owners \cup {Free}]

Init == holder = [n \in Names |-> Free]

Grant(n, o) ==
    /\ holder[n] = Free
    /\ holder' = [holder EXCEPT ![n] = o]

\* The reaper frees every expired hold in one statement, so several hostnames
\* may become free in one step.
GiveUp ==
    holder' = [n \in Names |-> IF holder'[n] = Free THEN Free ELSE holder[n]]

Move(n, m) ==
    /\ n[1] = m[1]
    /\ holder[n] # Free
    /\ holder[m] = Free
    /\ holder' = [holder EXCEPT ![n] = Free, ![m] = holder[n]]

Next ==
    \/ GiveUp
    \/ \E n \in Names, o \in Owners : Grant(n, o)
    \/ \E n, m \in Names : Move(n, m)

Spec == Init /\ [][Next]_holder
============================================================================
