------------------------------ MODULE MCClaims ------------------------------
(* Two handlers, a held claim and one without hold, each with its port. *)
EXTENDS Claims, TLC
CONSTANTS h1, h2, root
An(label, owner, key, port, hold, token) ==
    [label |-> label, owner |-> owner, key |-> key, port |-> port, hold |-> hold, token |-> token]
MCAsk == "held"    :> An("a", "o1", "k1", TRUE, TRUE, root) @@
         "scoped"  :> An("b", "o2", "k2", FALSE, FALSE, "t")
MCRequests == DOMAIN MCAsk
=============================================================================
