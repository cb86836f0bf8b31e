------------------------------ MODULE MCReconcile ------------------------------
(* A finite instance of Reconcile for TLC: one allocation may have a service   *)
(* behind an address route.                                                    *)
EXTENDS Reconcile

MCBackends == {[kind |-> "service", to |-> 1], [kind |-> "address", to |-> 1],
               [kind |-> "service", to |-> 2]}
MCShapes == {<<[kind |-> "service", to |-> 1]>>,
             <<[kind |-> "address", to |-> 1], [kind |-> "service", to |-> 2]>>}
=============================================================================
