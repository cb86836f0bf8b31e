---------------------------- MODULE MCObservation ----------------------------
(* A finite instance of Observation for TLC. *)
EXTENDS Observation
=============================================================================
