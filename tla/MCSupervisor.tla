---------------------------- MODULE MCSupervisor ----------------------------
(* A finite instance of Supervisor for TLC. *)
EXTENDS Supervisor
=============================================================================
