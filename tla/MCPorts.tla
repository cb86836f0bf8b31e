------------------------------- MODULE MCPorts -------------------------------
(* A finite instance of Ports for TLC. *)
EXTENDS Ports
CONSTANTS c1, c2, o1, o2, o3
=============================================================================
