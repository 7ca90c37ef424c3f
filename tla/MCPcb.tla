-------------------------------- MODULE MCPcb --------------------------------
(* Instances of Pcb for TLC. *)
EXTENDS Pcb
=============================================================================
