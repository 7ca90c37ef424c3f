------------------------------- MODULE MCP2Test -------------------------------
(* Instances of P2Test for TLC. *)
EXTENDS P2Test
=============================================================================
