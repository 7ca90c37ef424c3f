------------------------------- MODULE MCClist -------------------------------
(* Instances of Clist for TLC. *)
EXTENDS Clist
=============================================================================
