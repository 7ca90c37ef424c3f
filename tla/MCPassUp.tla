------------------------------- MODULE MCPassUp -------------------------------
(* Instances of PassUp for TLC.  ProcBlks are interchangeable. *)
EXTENDS PassUp, TLC

Symmetry == Permutations(Proc)
=============================================================================
