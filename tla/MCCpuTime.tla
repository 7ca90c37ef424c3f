------------------------------ MODULE MCCpuTime ------------------------------
(* Instances of CpuTime for TLC.  ProcBlks are interchangeable. *)
EXTENDS CpuTime, TLC

Symmetry == Permutations(Proc)
=============================================================================
