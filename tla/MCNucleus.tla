------------------------------ MODULE MCNucleus ------------------------------
(***************************************************************************)
(* Instances of Nucleus for TLC.  ProcBlks are interchangeable (main and    *)
(* create_process take any free one), so they form a symmetry set in the    *)
(* runs that check safety only.                                             *)
(***************************************************************************)
EXTENDS Nucleus

Symmetry == Permutations(Proc)

UnitWeights  == {-1, 1}
MixedWeights == {-2, -1, 1}
=============================================================================
