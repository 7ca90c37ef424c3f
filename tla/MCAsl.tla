------------------------------- MODULE MCAsl -------------------------------
(* Instance of Asl for TLC.  ProcBlks are interchangeable. *)
EXTENDS Asl, TLC

Symmetry == Permutations(Proc)

\* No step reads the answer of the last call: every step is explored, and
\* compared with AslSpec, from one state for each value of the other variables.
Table == <<aslh, semdFree, s_semAdd, s_procq, p_cursem>>
=============================================================================
