-------------------------------- MODULE PidGen --------------------------------
(***************************************************************************)
(* Process ids: for every process that is created pid_generator (syscall.c) *)
(* writes the decimal digits of a counter behind those of an address in the *)
(* stack, &tmp of allocPcb (pcb.c:57), in unsigned arithmetic.              *)
(***************************************************************************)
EXTENDS Integers

CONSTANTS W,       \* 2^w, w the width of unsigned int
          Address  \* &tmp in allocPcb

\* The address is the same for all processes that are created by a system call.
\* The first one is allocated by main (initial.c:72) at another depth of the
\* stack; its pid is taken to have the same address, a simplification: what is
\* said of the digits below holds for either address.

\* The digits fit the word.  At 32 bits and with the stack of the nucleus in
\* the first 4 MB they do for the first 1000 processes.
ASSUME PidGenAssumption ==
  /\ Address \in Nat \ {0}
  /\ W \in Nat /\ 1000 * (Address + 1) < W

\* The power of 10 the loop stops at.
Pow(y) == CHOOSE pow \in {10, 100, 1000} :
            y < pow /\ \A less \in {10, 100, 1000} : less < pow => y >= less

pid_generator(x, y) == (x * Pow(y) + y) % W
=============================================================================
