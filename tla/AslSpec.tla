------------------------------- MODULE AslSpec -------------------------------
(***************************************************************************)
(* What asl.c promises the nucleus: a FIFO of processes for each semaphore  *)
(* address, as long as at most MAXSEMD of them are in use, and the answer   *)
(* of the last operation.  Module Nucleus uses semaphores in this form.     *)
(***************************************************************************)
EXTENDS Integers, FiniteSets, SequencesExt

CONSTANTS Proc, Addr, MAXSEMD, NULL

VARIABLES queue,   \* [Addr -> sequence of processes]
          answer   \* of the last operation: a process, NULL, TRUE or FALSE

Waiting == UNION {ToSet(queue[a]) : a \in Addr}
InUse   == {a \in Addr : queue[a] # <<>>}

Init == queue = [a \in Addr |-> <<>>] /\ answer = NULL

HeadOf(a) == IF queue[a] = <<>> THEN NULL ELSE Head(queue[a])

InsertBlocked(a, p) ==
  /\ p \notin Waiting
  /\ answer' = (queue[a] = <<>> /\ Cardinality(InUse) = MAXSEMD)
  /\ queue' = IF answer' THEN queue ELSE [queue EXCEPT ![a] = Append(@, p)]

RemoveBlocked(a) ==
  /\ answer' = HeadOf(a)
  /\ queue' = IF queue[a] = <<>> THEN queue ELSE [queue EXCEPT ![a] = Tail(@)]

OutBlocked(p) ==
  /\ answer' = IF p \in Waiting THEN p ELSE NULL
  /\ queue' = [a \in Addr |-> RemoveFirst(queue[a], p)]

HeadBlocked(a) == answer' = HeadOf(a) /\ UNCHANGED queue

Next == \/ \E a \in Addr : \/ RemoveBlocked(a) \/ HeadBlocked(a)
                           \/ \E p \in Proc : InsertBlocked(a, p)
        \/ \E p \in Proc : OutBlocked(p)

Spec == Init /\ [][Next]_<<queue, answer>>
=============================================================================
