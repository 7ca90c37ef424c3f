------------------------------ MODULE ListSpec ------------------------------
(***************************************************************************)
(* What the lists of pcb.c and asl.c promise their users: queues of         *)
(* distinct elements, with the answer of the last operation.  Elements are  *)
(* natural numbers; for a list kept in order (the ASL) the number is the    *)
(* key (s_semAdd).                                                          *)
(***************************************************************************)
EXTENDS Integers, SequencesExt

CONSTANTS N,      \* the elements of the static array are 1 .. N
          List,   \* the lists
          Free    \* the list that holds all elements at first

VARIABLES queue,  \* [List -> sequence of elements]
          answer  \* of the last removal: "found" or "missing"

Elem == 1 .. N

Detached(e) == \A l \in List : e \notin ToSet(queue[l])

Init == /\ queue = [l \in List |-> IF l = Free THEN [i \in Elem |-> i] ELSE <<>>]
        /\ answer = "missing"

Enqueue(e, l) ==
  /\ Detached(e)
  /\ queue' = [queue EXCEPT ![l] = Append(@, e)]
  /\ UNCHANGED answer

Push(e, l) ==
  /\ Detached(e)
  /\ queue' = [queue EXCEPT ![l] = <<e>> \o @]
  /\ UNCHANGED answer

Dequeue(l) ==
  /\ queue[l] # <<>>
  /\ queue' = [queue EXCEPT ![l] = Tail(@)]
  /\ UNCHANGED answer

\* Removal of e from l; e need not be there.
TakeOut(e, l) ==
  /\ queue' = [queue EXCEPT ![l] = RemoveFirst(@, e)]
  /\ answer' = IF e \in ToSet(queue[l]) THEN "found" ELSE "missing"

\* Insertion before the first greater element, at the end if there is none.
Insert(e, l) ==
  /\ Detached(e)
  /\ \E i \in 0 .. Len(queue[l]) :
       /\ \A j \in 1 .. i : queue[l][j] < e
       /\ i < Len(queue[l]) => queue[l][i + 1] > e
       /\ queue' = [queue EXCEPT ![l] = SubSeq(@, 1, i) \o <<e>> \o SubSeq(@, i + 1, Len(@))]
  /\ UNCHANGED answer

Next == \E l \in List :
          \/ Dequeue(l)
          \/ \E e \in Elem : Enqueue(e, l) \/ Push(e, l) \/ TakeOut(e, l) \/ Insert(e, l)

Spec == Init /\ [][Next]_<<queue, answer>>
=============================================================================
