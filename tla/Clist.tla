-------------------------------- MODULE Clist --------------------------------
(***************************************************************************)
(* The circular lists of include/clist.h, pointer by pointer.  A list is a  *)
(* pointer to its last element (NULL: empty) and the elements form a ring   *)
(* through `next'; the first element is next[tail].  The macros that loop   *)
(* (clist_delete, clist_foreach) take one step per iteration.  The nucleus  *)
(* is not reentrant, so an operation starts when none is in progress.       *)
(* A definition X_Y before a definition X is a faulty X: no action uses it. *)
(*                                                                         *)
(* All lists that use one link field (p_list of a ProcBlk, s_link of a      *)
(* descriptor) are modelled together.  The nucleus links an element only    *)
(* when it is on none of them; it asks for removal of any element.          *)
(***************************************************************************)
EXTENDS Integers, SequencesExt

CONSTANTS N,        \* elements of the static array (MAXPROC)
          List,     \* the lists that use one link field
          Ordered,  \* those kept in ascending order (aslh)
          Free,     \* pcbFree, semdFree
          NULL

ASSUME ClistAssumption ==
  /\ N \in Nat \ {0}
  /\ Free \in List
  /\ Ordered \subseteq List \ {Free}
  /\ NULL \notin 1 .. N

VARIABLES next,    \* [Elem -> Elem or NULL]: the link fields
          tail,    \* [List -> Elem or NULL]: the list pointers
          loop,    \* the macro in progress, with its scan and tmp
          answer   \* of the last removal

vars == <<next, tail, loop, answer>>

Elem == 1 .. N
First(l) == next[tail[l]]
Idle == [op |-> "idle"]

(***************************************************************************)
(* The sequence a list stands for: walk the ring from its first element to  *)
(* its last.                                                                *)
(***************************************************************************)
Walk(l) == LET w[k \in 0 .. N] == IF k = 0 THEN First(l) ELSE next[w[k - 1]] IN w

Ring(l) == IF tail[l] = NULL THEN {} ELSE Range(Walk(l))

Content(l) ==
  IF tail[l] = NULL THEN <<>>
  ELSE LET walk == Walk(l)
           last == CHOOSE k \in 0 .. N :
                     /\ walk[k] = tail[l]
                     /\ \A j \in 0 .. k - 1 : walk[j] # tail[l]
       IN [i \in 1 .. last + 1 |-> walk[i - 1]]

Detached(e) == \A l \in List : e \notin Ring(l)

-----------------------------------------------------------------------------
(* The macros without a loop, as the link fields and list pointers after *)

Enqueued(e, l) ==
  IF tail[l] = NULL
  THEN [next |-> [next EXCEPT ![e] = e], tail |-> [tail EXCEPT ![l] = e]]
  ELSE [next |-> [next EXCEPT ![e] = First(l), ![tail[l]] = e], tail |-> [tail EXCEPT ![l] = e]]

Pushed(e, l) ==
  IF tail[l] = NULL
  THEN [next |-> [next EXCEPT ![e] = e], tail |-> [tail EXCEPT ![l] = e]]
  ELSE [next |-> [next EXCEPT ![e] = First(l), ![tail[l]] = e], tail |-> tail]

Dequeued(l) ==
  IF tail[l] = First(l)
  THEN [next |-> next, tail |-> [tail EXCEPT ![l] = NULL]]
  ELSE [next |-> [next EXCEPT ![tail[l]] = next[First(l)]], tail |-> tail]

\* e unlinked, where p is its predecessor in l and e is not the first.
Unlinked_TailKept(e, p, l) ==
  [next |-> [next EXCEPT ![p] = next[e]], tail |-> tail]

Unlinked_AlwaysTail(e, p, l) ==
  [next |-> [next EXCEPT ![p] = First(l)], tail |-> [tail EXCEPT ![l] = p]]

Unlinked(e, p, l) ==
  [next |-> [next EXCEPT ![p] = next[e]],
   tail |-> IF tail[l] = e THEN [tail EXCEPT ![l] = p] ELSE tail]

Becomes(links) == next' = links.next /\ tail' = links.tail

-----------------------------------------------------------------------------
Init ==
  /\ next = [e \in Elem |-> IF e = N THEN 1 ELSE e + 1]
  /\ tail = [l \in List |-> IF l = Free THEN N ELSE NULL]
  /\ loop = Idle
  /\ answer = "missing"

Enqueue(e, l) ==
  /\ loop = Idle
  /\ Detached(e)
  /\ l \notin Ordered
  /\ Becomes(Enqueued(e, l))
  /\ UNCHANGED <<loop, answer>>

Push(e, l) ==
  /\ loop = Idle
  /\ Detached(e)
  /\ l \notin Ordered
  /\ Becomes(Pushed(e, l))
  /\ UNCHANGED <<loop, answer>>

Dequeue(l) ==
  /\ loop = Idle
  /\ tail[l] # NULL
  /\ Becomes(Dequeued(l))
  /\ UNCHANGED <<loop, answer>>

\* allocPcb: the head of the free list, with its link field cleared.
Alloc ==
  /\ loop = Idle
  /\ tail[Free] # NULL
  /\ next' = [Dequeued(Free).next EXCEPT ![First(Free)] = NULL]
  /\ tail' = Dequeued(Free).tail
  /\ UNCHANGED <<loop, answer>>

\* clist_delete up to its loop.
Delete(e, l) ==
  /\ loop = Idle
  /\ IF tail[l] = NULL
     THEN answer' = "missing" /\ UNCHANGED <<next, tail, loop>>
     ELSE IF First(l) = e
     THEN answer' = "found" /\ Becomes(Dequeued(l)) /\ UNCHANGED loop
     ELSE /\ loop' = [op |-> "delete", elem |-> e, list |-> l, scan |-> First(l),
                      tmp |-> NULL, retval |-> "missing"]
          /\ UNCHANGED <<next, tail, answer>>

\* One iteration; the loop goes on after it has found e, until scan is back
\* at the first element.
DeleteLoop ==
  /\ loop.op = "delete"
  /\ loop.scan # loop.tmp
  /\ LET hit == next[loop.scan] = loop.elem
     IN /\ IF hit THEN Becomes(Unlinked(loop.elem, loop.scan, loop.list))
           ELSE UNCHANGED <<next, tail>>
        /\ loop' = [loop EXCEPT !.scan = next'[loop.scan],
                                !.tmp = next'[tail'[loop.list]],
                                !.retval = IF hit THEN "found" ELSE @]
        /\ answer' = IF hit THEN "found" ELSE answer

DeleteEnd ==
  /\ loop.op = "delete"
  /\ loop.scan = loop.tmp
  /\ answer' = loop.retval
  /\ loop' = Idle
  /\ UNCHANGED <<next, tail>>

\* clist_foreach up to its loop, for outProcQ and outBlocked ("out") and for
\* the ordered insertion of insertBlocked ("insert").
Foreach(op, e, l) ==
  /\ loop = Idle
  /\ loop' = [op |-> op, elem |-> e, list |-> l, tmp |-> NULL,
              scan |-> IF tail[l] = NULL THEN NULL ELSE First(l)]
  /\ UNCHANGED <<next, tail, answer>>

OutBegin(e, l) == Foreach("out", e, l)

InsertBegin(e, l) ==
  /\ l \in Ordered
  /\ Detached(e)
  /\ Foreach("insert", e, l)

LoopDone_OnlyIfEmpty == loop.scan = NULL
LoopDone == loop.scan = NULL \/ loop.tmp = tail[loop.list]

Advance ==
  /\ loop' = [loop EXCEPT !.tmp = loop.scan, !.scan = next[loop.scan]]
  /\ UNCHANGED <<next, tail, answer>>

\* The body of outProcQ: clist_foreach_delete and return at the element.
OutLoop ==
  /\ loop.op = "out"
  /\ ~LoopDone
  /\ IF loop.scan # loop.elem THEN Advance
     ELSE /\ Becomes(IF First(loop.list) = loop.scan THEN Dequeued(loop.list)
                     ELSE Unlinked(loop.scan, loop.tmp, loop.list))
          /\ answer' = "found"
          /\ loop' = Idle

OutEnd ==
  /\ loop.op = "out"
  /\ LoopDone
  /\ answer' = "missing"
  /\ loop' = Idle
  /\ UNCHANGED <<next, tail>>

\* The body of insertBlocked's loop: clist_foreach_add and return at the
\* first greater element.
Added(e, scan, tmp, l) ==
  IF tmp = NULL THEN Pushed(e, l)
  ELSE [next |-> [next EXCEPT ![e] = scan, ![tmp] = e], tail |-> tail]

InsertLoop ==
  /\ loop.op = "insert"
  /\ ~LoopDone
  /\ IF ~(loop.elem < loop.scan) THEN Advance
     ELSE /\ Becomes(Added(loop.elem, loop.scan, loop.tmp, loop.list))
          /\ loop' = Idle
          /\ UNCHANGED answer

\* clist_foreach_all: no greater element, enqueue.
InsertEnd ==
  /\ loop.op = "insert"
  /\ LoopDone
  /\ Becomes(Enqueued(loop.elem, loop.list))
  /\ loop' = Idle
  /\ UNCHANGED answer

Step == DeleteLoop \/ DeleteEnd \/ OutLoop \/ OutEnd \/ InsertLoop \/ InsertEnd

Next ==
  \/ Step
  \/ Alloc
  \/ \E l \in List :
       \/ Dequeue(l)
       \/ \E e \in Elem : \/ Enqueue(e, l) \/ Push(e, l) \/ Delete(e, l)
                          \/ OutBegin(e, l) \/ InsertBegin(e, l)

Spec == Init /\ [][Next]_vars /\ WF_vars(Step)

-----------------------------------------------------------------------------
(* Properties *)

\* List pointers, link fields, the scan variables of the macro in progress,
\* and that the link a macro follows first, that of the last element of a
\* list, is never NULL.
TypeOK ==
  /\ next \in [Elem -> Elem \cup {NULL}]
  /\ tail \in [List -> Elem \cup {NULL}]
  /\ \A l \in List : tail[l] # NULL => next[tail[l]] # NULL
  /\ answer \in {"found", "missing"}
  /\ loop.op \in {"idle", "delete", "out", "insert"}
  /\ loop # Idle => /\ loop.elem \in Elem
                    /\ loop.list \in List
                    /\ loop.scan \in Elem \cup {NULL}
                    /\ loop.tmp \in Elem \cup {NULL}

\* Each list is a ring of its own, closed at its last element: no element is
\* on two lists, and from the first element the ring leads to the last (with
\* the types of the links).
Rings ==
  /\ TypeOK
  /\ \A l, m \in List : l # m => Ring(l) \cap Ring(m) = {}
  /\ \A l \in List : tail[l] # NULL => tail[l] \in Ring(l)

\* The loops of the macros come to an end.
LoopsEnd == loop # Idle ~> loop = Idle

\* The macros implement queues: what ListSpec says of enqueue, push,
\* dequeue, removal and insertion in ascending order, on which findSemd relies
\* to stop early, and of the answer of a removal.
Lists == INSTANCE ListSpec WITH queue <- [l \in List |-> Content(l)]
ImplementsQueues == Lists!Spec
=============================================================================
