--------------------------------- MODULE Pcb ---------------------------------
(***************************************************************************)
(* The ProcBlks of source/pcb.c at the level of their links: p_list, shared *)
(* by the free list, the ready queue and the queues of the semaphores, and  *)
(* p_children and p_siblings, the process tree; with the code that moves    *)
(* ProcBlks between them: creation, dispatch, blocking, release, and the    *)
(* recursive termination of syscall.c, one step per ProcBlk.                *)
(*                                                                         *)
(* The list macros are those of module Clist, instantiated once for each    *)
(* link field; the loops of removal are taken as one step.                  *)
(* A definition X_Y before a definition X is a faulty X: no action uses it. *)
(***************************************************************************)
EXTENDS Integers, FiniteSets, SequencesExt

CONSTANTS MAXPROC,    \* the ProcBlks are 1 .. MAXPROC
          Sem,        \* semaphores
          KillReady,  \* TRUE: descendants on the ready queue may be terminated
          NULL

ASSUME PcbAssumption ==
  /\ MAXPROC \in Nat \ {0}
  /\ NULL \notin 1 .. MAXPROC \cup Sem
  /\ Sem \cap {"pcbFree", "readyqueue"} = {}
  /\ KillReady \in BOOLEAN

Proc  == 1 .. MAXPROC
Queue == {"pcbFree", "readyqueue"} \cup Sem

VARIABLES
  p_list,           \* [Proc -> Proc or NULL]: links of the queues
  tail,             \* [Queue -> Proc or NULL]: pointers to the last elements
  p_siblings,       \* [Proc -> Proc or NULL]: links of the lists of children
  p_children,       \* [Proc -> Proc or NULL]: pointers to the last children
  p_parent,         \* [Proc -> Proc or NULL]
  p_cursem,         \* [Proc -> Sem or NULL]; outBlocked leaves it as it is
  current_process,
  hand,             \* a ProcBlk the nucleus has in a local variable, or NULL
  stack             \* the calls of terminate_children in progress, outermost first

queues == <<p_list, tail>>
tree   == <<p_siblings, p_children, p_parent>>
vars   == <<queues, tree, p_cursem, current_process, hand, stack>>

\* The macros on the queues (Q) and on the lists of children (C).
Q == INSTANCE Clist WITH N <- MAXPROC, List <- Queue, Ordered <- {}, Free <- "pcbFree",
                         next <- p_list, loop <- NULL, answer <- NULL
C == INSTANCE Clist WITH N <- MAXPROC, List <- Proc, Ordered <- {}, Free <- 1,
                         next <- p_siblings, tail <- p_children, loop <- NULL, answer <- NULL

QueuesBecome(links)   == p_list' = links.next /\ tail' = links.tail
ChildrenBecome(links) == p_siblings' = links.next /\ p_children' = links.tail

\* clist_foreach_delete of e, wherever it is in queue l (outProcQ, outBlocked).
TakenOut_HeadOnly(e, l) ==
  IF e \notin Q!Ring(l) THEN [next |-> p_list, tail |-> tail] ELSE Q!Dequeued(l)
TakenOut(e, l) ==
  IF e \notin Q!Ring(l) THEN [next |-> p_list, tail |-> tail]
  ELSE IF Q!First(l) = e THEN Q!Dequeued(l)
  ELSE Q!Unlinked(e, CHOOSE p \in Q!Ring(l) : p_list[p] = e, l)

\* clist_delete of e from the children of its parent.
Orphaned(e, l) ==
  IF C!First(l) = e THEN C!Dequeued(l)
  ELSE C!Unlinked(e, CHOOSE p \in C!Ring(l) : p_siblings[p] = e, l)

Live        == Proc \ Q!Ring("pcbFree")
Closed(S)   == \A q \in Proc : p_parent[q] \in S => q \in S
Progeny(r)  == {q \in Proc : \A S \in SUBSET Proc : r \in S /\ Closed(S) => q \in S}

-----------------------------------------------------------------------------
\* initPcbs, and the first process, made by main and dispatched.
Init ==
  /\ p_list = [p \in Proc |-> IF p = 1 THEN NULL ELSE IF p = MAXPROC THEN 2 ELSE p + 1]
  /\ tail = [l \in Queue |-> IF l = "pcbFree" /\ MAXPROC > 1 THEN MAXPROC ELSE NULL]
  /\ p_siblings = [p \in Proc |-> NULL]
  /\ p_children = [p \in Proc |-> NULL]
  /\ p_parent = [p \in Proc |-> NULL]
  /\ p_cursem = [p \in Proc |-> NULL]
  /\ current_process = 1
  /\ hand = NULL
  /\ stack = <<>>

Running == current_process # NULL /\ hand = NULL /\ stack = <<>>

\* allocPcb and insertChild; the child is then put on the ready queue.
CreateProcess ==
  /\ Running
  /\ tail["pcbFree"] # NULL
  /\ hand' = Q!First("pcbFree")
  /\ p_list' = [Q!Dequeued("pcbFree").next EXCEPT ![hand'] = NULL]
  /\ tail' = Q!Dequeued("pcbFree").tail
  /\ p_siblings' = C!Enqueued(hand', current_process).next
  /\ p_children' = [C!Enqueued(hand', current_process).tail EXCEPT ![hand'] = NULL]
  /\ p_parent' = [p_parent EXCEPT ![hand'] = current_process]
  /\ p_cursem' = [p_cursem EXCEPT ![hand'] = NULL]
  /\ UNCHANGED <<current_process, stack>>

\* insertProcQ(&readyqueue, hand).
MakeReady ==
  /\ hand # NULL
  /\ stack = <<>>
  /\ QueuesBecome(Q!Enqueued(hand, "readyqueue"))
  /\ hand' = NULL
  /\ UNCHANGED <<tree, p_cursem, current_process, stack>>

\* A P blocks the current process.
Block(s) ==
  /\ Running
  /\ QueuesBecome(Q!Enqueued(current_process, s))
  /\ p_cursem' = [p_cursem EXCEPT ![current_process] = s]
  /\ current_process' = NULL
  /\ UNCHANGED <<tree, hand, stack>>

\* A V, of the current process or an interrupt, releases the first waiter.
Release(s) ==
  /\ hand = NULL /\ stack = <<>>
  /\ tail[s] # NULL
  /\ hand' = Q!First(s)
  /\ QueuesBecome(TakenOut(hand', s))
  /\ p_cursem' = [p_cursem EXCEPT ![hand'] = NULL]
  /\ UNCHANGED <<tree, current_process, stack>>

\* loadnext: the preempted process goes to the ready queue,
Preempt ==
  /\ Running
  /\ QueuesBecome(Q!Enqueued(current_process, "readyqueue"))
  /\ current_process' = NULL
  /\ UNCHANGED <<tree, p_cursem, hand, stack>>

\* ... and removeProcQ finds the next.
Dispatch ==
  /\ current_process = NULL /\ hand = NULL /\ stack = <<>>
  /\ tail["readyqueue"] # NULL
  /\ current_process' = Q!First("readyqueue")
  /\ QueuesBecome(Q!Dequeued("readyqueue"))
  /\ UNCHANGED <<tree, p_cursem, hand, stack>>

-----------------------------------------------------------------------------
(* Termination of the process stack[1] *)

Top  == Last(stack)
Root == Head(stack)

TerminateProcess(r) ==
  /\ Running
  /\ r \in Progeny(current_process)
  /\ KillReady \/ Q!Ring("readyqueue") \cap (Progeny(r) \ {r}) = {}
  /\ stack' = <<r>>
  /\ UNCHANGED <<queues, tree, p_cursem, current_process, hand>>

RemoveChild_NotRemoved ==
  /\ stack # <<>> /\ hand = NULL
  /\ p_children[Top] # NULL
  /\ stack' = Append(stack, C!First(Top))
  /\ p_parent' = [p_parent EXCEPT ![C!First(Top)] = NULL]
  /\ UNCHANGED <<queues, p_siblings, p_children, p_cursem, current_process, hand>>

RemoveChild_Last ==
  /\ stack # <<>> /\ hand = NULL
  /\ p_children[Top] # NULL
  /\ stack' = Append(stack, C!First(Top))
  /\ p_parent' = [p_parent EXCEPT ![C!First(Top)] = NULL]
  /\ ChildrenBecome([next |-> p_siblings, tail |-> [p_children EXCEPT ![Top] = NULL]])
  /\ UNCHANGED <<queues, p_cursem, current_process, hand>>

\* removeChild, and the call of terminate_children for the removed child.
RemoveChild ==
  /\ stack # <<>> /\ hand = NULL
  /\ p_children[Top] # NULL
  /\ stack' = Append(stack, C!First(Top))
  /\ p_parent' = [p_parent EXCEPT ![C!First(Top)] = NULL]
  /\ ChildrenBecome(C!Dequeued(Top))
  /\ UNCHANGED <<queues, p_cursem, current_process, hand>>

LeaveSemaphore_ChildrenKept ==
  /\ stack # <<>> /\ hand = NULL
  /\ IF Top # current_process /\ p_cursem[Top] # NULL
     THEN QueuesBecome(TakenOut(Top, p_cursem[Top]))
     ELSE UNCHANGED queues
  /\ hand' = Top
  /\ UNCHANGED <<tree, p_cursem, current_process, stack>>

\* A process without children leaves its semaphore, unless it is the caller.
LeaveSemaphore ==
  /\ stack # <<>> /\ hand = NULL
  /\ p_children[Top] = NULL
  /\ IF Top # current_process /\ p_cursem[Top] # NULL
     THEN QueuesBecome(TakenOut(Top, p_cursem[Top]))
     ELSE UNCHANGED queues
  /\ hand' = Top
  /\ UNCHANGED <<tree, p_cursem, current_process, stack>>

\* freePcb of a descendant,
FreeChild ==
  /\ hand # NULL /\ Len(stack) > 1
  /\ QueuesBecome(Q!Enqueued(hand, "pcbFree"))
  /\ stack' = Front(stack)
  /\ hand' = NULL
  /\ UNCHANGED <<tree, p_cursem, current_process>>

\* ... but the target also leaves its parent and the ready queue (the first
\* process, which has no parent, is its own caller and on no queue).
LeaveTree ==
  /\ hand # NULL /\ Len(stack) = 1
  /\ p_parent[hand] # NULL
  /\ ChildrenBecome(Orphaned(hand, p_parent[hand]))
  /\ p_parent' = [p_parent EXCEPT ![hand] = NULL]
  /\ QueuesBecome(TakenOut(hand, "readyqueue"))
  /\ UNCHANGED <<p_cursem, current_process, hand, stack>>

FreeTarget_ParentKept ==
  /\ hand # NULL /\ Len(stack) = 1
  /\ QueuesBecome(Q!Enqueued(hand, "pcbFree"))
  /\ current_process' = IF hand = current_process THEN NULL ELSE current_process
  /\ stack' = <<>>
  /\ hand' = NULL
  /\ UNCHANGED <<tree, p_cursem>>

FreeTarget ==
  /\ hand # NULL /\ Len(stack) = 1
  /\ p_parent[hand] = NULL
  /\ QueuesBecome(Q!Enqueued(hand, "pcbFree"))
  /\ current_process' = IF hand = current_process THEN NULL ELSE current_process
  /\ stack' = <<>>
  /\ hand' = NULL
  /\ UNCHANGED <<tree, p_cursem>>

\* Nothing to run: deadlock_detection.
Idle ==
  /\ current_process = NULL /\ hand = NULL /\ stack = <<>>
  /\ tail["readyqueue"] = NULL
  /\ UNCHANGED vars

Step == MakeReady \/ RemoveChild \/ LeaveSemaphore \/ FreeChild \/ LeaveTree \/ FreeTarget

Next ==
  \/ Step \/ CreateProcess \/ Preempt \/ Dispatch \/ Idle
  \/ \E s \in Sem : Block(s) \/ Release(s)
  \/ \E r \in Proc : TerminateProcess(r)

Spec == Init /\ [][Next]_vars /\ WF_vars(Step)

-----------------------------------------------------------------------------
(* Properties *)

\* Links and pointers point to ProcBlks, and termination never works on a
\* ProcBlk that is already free.
TypeOK ==
  /\ p_list \in [Proc -> Proc \cup {NULL}] /\ tail \in [Queue -> Proc \cup {NULL}]
  /\ p_siblings \in [Proc -> Proc \cup {NULL}] /\ p_children \in [Proc -> Proc \cup {NULL}]
  /\ p_parent \in [Proc -> Proc \cup {NULL}] /\ p_cursem \in [Proc -> Sem \cup {NULL}]
  /\ current_process \in Proc \cup {NULL} /\ hand \in Proc \cup {NULL}
  /\ stack \in Seq(Proc)
  /\ ToSet(stack) \subseteq Live

\* The five or more queues that share p_list stay apart: each is a ring that
\* closes at its last element, no two meet, and every ProcBlk is on exactly
\* one, or running, or in the hands of the nucleus.
QueuesApart ==
  /\ \A l \in Queue : tail[l] # NULL => tail[l] \in Q!Ring(l)
  /\ \A l, m \in Queue : l # m => Q!Ring(l) \cap Q!Ring(m) = {}
  /\ \A p \in Proc : \/ p \in {current_process, hand}
                     \/ \E l \in Queue : p \in Q!Ring(l)

\* p_parent and the lists of children say the same, between and during
\* terminations; a free ProcBlk has neither parent nor children.
TreeConsistent ==
  /\ \A p \in Proc : p_children[p] # NULL => p_children[p] \in C!Ring(p)
  /\ \A p, c \in Proc : p_parent[c] = p <=> c \in C!Ring(p)
  /\ \A p \in Proc \ Live : p_parent[p] = NULL /\ p_children[p] = NULL

\* "contains processes ready to be executed" (initial.c:19): whoever is on the
\* ready queue is a living process.
ReadyAlive == Q!Ring("readyqueue") \subseteq Live

\* Recursive termination comes to an end.
TerminationEnds == stack # <<>> ~> stack = <<>>

\* The lists implement a process tree from which termination takes one
\* leaf at a time and, once it is over, exactly the target and its progeny.
\* The processes of `stack' have left their parents' lists but still hang
\* below one another.
Parent == [p \in Proc |->
  IF \E i \in 2 .. Len(stack) : stack[i] = p
  THEN stack[(CHOOSE i \in 2 .. Len(stack) : stack[i] = p) - 1]
  ELSE p_parent[p]]
Tree == INSTANCE ProcTree WITH
  live <- Live, parent <- Parent, caller <- current_process,
  target <- IF stack = <<>> THEN NULL ELSE Root
ImplementsTree == Tree!Spec
=============================================================================
