--------------------------------- MODULE Asl ---------------------------------
(***************************************************************************)
(* The active semaphore list, source/asl.c: a table of descriptors that are *)
(* either on semdFree or on aslh, the latter in ascending order of their    *)
(* semaphore's address.  The lists are sequences, as module Clist shows     *)
(* that the macros of clist.h implement.  The nucleus calls these functions *)
(* with interrupts disabled, so each is one step.                           *)
(* A definition X_Y before a definition X is a faulty X: no action uses it. *)
(***************************************************************************)
EXTENDS Integers, SequencesExt

CONSTANTS Proc,     \* ProcBlks
          Addr,     \* addresses of semaphores (numbers)
          MAXSEMD,  \* size of semdTable (MAXPROC in the code)
          NULL

ASSUME AslAssumption ==
  /\ Addr \subseteq Nat
  /\ MAXSEMD \in Nat \ {0}
  /\ NULL \notin Proc \cup Nat \cup BOOLEAN

VARIABLES aslh,      \* descriptors in use
          semdFree,  \* the others
          s_semAdd,  \* [Semd -> Addr or NULL]
          s_procq,   \* [Semd -> sequence of ProcBlks]
          p_cursem,  \* [Proc -> Semd or NULL]; outBlocked leaves it as it is
          answer     \* returned by the last call

vars == <<aslh, semdFree, s_semAdd, s_procq, p_cursem, answer>>

Semd == 1 .. MAXSEMD

\* initASL; the table is static, hence zero.
Init ==
  /\ aslh = <<>>
  /\ semdFree = [d \in Semd |-> d]
  /\ s_semAdd = [d \in Semd |-> NULL]
  /\ s_procq = [d \in Semd |-> <<>>]
  /\ p_cursem = [p \in Proc |-> NULL]
  /\ answer = NULL

-----------------------------------------------------------------------------
\* The position in aslh of the first descriptor for a or a higher address; 0
\* if there is none.
FirstFrom(a) == SelectInSeq(aslh, LAMBDA d : s_semAdd[d] >= a)

FindSemd_StopsTooEarly(a) ==
  IF aslh # <<>> /\ s_semAdd[Head(aslh)] = a THEN Head(aslh) ELSE NULL

\* findSemd looks no further than the first address that is not below a.
FindSemd(a) ==
  LET i == FirstFrom(a) IN IF i # 0 /\ s_semAdd[aslh[i]] = a THEN aslh[i] ELSE NULL

Ordered_AtTail(d, a) == Append(aslh, d)

\* aslh with descriptor d for the new address a in its place.
Ordered(d, a) ==
  IF FirstFrom(a) = 0 THEN Append(aslh, d) ELSE InsertAt(aslh, FirstFrom(a), d)

SetCursem_IfNull(p, d) ==
  p_cursem' = IF p_cursem[p] = NULL THEN [p_cursem EXCEPT ![p] = d] ELSE p_cursem

\* Whatever p_cursem was: a process terminated while blocked leaves it stale.
SetCursem(p, d) == p_cursem' = [p_cursem EXCEPT ![p] = d]

\* The nucleus blocks a process only when it is on no queue.
Unqueued(p) == \A d \in Semd : p \notin ToSet(s_procq[d])

Joined(q, p) == Append(q, p)

InsertBlocked(a, p) ==
  LET found == FindSemd(a)
      d     == IF found # NULL THEN found ELSE Head(semdFree)
  IN /\ Unqueued(p)
     /\ IF found = NULL /\ semdFree = <<>>
        THEN answer' = TRUE /\ UNCHANGED <<aslh, semdFree, s_semAdd, s_procq, p_cursem>>
        ELSE /\ SetCursem(p, d)
             /\ s_semAdd' = [s_semAdd EXCEPT ![d] = a]
             /\ IF found # NULL
                THEN /\ s_procq' = [s_procq EXCEPT ![d] = Joined(@, p)]
                     /\ UNCHANGED <<aslh, semdFree>>
                ELSE /\ s_procq' = [s_procq EXCEPT ![d] = <<p>>]
                     /\ semdFree' = Tail(semdFree)
                     /\ aslh' = Ordered(d, a)
             /\ answer' = FALSE

\* d gets queue q, and goes back to semdFree when q is empty.
SetQueue_NotFreed(d, q) ==
  /\ s_procq' = [s_procq EXCEPT ![d] = q]
  /\ UNCHANGED <<aslh, semdFree>>

SetQueue(d, q) ==
  /\ s_procq' = [s_procq EXCEPT ![d] = q]
  /\ IF q = <<>> THEN aslh' = RemoveFirst(aslh, d) /\ semdFree' = Append(semdFree, d)
     ELSE UNCHANGED <<aslh, semdFree>>

RemoveBlocked(a) ==
  LET d == FindSemd(a)
  IN /\ IF d = NULL THEN answer' = NULL /\ UNCHANGED <<aslh, semdFree, s_procq, p_cursem>>
        ELSE /\ answer' = Head(s_procq[d])
             /\ p_cursem' = [p_cursem EXCEPT ![answer'] = NULL]
             /\ SetQueue(d, Tail(s_procq[d]))
     /\ UNCHANGED s_semAdd

\* p_cursem may be stale: its descriptor free, or in use for another address.
OutBlocked(p) ==
  LET d == p_cursem[p]
  IN /\ d # NULL
     /\ IF p \in ToSet(s_procq[d])
        THEN answer' = p /\ SetQueue(d, RemoveFirst(s_procq[d], p))
        ELSE answer' = NULL /\ UNCHANGED <<aslh, semdFree, s_procq>>
     /\ UNCHANGED <<s_semAdd, p_cursem>>

HeadBlocked(a) ==
  LET d == FindSemd(a)
  IN /\ answer' = IF d = NULL \/ s_procq[d] = <<>> THEN NULL ELSE Head(s_procq[d])
     /\ UNCHANGED <<aslh, semdFree, s_semAdd, s_procq, p_cursem>>

\* allocPcb, or the V loop after outBlocked.
ClearCursem(p) ==
  /\ Unqueued(p)
  /\ p_cursem' = [p_cursem EXCEPT ![p] = NULL]
  /\ UNCHANGED <<aslh, semdFree, s_semAdd, s_procq, answer>>

Next ==
  \/ \E a \in Addr : \/ RemoveBlocked(a) \/ HeadBlocked(a)
                     \/ \E p \in Proc : InsertBlocked(a, p)
  \/ \E p \in Proc : OutBlocked(p) \/ ClearCursem(p)

Spec == Init /\ [][Next]_vars

-----------------------------------------------------------------------------
(* Properties *)

\* Types of the table, the lists and the processes' pointers into the table.
TypeOK ==
  /\ aslh \in Seq(Semd) /\ semdFree \in Seq(Semd)
  /\ s_semAdd \in [Semd -> Addr \cup {NULL}]
  /\ s_procq \in [Semd -> Seq(Proc)]
  /\ p_cursem \in [Proc -> Semd \cup {NULL}]
  /\ answer \in Proc \cup BOOLEAN \cup {NULL}

\* No descriptor is lost or used twice, although four functions move them:
\* it is on exactly one of the two lists, once, and on aslh iff somebody waits
\* (with the types of the table).
DescriptorsConserved ==
  /\ TypeOK
  /\ IsInjective(aslh \o semdFree)
  /\ ToSet(aslh \o semdFree) = Semd
  /\ \A d \in Semd : d \in ToSet(aslh) <=> s_procq[d] # <<>>

\* aslh is in strictly ascending order: one descriptor for an address, and
\* the early stop of findSemd misses nothing.
Ascending == \A i, j \in 1 .. Len(aslh) : i < j => s_semAdd[aslh[i]] < s_semAdd[aslh[j]]

\* A process waits in at most one place, and that is where p_cursem points.
CursemPoints == \A p \in Proc, d \in Semd : p \in ToSet(s_procq[d]) => p_cursem[p] = d

Queue == [a \in Addr |-> IF \E d \in ToSet(aslh) : s_semAdd[d] = a
                         THEN s_procq[CHOOSE d \in ToSet(aslh) : s_semAdd[d] = a] ELSE <<>>]
Queues == INSTANCE AslSpec WITH queue <- Queue

\* What a function, called for its own arguments, does and answers, it does and
\* answers in AslSpec (insertBlocked is the one that answers a truth value).
Namesake ==
  /\ answer' \in BOOLEAN =>
       \A a \in Addr, p \in Proc : InsertBlocked(a, p) => Queues!InsertBlocked(a, p)
  /\ answer' \notin BOOLEAN =>
       /\ \A a \in Addr : /\ RemoveBlocked(a) => Queues!RemoveBlocked(a)
                         /\ HeadBlocked(a) => Queues!HeadBlocked(a)
       /\ \A p \in Proc : OutBlocked(p) => Queues!OutBlocked(p)

\* asl.c implements a FIFO per address, with a table of MAXSEMD entries, by its
\* early-stopping search.  ClearCursem is no function of asl.c and changes
\* nothing that Queue is made of, so Queues!Spec follows.
ImplementsAsl == Queues!Init /\ [][Namesake]_vars
=============================================================================
