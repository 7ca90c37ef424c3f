------------------------------- MODULE PcbProofs -------------------------------
(***************************************************************************)
(* Proofs about Pcb, for every number of ProcBlks and every set of          *)
(* semaphores: the queues stay rings of their own through every move of a   *)
(* ProcBlk, and the links of the process tree agree.  The lemmas of         *)
(* ClistProofs are used for both link fields.                               *)
(*                                                                         *)
(* BInv reads the queues and the lists of children as sequences and adds to *)
(* the properties: who is running is on no queue, p_cursem names the queue  *)
(* of whoever waits, parents form no cycle, and during a termination there  *)
(* is a set of doomed processes, closed under children, without the caller, *)
(* the target and the ready ones, which the recursion does not leave.       *)
(***************************************************************************)
EXTENDS Pcb, QueueLemmas

QP == INSTANCE ClistProofs WITH N <- MAXPROC, List <- Queue, Ordered <- {}, Free <- "pcbFree",
                                next <- p_list, loop <- NULL, answer <- NULL
CP == INSTANCE ClistProofs WITH N <- MAXPROC, List <- Proc, Ordered <- {}, Free <- 1,
                                next <- p_siblings, tail <- p_children, loop <- NULL,
                                answer <- NULL

\* The sequences the queues and the lists of children stand for, and who is
\* on a queue.
Line    == [l \in Queue |-> Q!Content(l)]
Brood   == [p \in Proc |-> C!Content(p)]
Members == [l \in Queue |-> ToSet(Line[l])]

QueuesLinked == QP!Shape(p_list, tail, Line)

\* The lists of children are those of p_parent.
TreeLinked ==
  /\ CP!Shape(p_siblings, p_children, Brood)
  /\ p_parent \in [Proc -> Proc \cup {NULL}]
  /\ \A p, c \in Proc : p_parent[c] = p <=> c \in ToSet(Brood[p])

LocalType ==
  /\ p_cursem \in [Proc -> Sem \cup {NULL}]
  /\ current_process \in Proc \cup {NULL}
  /\ hand \in Proc \cup {NULL}
  /\ stack \in Seq(Proc)

PlaceInv ==
  /\ \A l \in Queue : current_process \notin Members[l]
  /\ \A p \in Proc : p \in {current_process, hand} \/ \E l \in Queue : p \in Members[l]
  /\ \A s \in Sem : \A p \in Members[s] : p_cursem[p] = s

Childless(p) == \A c \in Proc : p_parent[c] # p

Acyclic == \A S \in SUBSET Proc : S # {} => \E p \in S : p_parent[p] \notin S

TreeInv ==
  /\ \A p \in Members["pcbFree"] : p_parent[p] = NULL /\ Childless(p)
  /\ Acyclic

\* The ProcBlk in a local variable is on no queue, but for the target of a
\* termination before it leaves its parent.
HandInv ==
  hand # NULL =>
    /\ stack = <<>> => hand # current_process /\ \A l \in Queue : hand \notin Members[l]
    /\ stack # <<>> => hand = Top /\ Childless(hand)
    /\ \A l \in Queue :
         hand \in Members[l] => l = "readyqueue" /\ Len(stack) = 1 /\ p_parent[hand] # NULL

\* D is a set of doomed descendants.
Doomed(D) ==
  /\ \A p \in D : p \notin Members["readyqueue"]
  /\ \A i \in 2 .. Len(stack) : stack[i] \in D
  /\ \A c \in Proc : p_parent[c] \in D \cup {Root} => c \in D
  /\ Root \notin D /\ p_parent[Root] \notin D \cup {Root}
  /\ current_process \notin D

StackInv ==
  stack # <<>> =>
    /\ current_process # NULL
    /\ IsInjective(stack)
    /\ \A p \in ToSet(stack) : p \notin Members["pcbFree"]
    /\ \A i \in 2 .. Len(stack) : p_parent[stack[i]] = NULL
    /\ p_parent[Root] = NULL => Root \notin Members["readyqueue"]
    /\ \E D \in SUBSET Proc : Doomed(D)

BInv ==
  /\ QueuesLinked /\ TreeLinked /\ LocalType
  /\ PlaceInv /\ TreeInv /\ HandInv /\ StackInv
-----------------------------------------------------------------------------
(* The lists as sets *)

LEMMA QueueAssumption == QP!ClistAssumption /\ QP!Elem = Proc
  BY PcbAssumption DEF QP!ClistAssumption, Queue, QP!Elem, Proc

LEMMA ChildAssumption == CP!ClistAssumption /\ CP!Elem = Proc
  BY PcbAssumption DEF CP!ClistAssumption, CP!Elem, Proc

LEMMA SameSets ==
  ASSUME NEW s
  PROVE  /\ QP!ToSet(s) = ToSet(s) /\ CP!ToSet(s) = ToSet(s)
         /\ QP!IsInjective(s) <=> IsInjective(s)
         /\ CP!IsInjective(s) <=> IsInjective(s)
         /\ \A i : QP!RemoveAt(s, i) = RemoveAt(s, i) /\ CP!RemoveAt(s, i) = RemoveAt(s, i)
         /\ QP!Last(s) = Last(s) /\ CP!Last(s) = Last(s)
  BY DEF QP!ToSet, CP!ToSet, ToSet, QP!IsInjective, CP!IsInjective, IsInjective,
         QP!RemoveAt, CP!RemoveAt, RemoveAt, QP!Last, CP!Last, Last

\* What the links say of a queue ...
LEMMA QueueIs ==
  ASSUME QueuesLinked, NEW l \in Queue
  PROVE  /\ Line[l] \in Seq(Proc) /\ IsInjective(Line[l])
         /\ Members[l] = ToSet(Line[l]) /\ Members[l] \subseteq Proc
         /\ Q!Ring(l) = Members[l]
         /\ tail[l] = NULL <=> Line[l] = <<>>
         /\ tail[l] = NULL <=> Members[l] = {}
         /\ tail[l] # NULL => /\ tail[l] \in Members[l] /\ Q!First(l) \in Members[l]
                              /\ Q!First(l) = Line[l][1] /\ Q!First(l) = Head(Line[l])
                              /\ Len(Line[l]) > 0 /\ tail[l] = Line[l][Len(Line[l])]
         /\ \A m \in Queue : l # m => Members[l] \cap Members[m] = {}
         /\ \A i \in 1 .. Len(Line[l]) :
              p_list[Line[l][i]] = IF i = Len(Line[l]) THEN Line[l][1] ELSE Line[l][i + 1]
  <1>1. PICK q : q = Line /\ QP!Shape(p_list, tail, q)
    BY DEF QueuesLinked
  <1>2. /\ q[l] \in Seq(Proc) /\ QP!Circle(p_list, q[l]) /\ IsInjective(q[l])
        /\ ToSet(q[l]) \subseteq Proc
        /\ tail[l] = NULL <=> q[l] = <<>>
        /\ q[l] # <<>> => /\ tail[l] \in ToSet(q[l])
                          /\ p_list[tail[l]] = q[l][1] /\ q[l][1] \in ToSet(q[l])
                          /\ Head(q[l]) = q[l][1]
                          /\ Len(q[l]) > 0 /\ tail[l] = q[l][Len(q[l])]
    BY <1>1, QueueAssumption, QP!ChainAt, SameSets
  <1>3. QP!Ring(l) = ToSet(q[l])
    BY <1>1, QueueAssumption, QP!QueueNow, SameSets
  <1>4. Q!Ring(l) = ToSet(q[l])
    BY <1>3 DEF QP!Ring, Q!Ring, QP!Walk, Q!Walk, QP!First, Q!First, QP!Range, Q!Range
  <1>5. \A m \in Queue : l # m => ToSet(q[l]) \cap ToSet(q[m]) = {}
    BY <1>1, SameSets DEF QP!Shape
  <1>6. \A i \in 1 .. Len(q[l]) :
          p_list[q[l][i]] = IF i = Len(q[l]) THEN q[l][1] ELSE q[l][i + 1]
    BY <1>2 DEF QP!Circle
  <1>7. \A m \in Queue : Members[m] = ToSet(q[m])
    BY <1>1 DEF Members
  <1>8. ToSet(q[l]) = {} <=> q[l] = <<>>
    BY <1>2, ElementsOf
  <1>9. Q!First(l) = p_list[tail[l]]
    BY DEF Q!First
  <1>10. QED BY <1>1, <1>2, <1>4, <1>5, <1>6, <1>7, <1>8, <1>9

\* ... and what becomes of the queues when the links stand for r.
LEMMA QueuesThen ==
  ASSUME NEW r, QP!Shape(p_list', tail', r)
  PROVE  QueuesLinked' /\ Line' = r /\ Members' = [l \in Queue |-> ToSet(r[l])]
  <1>1. ASSUME NEW l \in Queue PROVE Q!Content(l)' = r[l]
    BY QP!QueueThen, QueueAssumption DEF QP!Content, Q!Content, QP!Walk, Q!Walk, QP!First, Q!First
  <1>2. r = [l \in Queue |-> r[l]]
    BY DEF QP!Shape
  <1>3. Line' = r
    BY <1>1, <1>2 DEF Line
  <1>4. QED BY <1>3 DEF Members, QueuesLinked

LEMMA QueueChanges ==
  ASSUME QueuesLinked, NEW l \in Queue, NEW s, NEW M,
         QP!Shape(p_list', tail', [Line EXCEPT ![l] = s]), ToSet(s) = M
  PROVE  QueuesLinked' /\ Members' = [Members EXCEPT ![l] = M]
  <1> DEFINE r == [Line EXCEPT ![l] = s]
  <1>1. \A m \in Queue : r[m] = IF m = l THEN s ELSE Line[m]
    BY DEF Line
  <1> HIDE DEF r
  <1>2. QueuesLinked' /\ Members' = [m \in Queue |-> ToSet(r[m])]
    BY QueuesThen DEF r
  <1>3. [m \in Queue |-> ToSet(r[m])] = [Members EXCEPT ![l] = M]
    BY <1>1 DEF Members
  <1>4. QED BY <1>2, <1>3

LEMMA QueuesStay ==
  ASSUME QueuesLinked, UNCHANGED queues
  PROVE  QueuesLinked' /\ Members' = Members /\ Line' = Line
  <1>1. PICK q : q = Line /\ QP!Shape(p_list, tail, q)
    BY DEF QueuesLinked
  <1>2. QP!Shape(p_list', tail', q)
    BY <1>1 DEF queues
  <1>3. QueuesLinked' /\ Line' = q /\ Members' = [l \in Queue |-> ToSet(q[l])]
    BY <1>2, QueuesThen
  <1>4. QED BY <1>1, <1>3 DEF Members

\* insertProcQ, freePcb and the queues of the semaphores.
LEMMA PutOn ==
  ASSUME QueuesLinked, NEW e \in Proc, NEW l \in Queue, \A m \in Queue : e \notin Members[m],
         QueuesBecome(Q!Enqueued(e, l))
  PROVE  QueuesLinked' /\ Members' = [Members EXCEPT ![l] = Members[l] \cup {e}]
  <1>1. PICK q : q = Line /\ QP!Shape(p_list, tail, q)
    BY DEF QueuesLinked
  <1>2. \A m \in Queue : e \notin QP!ToSet(q[m])
    BY <1>1, SameSets DEF Members
  <1>3. QP!Shape(QP!Enqueued(e, l).next, QP!Enqueued(e, l).tail, [q EXCEPT ![l] = Append(q[l], e)])
    BY <1>1, <1>2, QueueAssumption, QP!EnqueueShape
  <1>4. QP!Enqueued(e, l) = Q!Enqueued(e, l)
    BY DEF QP!Enqueued, Q!Enqueued, QP!First, Q!First
  <1>5. QP!Shape(p_list', tail', [Line EXCEPT ![l] = Append(Line[l], e)])
    BY <1>1, <1>3, <1>4 DEF QueuesBecome
  <1>6. ToSet(Append(Line[l], e)) = Members[l] \cup {e}
    BY QueueIs, AppendElements
  <1>7. QED BY <1>5, <1>6, QueueChanges

\* removeProcQ.
LEMMA FirstOff ==
  ASSUME QueuesLinked, NEW l \in Queue, tail[l] # NULL
  PROVE  QP!Shape(Q!Dequeued(l).next, Q!Dequeued(l).tail, [Line EXCEPT ![l] = Tail(Line[l])])
         /\ ToSet(Tail(Line[l])) = Members[l] \ {Q!First(l)}
  <1>1. PICK q : q = Line /\ QP!Shape(p_list, tail, q)
    BY DEF QueuesLinked
  <1>2. q[l] # <<>>
    BY <1>1, QueueIs
  <1>3. QP!Shape(QP!Dequeued(l).next, QP!Dequeued(l).tail, [q EXCEPT ![l] = Tail(q[l])])
    BY <1>1, <1>2, QueueAssumption, QP!DequeueShape
  <1>4. QP!Dequeued(l) = Q!Dequeued(l)
    BY DEF QP!Dequeued, Q!Dequeued, QP!First, Q!First
  <1>5. ToSet(Tail(Line[l])) = Members[l] \ {Q!First(l)}
    BY <1>1, <1>2, QueueIs, TailElements
  <1>6. QED BY <1>1, <1>3, <1>4, <1>5

LEMMA TakeFirst ==
  ASSUME QueuesLinked, NEW l \in Queue, tail[l] # NULL, QueuesBecome(Q!Dequeued(l))
  PROVE  QueuesLinked' /\ Members' = [Members EXCEPT ![l] = Members[l] \ {Q!First(l)}]
  BY FirstOff, QueueChanges DEF QueuesBecome

\* outProcQ and outBlocked.
LEMMA TakeOut ==
  ASSUME QueuesLinked, NEW e \in Proc, NEW l \in Queue, QueuesBecome(TakenOut(e, l))
  PROVE  QueuesLinked' /\ Members' = [Members EXCEPT ![l] = Members[l] \ {e}]
  <1>1. CASE e \notin Members[l]
    <2>1. UNCHANGED queues
      BY <1>1, QueueIs DEF QueuesBecome, TakenOut, queues
    <2>2. Members = [Members EXCEPT ![l] = Members[l] \ {e}]
      BY <1>1 DEF Members
    <2>3. QED BY <2>1, <2>2, QueuesStay
  <1>2. CASE e \in Members[l]
    <2>1. tail[l] # NULL /\ e \in Q!Ring(l)
      BY <1>2, QueueIs
    <2>2. CASE Q!First(l) = e
      <3>1. TakenOut(e, l) = Q!Dequeued(l)
        BY <2>1, <2>2 DEF TakenOut
      <3>2. QED BY <2>1, <2>2, <3>1, TakeFirst
    <2>3. CASE Q!First(l) # e
      <3> DEFINE s == Line[l]
                 p == CHOOSE x \in Q!Ring(l) : p_list[x] = e
      <3>1. /\ s \in Seq(Proc) /\ IsInjective(s) /\ ToSet(s) = Members[l]
            /\ Len(s) > 0 /\ Len(s) \in Nat
            /\ Q!First(l) = s[1] /\ tail[l] = s[Len(s)]
            /\ \A i \in 1 .. Len(s) : p_list[s[i]] = IF i = Len(s) THEN s[1] ELSE s[i + 1]
            /\ \A i, j \in 1 .. Len(s) : s[i] = s[j] => i = j
        <4>1. /\ s \in Seq(Proc) /\ IsInjective(s) /\ ToSet(s) = Members[l]
              /\ Len(s) > 0 /\ Q!First(l) = s[1] /\ tail[l] = s[Len(s)]
              /\ \A i \in 1 .. Len(s) : p_list[s[i]] = IF i = Len(s) THEN s[1] ELSE s[i + 1]
          BY <2>1, QueueIs
        <4>2. Len(s) \in Nat /\ DOMAIN s = 1 .. Len(s)
          BY <4>1, LenProperties
        <4>3. QED BY <4>1, <4>2 DEF IsInjective
      <3> HIDE DEF s
      <3>2. PICK i \in 1 .. Len(s) : s[i] = e
        BY <1>2, <3>1, ElementsOf
      <3>3. i # 1 /\ i - 1 \in 1 .. Len(s) /\ i - 1 # Len(s) /\ (i - 1) + 1 = i /\ Len(s) > 1
        <4>1. i # 1
          BY <2>3, <3>1, <3>2
        <4>2. QED BY <4>1, <3>1
      <3>4. s[i - 1] \in Q!Ring(l) /\ p_list[s[i - 1]] = e
        <4>1. s[i - 1] \in ToSet(s)
          BY <3>1, <3>3, ElementsOf
        <4>2. QED BY <4>1, <3>1, <3>2, <3>3, QueueIs
      <3>5. p \in Q!Ring(l) /\ p_list[p] = e
        BY <3>4
      <3> HIDE DEF p
      <3>6. TakenOut(e, l) = Q!Unlinked(e, p, l)
        BY <2>1, <2>3 DEF TakenOut, p
      <3>7. tail[l] = e <=> i = Len(s)
        BY <3>1, <3>2
      <3>8. /\ Q!Unlinked(e, p, l).next = [p_list EXCEPT ![p] = p_list[s[i]]]
            /\ Q!Unlinked(e, p, l).tail = IF i = Len(s) THEN [tail EXCEPT ![l] = p] ELSE tail
        BY <3>2, <3>7 DEF Q!Unlinked
      <3>9. QP!Shape([p_list EXCEPT ![p] = p_list[s[i]]],
                     IF i = Len(s) THEN [tail EXCEPT ![l] = p] ELSE tail,
                     [Line EXCEPT ![l] = RemoveAt(s, i)])
        <4>1. PICK q : q = Line /\ QP!Shape(p_list, tail, q)
          BY DEF QueuesLinked
        <4>2. p \in QP!ToSet(q[l])
          BY <4>1, <3>5, <3>1, QueueIs, SameSets DEF s
        <4>3. Len(q[l]) > 1 /\ i \in 1 .. Len(q[l]) /\ p_list[p] = q[l][i]
          BY <4>1, <3>2, <3>3, <3>5 DEF s
        <4>4. QP!Shape([p_list EXCEPT ![p] = p_list[q[l][i]]],
                       IF i = Len(q[l]) THEN [tail EXCEPT ![l] = p] ELSE tail,
                       [q EXCEPT ![l] = QP!RemoveAt(q[l], i)])
          BY <4>1, <4>2, <4>3, QueueAssumption, QP!UnlinkShape
        <4>5. QED BY <4>1, <4>4, SameSets DEF s
      <3>10. QP!Shape(p_list', tail', [Line EXCEPT ![l] = RemoveAt(s, i)])
        BY <3>6, <3>8, <3>9 DEF QueuesBecome
      <3>11. ToSet(RemoveAt(s, i)) = Members[l] \ {e}
        BY <3>1, <3>2, RemoveElements
      <3>12. QED BY <3>10, <3>11, QueueChanges
    <2>4. QED BY <2>2, <2>3
  <1>3. QED BY <1>1, <1>2

\* What the links say of the children of a process ...
LEMMA BroodIs ==
  ASSUME TreeLinked, NEW p \in Proc
  PROVE  /\ Brood[p] \in Seq(Proc) /\ IsInjective(Brood[p])
         /\ C!Ring(p) = ToSet(Brood[p]) /\ ToSet(Brood[p]) \subseteq Proc
         /\ \A c \in Proc : p_parent[c] = p <=> c \in ToSet(Brood[p])
         /\ p_children[p] = NULL <=> Brood[p] = <<>>
         /\ p_children[p] = NULL <=> Childless(p)
         /\ p_children[p] # NULL => /\ p_children[p] \in C!Ring(p)
                                    /\ C!First(p) \in Proc /\ p_parent[C!First(p)] = p
                                    /\ C!First(p) = Brood[p][1] /\ C!First(p) = Head(Brood[p])
                                    /\ Len(Brood[p]) > 0
                                    /\ p_children[p] = Brood[p][Len(Brood[p])]
         /\ \A i \in 1 .. Len(Brood[p]) :
              p_siblings[Brood[p][i]] = IF i = Len(Brood[p]) THEN Brood[p][1] ELSE Brood[p][i + 1]
  <1>1. PICK q : q = Brood /\ CP!Shape(p_siblings, p_children, q)
    BY DEF TreeLinked
  <1>2. /\ q[p] \in Seq(Proc) /\ CP!Circle(p_siblings, q[p]) /\ IsInjective(q[p])
        /\ ToSet(q[p]) \subseteq Proc
        /\ p_children[p] = NULL <=> q[p] = <<>>
        /\ q[p] # <<>> => /\ p_children[p] \in ToSet(q[p])
                          /\ p_siblings[p_children[p]] = q[p][1] /\ q[p][1] \in ToSet(q[p])
                          /\ Head(q[p]) = q[p][1]
                          /\ Len(q[p]) > 0 /\ p_children[p] = q[p][Len(q[p])]
    BY <1>1, ChildAssumption, CP!ChainAt, SameSets
  <1>3. CP!Ring(p) = ToSet(q[p])
    BY <1>1, ChildAssumption, CP!QueueNow, SameSets
  <1>4. C!Ring(p) = ToSet(q[p])
    BY <1>3 DEF CP!Ring, C!Ring, CP!Walk, C!Walk, CP!First, C!First, CP!Range, C!Range
  <1>5. \A i \in 1 .. Len(q[p]) :
          p_siblings[q[p][i]] = IF i = Len(q[p]) THEN q[p][1] ELSE q[p][i + 1]
    BY <1>2 DEF CP!Circle
  <1>6. ToSet(q[p]) = {} <=> q[p] = <<>>
    BY <1>2, ElementsOf
  <1>7. \A c \in Proc : p_parent[c] = p <=> c \in ToSet(q[p])
    BY <1>1 DEF TreeLinked
  <1>8. Childless(p) <=> ToSet(q[p]) = {}
    BY <1>2, <1>7 DEF Childless
  <1>9. C!First(p) = p_siblings[p_children[p]]
    BY DEF C!First
  <1>10. QED BY <1>1, <1>2, <1>4, <1>5, <1>6, <1>7, <1>8, <1>9

\* ... and what becomes of them when the links stand for r.
LEMMA BroodThen ==
  ASSUME NEW r, CP!Shape(p_siblings', p_children', r)
  PROVE  Brood' = r /\ CP!Shape(p_siblings', p_children', Brood')
  <1>1. ASSUME NEW p \in Proc PROVE C!Content(p)' = r[p]
    BY CP!QueueThen, ChildAssumption DEF CP!Content, C!Content, CP!Walk, C!Walk, CP!First, C!First
  <1>2. r = [p \in Proc |-> r[p]]
    BY DEF CP!Shape
  <1>3. QED BY <1>1, <1>2 DEF Brood

LEMMA TreeStays ==
  ASSUME TreeLinked, UNCHANGED tree
  PROVE  TreeLinked'
  <1>1. PICK q : q = Brood /\ CP!Shape(p_siblings, p_children, q)
    BY DEF TreeLinked
  <1>2. Brood' = q /\ CP!Shape(p_siblings', p_children', q)
    BY <1>1, BroodThen DEF tree
  <1>3. QED BY <1>1, <1>2 DEF TreeLinked, tree

\* insertChild of a new process.
LEMMA Adopt ==
  ASSUME TreeLinked, NEW e \in Proc, NEW p \in Proc, e # p, p_parent[e] = NULL, Childless(e),
         p_siblings' = C!Enqueued(e, p).next,
         p_children' = [C!Enqueued(e, p).tail EXCEPT ![e] = NULL],
         p_parent' = [p_parent EXCEPT ![e] = p]
  PROVE  TreeLinked'
  <1>1. PICK q : q = Brood /\ CP!Shape(p_siblings, p_children, q)
    BY DEF TreeLinked
  <1>2. NULL \notin Proc
    BY PcbAssumption DEF Proc
  <1>3. \A m \in Proc : e \notin CP!ToSet(q[m])
    BY <1>1, <1>2, BroodIs, SameSets
  <1>4. CP!Shape(CP!Enqueued(e, p).next, CP!Enqueued(e, p).tail, [q EXCEPT ![p] = Append(q[p], e)])
    BY <1>1, <1>3, ChildAssumption, CP!EnqueueShape
  <1>5. CP!Enqueued(e, p) = C!Enqueued(e, p)
    BY DEF CP!Enqueued, C!Enqueued, CP!First, C!First
  <1>6. [C!Enqueued(e, p).tail EXCEPT ![e] = NULL] = C!Enqueued(e, p).tail
    <2>1. p_children[e] = NULL /\ p_children \in [Proc -> Proc \cup {NULL}]
      BY <1>1, BroodIs, ChildAssumption DEF CP!Shape
    <2>2. C!Enqueued(e, p).tail = [p_children EXCEPT ![p] = e]
      BY DEF C!Enqueued
    <2>3. QED BY <2>1, <2>2
  <1> DEFINE r == [Brood EXCEPT ![p] = Append(Brood[p], e)]
  <1>7. Brood' = r
    BY <1>1, <1>4, <1>5, <1>6, BroodThen
  <1>8. CP!Shape(p_siblings', p_children', Brood')
    BY <1>1, <1>4, <1>5, <1>6, BroodThen
  <1>9. ToSet(Append(Brood[p], e)) = ToSet(Brood[p]) \cup {e}
    BY BroodIs, AppendElements
  <1>10. \A m \in Proc : r[m] = IF m = p THEN Append(Brood[p], e) ELSE Brood[m]
    BY DEF Brood
  <1> HIDE DEF r
  <1>11. p_parent \in [Proc -> Proc \cup {NULL}]
    BY DEF TreeLinked
  <1>12. p_parent' \in [Proc -> Proc \cup {NULL}]
    BY <1>11
  <1>13. ASSUME NEW m \in Proc, NEW c \in Proc
         PROVE  p_parent'[c] = m <=> c \in ToSet(Brood'[m])
    <2>1. p_parent[c] = m <=> c \in ToSet(Brood[m])
      BY BroodIs
    <2>2. p_parent'[c] = IF c = e THEN p ELSE p_parent[c]
      BY <1>11
    <2>3. QED BY <2>1, <2>2, <1>2, <1>7, <1>9, <1>10
  <1>14. QED BY <1>8, <1>12, <1>13 DEF TreeLinked

\* A child has left its parent's list.
LEMMA Left ==
  ASSUME TreeLinked, NEW e \in Proc, NEW p \in Proc, p_parent[e] = p, NEW s,
         CP!Shape(p_siblings', p_children', [Brood EXCEPT ![p] = s]),
         ToSet(s) = ToSet(Brood[p]) \ {e},
         p_parent' = [p_parent EXCEPT ![e] = NULL]
  PROVE  TreeLinked'
  <1> DEFINE r == [Brood EXCEPT ![p] = s]
  <1>1. Brood' = r /\ CP!Shape(p_siblings', p_children', Brood')
    BY BroodThen
  <1>2. \A m \in Proc : r[m] = IF m = p THEN s ELSE Brood[m]
    BY DEF Brood
  <1> HIDE DEF r
  <1>3. p_parent \in [Proc -> Proc \cup {NULL}] /\ NULL \notin Proc
    BY PcbAssumption DEF TreeLinked, Proc
  <1>4. p_parent' \in [Proc -> Proc \cup {NULL}]
    BY <1>3
  <1>5. ASSUME NEW m \in Proc, NEW c \in Proc
        PROVE  p_parent'[c] = m <=> c \in ToSet(Brood'[m])
    <2>1. p_parent[c] = m <=> c \in ToSet(Brood[m])
      BY BroodIs
    <2>2. p_parent'[c] = IF c = e THEN NULL ELSE p_parent[c]
      BY <1>3
    <2>3. QED BY <2>1, <2>2, <1>1, <1>2, <1>3
  <1>6. QED BY <1>1, <1>4, <1>5 DEF TreeLinked

\* removeChild.
LEMMA TakeChild ==
  ASSUME TreeLinked, NEW p \in Proc, p_children[p] # NULL, ChildrenBecome(C!Dequeued(p)),
         p_parent' = [p_parent EXCEPT ![C!First(p)] = NULL]
  PROVE  TreeLinked'
  <1>1. PICK q : q = Brood /\ CP!Shape(p_siblings, p_children, q)
    BY DEF TreeLinked
  <1>2. q[p] # <<>>
    BY <1>1, BroodIs
  <1>3. CP!Shape(CP!Dequeued(p).next, CP!Dequeued(p).tail, [q EXCEPT ![p] = Tail(q[p])])
    BY <1>1, <1>2, ChildAssumption, CP!DequeueShape
  <1>4. CP!Dequeued(p) = C!Dequeued(p)
    BY DEF CP!Dequeued, C!Dequeued, CP!First, C!First
  <1>5. ToSet(Tail(Brood[p])) = ToSet(Brood[p]) \ {C!First(p)}
    BY <1>1, <1>2, BroodIs, TailElements
  <1>6. CP!Shape(p_siblings', p_children', [Brood EXCEPT ![p] = Tail(Brood[p])])
    BY <1>1, <1>3, <1>4 DEF ChildrenBecome
  <1>7. QED BY <1>5, <1>6, BroodIs, Left

\* outChild.
LEMMA Orphan ==
  ASSUME TreeLinked, NEW e \in Proc, p_parent[e] # NULL,
         ChildrenBecome(Orphaned(e, p_parent[e])),
         p_parent' = [p_parent EXCEPT ![e] = NULL]
  PROVE  TreeLinked'
  <1> DEFINE l == p_parent[e]
             s == Brood[l]
             p == CHOOSE x \in C!Ring(l) : p_siblings[x] = e
  <1>1. l \in Proc
    BY DEF TreeLinked
  <1> HIDE DEF l
  <1>2. e \in C!Ring(l) /\ e \in ToSet(s)
    BY <1>1, BroodIs DEF l
  <1>3. s # <<>> /\ p_children[l] # NULL
    BY <1>1, <1>2, BroodIs, ElementsOf
  <1>4. CASE C!First(l) = e
    <2>1. Orphaned(e, l) = C!Dequeued(l)
      BY <1>4 DEF Orphaned
    <2>2. QED BY <1>1, <1>3, <1>4, <2>1, TakeChild DEF l
  <1>5. CASE C!First(l) # e
    <2>1. /\ s \in Seq(Proc) /\ IsInjective(s) /\ C!Ring(l) = ToSet(s)
          /\ Len(s) > 0 /\ Len(s) \in Nat
          /\ C!First(l) = s[1] /\ p_children[l] = s[Len(s)]
          /\ \A i \in 1 .. Len(s) : p_siblings[s[i]] = IF i = Len(s) THEN s[1] ELSE s[i + 1]
          /\ \A i, j \in 1 .. Len(s) : s[i] = s[j] => i = j
      <3>1. /\ s \in Seq(Proc) /\ IsInjective(s) /\ C!Ring(l) = ToSet(s)
            /\ Len(s) > 0 /\ C!First(l) = s[1] /\ p_children[l] = s[Len(s)]
            /\ \A i \in 1 .. Len(s) : p_siblings[s[i]] = IF i = Len(s) THEN s[1] ELSE s[i + 1]
        BY <1>1, <1>3, BroodIs
      <3>2. Len(s) \in Nat /\ DOMAIN s = 1 .. Len(s)
        BY <3>1, LenProperties
      <3>3. QED BY <3>1, <3>2 DEF IsInjective
    <2> HIDE DEF s
    <2>2. PICK i \in 1 .. Len(s) : s[i] = e
      BY <1>2, <2>1, ElementsOf
    <2>3. i # 1 /\ i - 1 \in 1 .. Len(s) /\ i - 1 # Len(s) /\ (i - 1) + 1 = i /\ Len(s) > 1
      <3>1. i # 1
        BY <1>5, <2>1, <2>2
      <3>2. QED BY <3>1, <2>1
    <2>4. s[i - 1] \in C!Ring(l) /\ p_siblings[s[i - 1]] = e
      <3>1. s[i - 1] \in ToSet(s)
        BY <2>1, <2>3, ElementsOf
      <3>2. QED BY <3>1, <2>1, <2>2, <2>3
    <2>5. p \in C!Ring(l) /\ p_siblings[p] = e
      BY <2>4
    <2> HIDE DEF p
    <2>6. Orphaned(e, l) = C!Unlinked(e, p, l)
      BY <1>5 DEF Orphaned, p
    <2>7. p_children[l] = e <=> i = Len(s)
      BY <2>1, <2>2
    <2>8. /\ C!Unlinked(e, p, l).next = [p_siblings EXCEPT ![p] = p_siblings[s[i]]]
          /\ C!Unlinked(e, p, l).tail
               = IF i = Len(s) THEN [p_children EXCEPT ![l] = p] ELSE p_children
      BY <2>2, <2>7 DEF C!Unlinked
    <2>9. CP!Shape([p_siblings EXCEPT ![p] = p_siblings[s[i]]],
                   IF i = Len(s) THEN [p_children EXCEPT ![l] = p] ELSE p_children,
                   [Brood EXCEPT ![l] = RemoveAt(s, i)])
      <3>1. PICK q : q = Brood /\ CP!Shape(p_siblings, p_children, q)
        BY DEF TreeLinked
      <3>2. p \in CP!ToSet(q[l])
        BY <3>1, <2>5, <2>1, SameSets DEF s
      <3>3. Len(q[l]) > 1 /\ i \in 1 .. Len(q[l]) /\ p_siblings[p] = q[l][i]
        BY <3>1, <2>2, <2>3, <2>5 DEF s
      <3>4. CP!Shape([p_siblings EXCEPT ![p] = p_siblings[q[l][i]]],
                     IF i = Len(q[l]) THEN [p_children EXCEPT ![l] = p] ELSE p_children,
                     [q EXCEPT ![l] = CP!RemoveAt(q[l], i)])
        BY <1>1, <3>1, <3>2, <3>3, ChildAssumption, CP!UnlinkShape
      <3>5. QED BY <3>1, <3>4, SameSets DEF s
    <2>10. CP!Shape(p_siblings', p_children', [Brood EXCEPT ![l] = RemoveAt(s, i)])
      BY <2>6, <2>8, <2>9 DEF ChildrenBecome, l
    <2>11. ToSet(RemoveAt(s, i)) = ToSet(Brood[l]) \ {e}
      BY <2>1, <2>2, RemoveElements DEF s
    <2>12. QED BY <1>1, <2>10, <2>11, Left DEF l
  <1>6. QED BY <1>4, <1>5

-----------------------------------------------------------------------------
(* The steps *)

LEMMA Kinds ==
  /\ NULL \notin Proc /\ NULL \notin Sem /\ MAXPROC \in Nat /\ MAXPROC > 0 /\ 1 \in Proc
  /\ "pcbFree" \in Queue /\ "readyqueue" \in Queue /\ "pcbFree" # "readyqueue"
  /\ \A s \in Sem : s \in Queue /\ s # "pcbFree" /\ s # "readyqueue"
  /\ \A l \in Queue : l \in Sem \/ l = "pcbFree" \/ l = "readyqueue"
  BY PcbAssumption DEF Proc, Queue

LEMMA MembersOf ==
  ASSUME QueuesLinked
  PROVE  /\ Members \in [Queue -> SUBSET Proc]
         /\ \A l, m \in Queue : l # m => Members[l] \cap Members[m] = {}
  <1>1. \A l \in Queue : Members[l] \subseteq Proc
    BY QueueIs
  <1>2. Members = [l \in Queue |-> Members[l]]
    BY DEF Members
  <1>3. Members \in [Queue -> SUBSET Proc]
    BY <1>1, <1>2
  <1>4. QED BY <1>3, QueueIs

LEMMA InitBInv == Init => BInv
  <1>1. SUFFICES ASSUME Init PROVE BInv
    OBVIOUS
  <1> DEFINE f == [i \in 1 .. MAXPROC - 1 |-> i + 1]
             q == [l \in Queue |-> IF l = "pcbFree" THEN f ELSE <<>>]
             none == [p \in Proc |-> <<>>]
  <1>2. /\ p_list = [p \in Proc |-> IF p = 1 THEN NULL ELSE IF p = MAXPROC THEN 2 ELSE p + 1]
        /\ tail = [l \in Queue |-> IF l = "pcbFree" /\ MAXPROC > 1 THEN MAXPROC ELSE NULL]
        /\ p_siblings = [p \in Proc |-> NULL] /\ p_children = [p \in Proc |-> NULL]
        /\ p_parent = [p \in Proc |-> NULL] /\ p_cursem = [p \in Proc |-> NULL]
        /\ current_process = 1 /\ hand = NULL /\ stack = <<>>
    BY <1>1 DEF Init
  <1>3. /\ f \in Seq(Proc) /\ DOMAIN f = 1 .. MAXPROC - 1 /\ Len(f) = MAXPROC - 1
        /\ MAXPROC - 1 \in Nat
        /\ \A i \in 1 .. MAXPROC - 1 : f[i] = i + 1
    <2>1. MAXPROC - 1 \in Nat
      BY Kinds
    <2>2. \A i \in 1 .. MAXPROC - 1 : i + 1 \in Proc
      BY Kinds DEF Proc
    <2>3. f \in [1 .. MAXPROC - 1 -> Proc]
      BY <2>2
    <2>4. f \in Seq(Proc)
      BY <2>1, <2>3
    <2>5. Len(f) = MAXPROC - 1
      BY <2>1, <2>4, LenProperties
    <2>6. QED BY <2>1, <2>3, <2>4, <2>5
  <1>4. ToSet(f) = Proc \ {1}
    <2>1. ASSUME NEW x \in Proc, x # 1 PROVE x \in ToSet(f)
      <3>1. x - 1 \in 1 .. MAXPROC - 1 /\ (x - 1) + 1 = x
        BY <2>1, Kinds DEF Proc
      <3>2. QED BY <3>1, <1>3 DEF ToSet
    <2>2. \A i \in 1 .. MAXPROC - 1 : i + 1 \in Proc /\ i + 1 # 1
      BY Kinds DEF Proc
    <2>3. QED BY <2>1, <2>2, <1>3 DEF ToSet
  <1>5. QP!Chain(p_list, tail["pcbFree"], f)
    <2>1. \A i, j \in 1 .. MAXPROC - 1 : f[i] = f[j] => i = j
      BY <1>3
    <2>2. IsInjective(f)
      BY <2>1, <1>3 DEF IsInjective
    <2>3. ASSUME NEW i \in 1 .. MAXPROC - 1
          PROVE  p_list[f[i]] = IF i = MAXPROC - 1 THEN f[1] ELSE f[i + 1]
      <3>1. f[i] = i + 1 /\ i + 1 \in Proc /\ i + 1 # 1 /\ (i + 1 = MAXPROC <=> i = MAXPROC - 1)
        BY <1>3, Kinds DEF Proc
      <3>2. p_list[f[i]] = IF i = MAXPROC - 1 THEN 2 ELSE (i + 1) + 1
        BY <3>1, <1>2
      <3>3. 1 \in 1 .. MAXPROC - 1 /\ (i # MAXPROC - 1 => i + 1 \in 1 .. MAXPROC - 1)
        BY <1>3
      <3>4. QED BY <3>2, <3>3, <1>3
    <2>4. QP!Circle(p_list, f)
      BY <2>2, <2>3, <1>3, SameSets DEF QP!Circle
    <2>5. tail["pcbFree"] = IF f = <<>> THEN NULL ELSE QP!Last(f)
      <3>1. f = <<>> <=> MAXPROC - 1 = 0
        BY <1>3, EmptySeq
      <3>2. f # <<>> => Last(f) = (MAXPROC - 1) + 1
        <4>1. SUFFICES ASSUME f # <<>> PROVE Last(f) = (MAXPROC - 1) + 1
          OBVIOUS
        <4>2. MAXPROC - 1 \in 1 .. MAXPROC - 1
          BY <3>1, <4>1, <1>3
        <4>3. QED BY <4>2, <1>3 DEF Last
      <3>3. MAXPROC > 1 <=> MAXPROC - 1 # 0
        BY Kinds
      <3>4. (MAXPROC - 1) + 1 = MAXPROC
        BY Kinds
      <3>5. QED BY <3>1, <3>2, <3>3, <3>4, <1>2, Kinds, SameSets
    <2>6. QED BY <2>4, <2>5, <1>3, QueueAssumption DEF QP!Chain
  <1> HIDE DEF f
  <1>6. QP!Shape(p_list, tail, q)
    <2>1. p_list \in [Proc -> Proc \cup {NULL}]
      <3>1. \A p \in Proc : p = 1 \/ (p = MAXPROC /\ 2 \in Proc) \/ (p # MAXPROC /\ p + 1 \in Proc)
        BY Kinds DEF Proc
      <3>2. QED BY <3>1, <1>2
    <2>2. tail \in [Queue -> Proc \cup {NULL}]
      <3>1. MAXPROC \in Proc
        BY Kinds DEF Proc
      <3>2. QED BY <3>1, <1>2
    <2>3. q \in [Queue -> Seq(Proc)]
      BY <1>3
    <2>4. QP!Chain(p_list, NULL, <<>>)
      BY DEF QP!Chain, QP!Circle, QP!IsInjective
    <2>5. \A l \in Queue : QP!Chain(p_list, tail[l], q[l])
      BY <1>2, <1>5, <2>4
    <2>6. QP!ToSet(<<>>) = {}
      BY DEF QP!ToSet
    <2>7. \A l, m \in Queue : l # m => QP!ToSet(q[l]) \cap QP!ToSet(q[m]) = {}
      BY <2>6
    <2>8. QED BY <2>1, <2>2, <2>3, <2>5, <2>7, QueueAssumption DEF QP!Shape
  <1>7. CP!Shape(p_siblings, p_children, none)
    <2>1. /\ p_siblings \in [Proc -> Proc \cup {NULL}] /\ p_children \in [Proc -> Proc \cup {NULL}]
          /\ none \in [Proc -> Seq(Proc)]
      BY <1>2
    <2>2. CP!Chain(p_siblings, NULL, <<>>)
      BY DEF CP!Chain, CP!Circle, CP!IsInjective
    <2>3. CP!ToSet(<<>>) = {}
      BY DEF CP!ToSet
    <2>4. QED BY <2>1, <2>2, <2>3, <1>2, ChildAssumption DEF CP!Shape
  <1>8. Line = q /\ QueuesLinked
    <2>1. \A l \in Queue : Q!Content(l) = q[l]
      BY <1>6, QP!QueueNow, QueueAssumption
         DEF QP!Content, Q!Content, QP!Walk, Q!Walk, QP!First, Q!First
    <2>2. Line = q
      BY <2>1 DEF Line
    <2>3. QED BY <2>2, <1>6 DEF QueuesLinked
  <1>9. Brood = none /\ TreeLinked
    <2>1. \A p \in Proc : C!Content(p) = none[p]
      BY <1>7, CP!QueueNow, ChildAssumption
         DEF CP!Content, C!Content, CP!Walk, C!Walk, CP!First, C!First
    <2>2. Brood = none
      BY <2>1 DEF Brood
    <2>3. ToSet(<<>>) = {}
      BY DEF ToSet
    <2>4. QED BY <2>2, <2>3, <1>2, <1>7, Kinds DEF TreeLinked
  <1>10. \A l \in Queue : Members[l] = IF l = "pcbFree" THEN Proc \ {1} ELSE {}
    <2>1. ToSet(<<>>) = {}
      BY DEF ToSet
    <2>2. QED BY <2>1, <1>4, <1>8 DEF Members
  <1>11. LocalType
    BY <1>2, Kinds DEF LocalType
  <1>12. PlaceInv
    BY <1>2, <1>10, Kinds DEF PlaceInv
  <1>13. TreeInv
    <2>1. \A p \in Proc : p_parent[p] = NULL
      BY <1>2
    <2>2. Members["pcbFree"] \subseteq Proc
      BY <1>10, Kinds
    <2>3. Acyclic
      BY <2>1, Kinds DEF Acyclic
    <2>4. QED BY <2>1, <2>2, <2>3, Kinds DEF TreeInv, Childless
  <1>14. HandInv /\ StackInv
    BY <1>2 DEF HandInv, StackInv
  <1>15. QED BY <1>8, <1>9, <1>11, <1>12, <1>13, <1>14 DEF BInv

\* A step that leaves p_parent alone and frees no ProcBlk.
LEMMA TreeKept ==
  ASSUME TreeInv, UNCHANGED p_parent, Members'["pcbFree"] \subseteq Members["pcbFree"]
  PROVE  TreeInv'
  BY DEF TreeInv, Childless, Acyclic

\* Outside of a termination, with no ProcBlk in the hand.
LEMMA NoTermination == stack' = <<>> => StackInv'
  BY DEF StackInv

LEMMA EmptyHand == hand' = NULL => HandInv'
  BY DEF HandInv

LEMMA MakeReadyStep ==
  ASSUME BInv, MakeReady
  PROVE  BInv' /\ Members'["pcbFree"] = Members["pcbFree"]
  <1>1. /\ hand \in Proc /\ hand # NULL /\ hand # current_process
        /\ \A l \in Queue : hand \notin Members[l]
        /\ stack = <<>> /\ hand' = NULL /\ QueuesBecome(Q!Enqueued(hand, "readyqueue"))
        /\ UNCHANGED <<tree, p_cursem, current_process, stack>>
    BY DEF BInv, LocalType, HandInv, MakeReady
  <1>2. QueuesLinked' /\ Members' = [Members EXCEPT !["readyqueue"] = Members["readyqueue"] \cup {hand}]
    BY <1>1, PutOn, Kinds DEF BInv
  <1>3. \A l \in Queue : Members'[l] = IF l = "readyqueue" THEN Members[l] \cup {hand} ELSE Members[l]
    BY <1>2, MembersOf DEF BInv
  <1>4. TreeLinked' /\ LocalType'
    BY <1>1, TreeStays DEF BInv, LocalType
  <1>5. PlaceInv'
    BY <1>1, <1>3, Kinds DEF BInv, PlaceInv
  <1>6. TreeInv'
    BY <1>1, <1>3, TreeKept, Kinds DEF BInv, tree
  <1>7. Members'["pcbFree"] = Members["pcbFree"]
    BY <1>3, Kinds
  <1>8. QED BY <1>7, <1>1, <1>2, <1>4, <1>5, <1>6, NoTermination, EmptyHand DEF BInv

\* A running process has left the queues.
LEMMA RunningIs ==
  ASSUME BInv, Running
  PROVE  /\ current_process \in Proc /\ \A l \in Queue : current_process \notin Members[l]
         /\ hand = NULL /\ stack = <<>>
  BY DEF BInv, LocalType, PlaceInv, Running

LEMMA BlockStep ==
  ASSUME BInv, NEW s \in Sem, Block(s)
  PROVE  BInv' /\ Members'["pcbFree"] = Members["pcbFree"]
  <1>1. /\ current_process \in Proc /\ \A l \in Queue : current_process \notin Members[l]
        /\ hand = NULL /\ stack = <<>> /\ current_process' = NULL
        /\ QueuesBecome(Q!Enqueued(current_process, s))
        /\ p_cursem' = [p_cursem EXCEPT ![current_process] = s]
        /\ UNCHANGED <<tree, hand, stack>>
    BY RunningIs DEF Block
  <1>2. QueuesLinked' /\ Members' = [Members EXCEPT ![s] = Members[s] \cup {current_process}]
    BY <1>1, PutOn, Kinds DEF BInv
  <1>3. \A l \in Queue : Members'[l] = IF l = s THEN Members[l] \cup {current_process} ELSE Members[l]
    BY <1>2, MembersOf DEF BInv
  <1>4. TreeLinked' /\ LocalType'
    BY <1>1, TreeStays DEF BInv, LocalType
  <1>5. PlaceInv'
    <2>1. \A l \in Queue : NULL \notin Members'[l]
      BY <1>1, <1>3, MembersOf, Kinds DEF BInv
    <2>2. \A p \in Proc : p # current_process => \E l \in Queue : p \in Members'[l]
      BY <1>1, <1>3, Kinds DEF BInv, PlaceInv
    <2>3. current_process \in Members'[s]
      BY <1>3, Kinds
    <2>4. \A t \in Sem : \A p \in Members'[t] : p_cursem'[p] = t
      <3>1. \A p \in Proc : p_cursem'[p] = IF p = current_process THEN s ELSE p_cursem[p]
        BY <1>1 DEF BInv, LocalType
      <3>2. ASSUME NEW t \in Sem, NEW p \in Members'[t] PROVE p_cursem'[p] = t
        <4>1. p \in Proc /\ (p = current_process => t = s)
          BY <1>1, <1>3, MembersOf, Kinds DEF BInv
        <4>2. p # current_process => p \in Members[t]
          BY <1>3, Kinds
        <4>3. p # current_process => p_cursem[p] = t
          BY <4>2 DEF BInv, PlaceInv
        <4>4. QED BY <3>1, <4>1, <4>3
      <3>3. QED BY <3>2
    <2>5. QED BY <1>1, <2>1, <2>2, <2>3, <2>4, Kinds DEF PlaceInv
  <1>6. TreeInv'
    BY <1>1, <1>3, TreeKept, Kinds DEF BInv, tree
  <1>7. Members'["pcbFree"] = Members["pcbFree"]
    BY <1>3, Kinds
  <1>8. QED BY <1>7, <1>1, <1>2, <1>4, <1>5, <1>6, NoTermination, EmptyHand DEF BInv

LEMMA PreemptStep ==
  ASSUME BInv, Preempt
  PROVE  BInv' /\ Members'["pcbFree"] = Members["pcbFree"]
  <1>1. /\ current_process \in Proc /\ \A l \in Queue : current_process \notin Members[l]
        /\ hand = NULL /\ stack = <<>> /\ current_process' = NULL
        /\ QueuesBecome(Q!Enqueued(current_process, "readyqueue"))
        /\ UNCHANGED <<tree, p_cursem, hand, stack>>
    BY RunningIs DEF Preempt
  <1>2. /\ QueuesLinked'
        /\ Members' = [Members EXCEPT !["readyqueue"] = Members["readyqueue"] \cup {current_process}]
    BY <1>1, PutOn, Kinds DEF BInv
  <1>3. \A l \in Queue : Members'[l] = IF l = "readyqueue" THEN Members[l] \cup {current_process}
                                       ELSE Members[l]
    BY <1>2, MembersOf DEF BInv
  <1>4. TreeLinked' /\ LocalType'
    BY <1>1, TreeStays DEF BInv, LocalType
  <1>5. PlaceInv'
    <2>1. \A l \in Queue : NULL \notin Members'[l]
      BY <1>1, <1>3, MembersOf, Kinds DEF BInv
    <2>2. \A p \in Proc : \E l \in Queue : p \in Members'[l]
      BY <1>1, <1>3, Kinds DEF BInv, PlaceInv
    <2>3. QED BY <1>1, <1>3, <2>1, <2>2, Kinds DEF BInv, PlaceInv
  <1>6. TreeInv'
    BY <1>1, <1>3, TreeKept, Kinds DEF BInv, tree
  <1>7. Members'["pcbFree"] = Members["pcbFree"]
    BY <1>3, Kinds
  <1>8. QED BY <1>7, <1>1, <1>2, <1>4, <1>5, <1>6, NoTermination, EmptyHand DEF BInv

LEMMA DispatchStep ==
  ASSUME BInv, Dispatch
  PROVE  BInv' /\ Members'["pcbFree"] = Members["pcbFree"]
  <1> DEFINE p == Q!First("readyqueue")
  <1>1. /\ current_process = NULL /\ hand = NULL /\ stack = <<>> /\ tail["readyqueue"] # NULL
        /\ current_process' = p /\ QueuesBecome(Q!Dequeued("readyqueue"))
        /\ UNCHANGED <<tree, p_cursem, hand, stack>>
    BY DEF Dispatch
  <1>2. p \in Members["readyqueue"] /\ p \in Proc
    BY <1>1, QueueIs, Kinds DEF BInv
  <1>3. QueuesLinked' /\ Members' = [Members EXCEPT !["readyqueue"] = Members["readyqueue"] \ {p}]
    BY <1>1, TakeFirst, Kinds DEF BInv
  <1> HIDE DEF p
  <1>4. \A l \in Queue : Members'[l] = IF l = "readyqueue" THEN Members[l] \ {p} ELSE Members[l]
    BY <1>3, MembersOf DEF BInv
  <1>5. TreeLinked' /\ LocalType'
    BY <1>1, <1>2, TreeStays DEF BInv, LocalType
  <1>6. PlaceInv'
    <2>1. \A l \in Queue : p \notin Members'[l]
      BY <1>2, <1>4, MembersOf, Kinds DEF BInv
    <2>2. \A x \in Proc : x # p => \E l \in Queue : x \in Members'[l]
      BY <1>1, <1>4, Kinds DEF BInv, PlaceInv
    <2>3. QED BY <1>1, <1>4, <2>1, <2>2, Kinds DEF BInv, PlaceInv
  <1>7. TreeInv'
    BY <1>1, <1>4, TreeKept, Kinds DEF BInv, tree
  <1>8. Members'["pcbFree"] = Members["pcbFree"]
    BY <1>4, Kinds
  <1>9. QED BY <1>8, <1>1, <1>3, <1>5, <1>6, <1>7, NoTermination, EmptyHand DEF BInv

LEMMA ReleaseStep ==
  ASSUME BInv, NEW s \in Sem, Release(s)
  PROVE  BInv' /\ Members'["pcbFree"] = Members["pcbFree"]
  <1> DEFINE p == Q!First(s)
  <1>1. /\ hand = NULL /\ stack = <<>> /\ tail[s] # NULL
        /\ hand' = p /\ QueuesBecome(TakenOut(p, s))
        /\ p_cursem' = [p_cursem EXCEPT ![p] = NULL]
        /\ UNCHANGED <<tree, current_process, stack>>
    BY DEF Release
  <1>2. p \in Members[s] /\ p \in Proc /\ p # current_process
    BY <1>1, QueueIs, Kinds DEF BInv, PlaceInv
  <1>3. QueuesLinked' /\ Members' = [Members EXCEPT ![s] = Members[s] \ {p}]
    BY <1>1, <1>2, TakeOut, Kinds DEF BInv
  <1> HIDE DEF p
  <1>4. \A l \in Queue : Members'[l] = IF l = s THEN Members[l] \ {p} ELSE Members[l]
    BY <1>3, MembersOf DEF BInv
  <1>5. TreeLinked' /\ LocalType'
    BY <1>1, <1>2, TreeStays DEF BInv, LocalType
  <1>6. \A l \in Queue : p \notin Members'[l]
    BY <1>2, <1>4, MembersOf, Kinds DEF BInv
  <1>7. PlaceInv'
    <2>1. \A x \in Proc : x \in {current_process, p} \/ \E l \in Queue : x \in Members'[l]
      BY <1>1, <1>4, Kinds DEF BInv, PlaceInv
    <2>2. \A t \in Sem : \A x \in Members'[t] : p_cursem'[x] = t
      <3>1. \A x \in Proc : x # p => p_cursem'[x] = p_cursem[x]
        BY <1>1 DEF BInv, LocalType
      <3>2. ASSUME NEW t \in Sem, NEW x \in Members'[t] PROVE p_cursem'[x] = t
        <4>1. x \in Proc /\ x # p /\ x \in Members[t]
          BY <1>2, <1>4, <1>6, MembersOf, Kinds DEF BInv
        <4>2. p_cursem[x] = t
          BY <4>1 DEF BInv, PlaceInv
        <4>3. QED BY <3>1, <4>1, <4>2
      <3>3. QED BY <3>2
    <2>3. QED BY <1>1, <1>4, <2>1, <2>2 DEF BInv, PlaceInv
  <1>8. TreeInv'
    BY <1>1, <1>4, TreeKept, Kinds DEF BInv, tree
  <1>9. HandInv'
    BY <1>1, <1>2, <1>6 DEF HandInv
  <1>10. Members'["pcbFree"] = Members["pcbFree"]
    BY <1>4, Kinds
  <1>11. QED BY <1>10, <1>1, <1>3, <1>5, <1>7, <1>8, <1>9, NoTermination DEF BInv

LEMMA CreateStep ==
  ASSUME BInv, CreateProcess
  PROVE  BInv' /\ Members'["pcbFree"] = Members["pcbFree"] \ {Q!First("pcbFree")}
  <1> DEFINE p == Q!First("pcbFree")
             c == current_process
  <1>1. /\ c \in Proc /\ (\A l \in Queue : c \notin Members[l]) /\ hand = NULL /\ stack = <<>>
        /\ tail["pcbFree"] # NULL /\ hand' = p
        /\ p_list' = [Q!Dequeued("pcbFree").next EXCEPT ![p] = NULL]
        /\ tail' = Q!Dequeued("pcbFree").tail
        /\ p_siblings' = C!Enqueued(p, c).next
        /\ p_children' = [C!Enqueued(p, c).tail EXCEPT ![p] = NULL]
        /\ p_parent' = [p_parent EXCEPT ![p] = c]
        /\ p_cursem' = [p_cursem EXCEPT ![p] = NULL]
        /\ UNCHANGED <<current_process, stack>>
    BY RunningIs DEF CreateProcess
  <1>2. p \in Members["pcbFree"] /\ p \in Proc /\ p # c
    BY <1>1, QueueIs, Kinds DEF BInv
  <1>3. QueuesLinked' /\ Members' = [Members EXCEPT !["pcbFree"] = Members["pcbFree"] \ {p}]
    <2> DEFINE s == Tail(Line["pcbFree"])
    <2>1. /\ QP!Shape(Q!Dequeued("pcbFree").next, Q!Dequeued("pcbFree").tail,
                      [Line EXCEPT !["pcbFree"] = s])
          /\ ToSet(s) = Members["pcbFree"] \ {p}
      BY <1>1, FirstOff, Kinds DEF BInv
    <2>2. \A m \in Queue : p \notin QP!ToSet([Line EXCEPT !["pcbFree"] = s][m])
      <3>1. \A m \in Queue : [Line EXCEPT !["pcbFree"] = s][m] = IF m = "pcbFree" THEN s ELSE Line[m]
        BY DEF Line
      <3>2. \A m \in Queue : m # "pcbFree" => p \notin ToSet(Line[m])
        BY <1>2, QueueIs, Kinds DEF BInv
      <3>3. QED BY <3>1, <3>2, <2>1, SameSets
    <2> DEFINE r == [Line EXCEPT !["pcbFree"] = s]
               g == Q!Dequeued("pcbFree").next
               u == Q!Dequeued("pcbFree").tail
    <2>3. QP!Shape(g, u, r) /\ (\A m \in Queue : p \notin QP!ToSet(r[m]))
          /\ p_list' = [g EXCEPT ![p] = NULL] /\ tail' = u
      BY <1>1, <2>1, <2>2
    <2> HIDE DEF g, u, r, s, p
    <2>4. QP!Shape([g EXCEPT ![p] = NULL], u, r)
      BY <2>3, <1>2, QueueAssumption, QP!ShapeFree
    <2>5. QP!Shape(p_list', tail', [Line EXCEPT !["pcbFree"] = s])
      BY <2>3, <2>4 DEF r
    <2>6. QED BY <2>1, <2>5, QueueChanges, Kinds DEF BInv
  <1>4. p_parent[p] = NULL /\ Childless(p)
    BY <1>2 DEF BInv, TreeInv
  <1>5. TreeLinked'
    BY <1>1, <1>2, <1>4, Adopt DEF BInv
  <1> HIDE DEF p
  <1>6. \A l \in Queue : Members'[l] = IF l = "pcbFree" THEN Members[l] \ {p} ELSE Members[l]
    BY <1>3, MembersOf DEF BInv
  <1>7. LocalType'
    BY <1>1, <1>2 DEF BInv, LocalType
  <1>8. \A l \in Queue : p \notin Members'[l]
    BY <1>2, <1>6, MembersOf, Kinds DEF BInv
  <1>9. PlaceInv'
    <2>1. \A x \in Proc : x \in {current_process, p} \/ \E l \in Queue : x \in Members'[l]
      BY <1>1, <1>6, Kinds DEF BInv, PlaceInv
    <2>2. \A t \in Sem : \A x \in Members'[t] : p_cursem'[x] = t
      <3>1. \A x \in Proc : x # p => p_cursem'[x] = p_cursem[x]
        BY <1>1 DEF BInv, LocalType
      <3>2. ASSUME NEW t \in Sem, NEW x \in Members'[t] PROVE p_cursem'[x] = t
        <4>1. x \in Proc /\ x # p /\ x \in Members[t]
          BY <1>2, <1>6, <1>8, MembersOf, Kinds DEF BInv
        <4>2. p_cursem[x] = t
          BY <4>1 DEF BInv, PlaceInv
        <4>3. QED BY <3>1, <4>1, <4>2
      <3>3. QED BY <3>2
    <2>3. QED BY <1>1, <1>6, <2>1, <2>2 DEF PlaceInv
  <1>10. \A x \in Proc : p_parent'[x] = IF x = p THEN c ELSE p_parent[x]
    BY <1>1 DEF BInv, TreeLinked
  <1>11. TreeInv'
    <2>1. ASSUME NEW x \in Members'["pcbFree"] PROVE p_parent'[x] = NULL /\ Childless(x)'
      <3>1. x \in Members["pcbFree"] /\ x # p /\ x # c /\ x \in Proc
        BY <2>1, <1>1, <1>6, MembersOf, Kinds DEF BInv
      <3>2. p_parent[x] = NULL /\ \A y \in Proc : p_parent[y] # x
        BY <3>1 DEF BInv, TreeInv, Childless
      <3>3. QED BY <3>1, <3>2, <1>10 DEF Childless
    <2>2. ASSUME NEW S \in SUBSET Proc, S # {} PROVE \E x \in S : p_parent'[x] \notin S
      <3>1. CASE S = {p}
        BY <3>1, <1>2, <1>10
      <3>2. CASE S # {p}
        <4>1. PICK x \in S \ {p} : p_parent[x] \notin S \ {p}
          BY <2>2, <3>2 DEF BInv, TreeInv, Acyclic
        <4>2. p_parent[x] # p
          BY <4>1, <1>4 DEF Childless
        <4>3. QED BY <4>1, <4>2, <1>10
      <3>3. QED BY <3>1, <3>2
    <2>3. QED BY <2>1, <2>2 DEF TreeInv, Acyclic
  <1>12. HandInv'
    BY <1>1, <1>2, <1>8 DEF HandInv
  <1>13. Members'["pcbFree"] = Members["pcbFree"] \ {Q!First("pcbFree")}
    <2>1. Members \in [Queue -> SUBSET Proc] /\ "pcbFree" \in Queue
      BY MembersOf, Kinds DEF BInv
    <2>2. Members'["pcbFree"] = Members["pcbFree"] \ {p}
      BY <2>1, <1>3
    <2>3. QED BY <2>2 DEF p
  <1>14. QED BY <1>13, <1>1, <1>3, <1>5, <1>7, <1>9, <1>11, <1>12, NoTermination DEF BInv

-----------------------------------------------------------------------------
(* The steps of a termination *)

\* The progeny of a process is the least set with it that is closed under
\* children: who is in it and not the process itself has its parent there.
LEMMA ProgenyIs ==
  ASSUME NEW r \in Proc
  PROVE  /\ r \in Progeny(r) /\ Progeny(r) \subseteq Proc /\ Closed(Progeny(r))
         /\ \A S \in SUBSET Proc : r \in S /\ Closed(S) => Progeny(r) \subseteq S
         /\ \A q \in Progeny(r) : q # r => p_parent[q] \in Progeny(r)
  <1>1. r \in Progeny(r) /\ Progeny(r) \subseteq Proc
    BY DEF Progeny
  <1>2. \A S \in SUBSET Proc : r \in S /\ Closed(S) => Progeny(r) \subseteq S
    BY DEF Progeny
  <1>3. Closed(Progeny(r))
    <2>1. SUFFICES ASSUME NEW q \in Proc, p_parent[q] \in Progeny(r),
                          NEW S \in SUBSET Proc, r \in S, Closed(S)
                   PROVE  q \in S
      BY DEF Closed, Progeny
    <2>2. p_parent[q] \in S
      BY <2>1, <1>2
    <2>3. QED BY <2>1, <2>2 DEF Closed
  <1>4. ASSUME NEW q \in Progeny(r), q # r, p_parent[q] \notin Progeny(r) PROVE FALSE
    <2> DEFINE S == Progeny(r) \ {q}
    <2>1. S \in SUBSET Proc /\ r \in S
      BY <1>1, <1>4
    <2>2. Closed(S)
      <3>1. \A x \in Proc : p_parent[x] \in S => x \in Progeny(r) /\ x # q
        BY <1>3, <1>4 DEF Closed
      <3>2. QED BY <3>1 DEF Closed
    <2>3. Progeny(r) \subseteq S
      BY <2>1, <2>2, <1>2
    <2>4. QED BY <2>3
  <1>5. QED BY <1>1, <1>2, <1>3, <1>4

LEMMA TerminateProcessStep ==
  ASSUME BInv, ~KillReady, NEW r \in Proc, TerminateProcess(r)
  PROVE  BInv' /\ Members'["pcbFree"] = Members["pcbFree"]
  <1> DEFINE c == current_process
  <1>0. PICK D : D = Progeny(r) \ {r}
    OBVIOUS
  <1>1. /\ c \in Proc /\ (\A l \in Queue : c \notin Members[l]) /\ hand = NULL /\ stack = <<>>
        /\ r \in Progeny(c) /\ Members["readyqueue"] \cap D = {} /\ stack' = <<r>>
        /\ UNCHANGED <<queues, tree, p_cursem, current_process, hand>>
    <2>1. Q!Ring("readyqueue") = Members["readyqueue"]
      BY QueueIs, Kinds DEF BInv
    <2>2. Q!Ring("readyqueue") \cap D = {}
      BY <1>0 DEF TerminateProcess
    <2>3. QED BY <2>1, <2>2, RunningIs DEF TerminateProcess
  <1>2. QueuesLinked' /\ Members' = Members
    BY <1>1, QueuesStay DEF BInv
  <1>3. TreeLinked' /\ LocalType'
    BY <1>1, TreeStays DEF BInv, LocalType
  <1>4. PlaceInv' /\ TreeInv' /\ HandInv'
    BY <1>1, <1>2, TreeKept, EmptyHand DEF BInv, PlaceInv, tree
  <1>5. /\ r \in Progeny(r) /\ Progeny(r) \subseteq Proc /\ Closed(Progeny(r))
        /\ \A S \in SUBSET Proc : r \in S /\ Closed(S) => Progeny(r) \subseteq S
        /\ \A q \in Progeny(r) : q # r => p_parent[q] \in Progeny(r)
    BY ProgenyIs
  <1>6. /\ c \in Progeny(c) /\ Progeny(c) \subseteq Proc /\ Closed(Progeny(c))
        /\ \A S \in SUBSET Proc : c \in S /\ Closed(S) => Progeny(c) \subseteq S
        /\ \A q \in Progeny(c) : q # c => p_parent[q] \in Progeny(c)
    BY <1>1, ProgenyIs
  <1>7. p_parent[r] \notin Progeny(r)
    <2>1. SUFFICES ASSUME p_parent[r] \in Progeny(r) PROVE FALSE
      OBVIOUS
    <2>2. PICK q \in Progeny(r) : p_parent[q] \notin Progeny(r)
      BY <1>5 DEF BInv, TreeInv, Acyclic
    <2>3. QED BY <2>1, <2>2, <1>5
  <1>8. c \notin D
    <2>1. SUFFICES ASSUME c \in Progeny(r), c # r PROVE FALSE
      BY <1>0
    <2>2. Progeny(c) \subseteq Progeny(r)
      BY <2>1, <1>5, <1>6
    <2>3. p_parent[r] \in Progeny(r)
      BY <2>1, <2>2, <1>1, <1>6
    <2>4. QED BY <2>3, <1>7
  <1>9. r # c => p_parent[r] \in Proc /\ r \notin Members["pcbFree"]
    <2>1. r # c => p_parent[r] \in Proc
      BY <1>1, <1>6
    <2>2. r \in Members["pcbFree"] => p_parent[r] = NULL
      BY DEF BInv, TreeInv
    <2>3. QED BY <2>1, <2>2, Kinds
  <1>10. stack' # <<>> /\ Head(stack') = r /\ Len(stack') = 1 /\ ToSet(stack') = {r}
         /\ IsInjective(stack')
    BY <1>1 DEF ToSet, IsInjective
  <1>11. StackInv'
    <2>1. \E E \in SUBSET Proc : Doomed(E)'
      <3>1. \A p \in D : p \notin Members'["readyqueue"]
        BY <1>1, <1>2
      <3>2. \A i \in 2 .. Len(stack') : FALSE
        BY <1>10
      <3>3. \A q \in Proc : p_parent'[q] \in D \cup {r} => q \in D
        <4>1. ASSUME NEW q \in Proc, p_parent[q] \in D \cup {r} PROVE q \in D
          <5>1. p_parent[q] \in Progeny(r)
            BY <4>1, <1>0, <1>5
          <5>2. q \in Progeny(r) /\ q # r
            BY <5>1, <1>5, <1>7 DEF Closed
          <5>3. QED BY <5>2, <1>0
        <4>2. QED BY <4>1, <1>1 DEF tree
      <3>4. r \notin D /\ p_parent'[r] \notin D \cup {r} /\ current_process' \notin D
        BY <1>0, <1>1, <1>5, <1>7, <1>8 DEF tree
      <3>5. D \in SUBSET Proc
        BY <1>0, <1>5
      <3>6. Doomed(D)'
        BY <3>1, <3>2, <3>3, <3>4, <1>10 DEF Doomed, Root
      <3>7. QED BY <3>5, <3>6
    <2>2. \A p \in ToSet(stack') : p \notin Members'["pcbFree"]
      BY <1>1, <1>2, <1>9, <1>10, Kinds
    <2>3. \A i \in 2 .. Len(stack') : p_parent'[stack'[i]] = NULL
      BY <1>10
    <2>4. p_parent'[Root'] = NULL => Root' \notin Members'["readyqueue"]
      BY <1>1, <1>2, <1>9, <1>10, Kinds DEF Root, tree
    <2>5. current_process' # NULL
      BY <1>1, Kinds
    <2>6. QED BY <2>1, <2>2, <2>3, <2>4, <2>5, <1>10 DEF StackInv
  <1>12. Members'["pcbFree"] = Members["pcbFree"]
    BY <1>2
  <1>13. QED BY <1>12, <1>2, <1>3, <1>4, <1>11 DEF BInv

\* The calls in progress.
LEMMA Calls ==
  ASSUME BInv, stack # <<>>
  PROVE  /\ stack \in Seq(Proc) /\ Len(stack) \in Nat /\ Len(stack) > 0
         /\ Root = stack[1] /\ Top = stack[Len(stack)] /\ Root \in Proc /\ Top \in Proc
         /\ \A i \in 1 .. Len(stack) : stack[i] \in Proc /\ stack[i] \in ToSet(stack)
         /\ \A i, j \in 1 .. Len(stack) : stack[i] = stack[j] => i = j
         /\ \A p \in ToSet(stack) : \E i \in 1 .. Len(stack) : p = stack[i]
         /\ \A p \in ToSet(stack) : p \notin Members["pcbFree"]
         /\ Top \in ToSet(stack) /\ Root \in ToSet(stack)
  <1>1. stack \in Seq(Proc) /\ IsInjective(stack)
        /\ \A p \in ToSet(stack) : p \notin Members["pcbFree"]
    BY DEF BInv, LocalType, StackInv
  <1>2. /\ Len(stack) \in Nat /\ Len(stack) > 0 /\ DOMAIN stack = 1 .. Len(stack)
        /\ Top = stack[Len(stack)]
        /\ \A i \in 1 .. Len(stack) : stack[i] \in Proc
    BY <1>1, LastOf DEF Top
  <1>3. Root = stack[1]
    BY DEF Root
  <1>4. ToSet(stack) = {stack[i] : i \in 1 .. Len(stack)}
    BY <1>1, ElementsOf
  <1>5. 1 \in 1 .. Len(stack) /\ Len(stack) \in 1 .. Len(stack)
    BY <1>2
  <1>6. QED BY <1>1, <1>2, <1>3, <1>4, <1>5 DEF IsInjective

LEMMA RemoveChildStep ==
  ASSUME BInv, RemoveChild
  PROVE  BInv' /\ Members'["pcbFree"] = Members["pcbFree"]
  <1> DEFINE c == C!First(Top)
             n == Len(stack)
  <1>1. /\ stack # <<>> /\ hand = NULL /\ p_children[Top] # NULL /\ stack' = Append(stack, c)
        /\ p_parent' = [p_parent EXCEPT ![c] = NULL] /\ ChildrenBecome(C!Dequeued(Top))
        /\ UNCHANGED <<queues, p_cursem, current_process, hand>>
    BY DEF RemoveChild
  <1>2. /\ n \in Nat /\ n > 0 /\ Root = stack[1] /\ Top = stack[n] /\ Root \in Proc /\ Top \in Proc
        /\ \A i \in 1 .. n : stack[i] \in Proc /\ stack[i] \in ToSet(stack)
        /\ \A p \in ToSet(stack) : \E i \in 1 .. n : p = stack[i]
        /\ \A p \in ToSet(stack) : p \notin Members["pcbFree"]
        /\ stack \in Seq(Proc)
    BY <1>1, Calls
  <1>3. c \in Proc /\ p_parent[c] = Top /\ TreeLinked'
    BY <1>1, <1>2, BroodIs, TakeChild DEF BInv
  <1> HIDE DEF c
  <1>4. \A x \in Proc : p_parent'[x] = IF x = c THEN NULL ELSE p_parent[x]
    BY <1>1 DEF BInv, TreeLinked
  <1>5. QueuesLinked' /\ Members' = Members
    BY <1>1, QueuesStay DEF BInv
  <1>6. LocalType'
    <2>1. stack' \in Seq(Proc)
      BY <1>1, <1>2, <1>3
    <2>2. QED BY <1>1, <2>1 DEF BInv, LocalType
  <1>7. PlaceInv' /\ HandInv'
    BY <1>1, <1>5, EmptyHand DEF BInv, PlaceInv
  <1>8. TreeInv'
    <2>1. ASSUME NEW x \in Members'["pcbFree"] PROVE p_parent'[x] = NULL /\ Childless(x)'
      <3>1. x \in Proc /\ p_parent[x] = NULL /\ \A y \in Proc : p_parent[y] # x
        BY <2>1, <1>5, MembersOf, Kinds DEF BInv, TreeInv, Childless
      <3>2. QED BY <3>1, <1>4, Kinds DEF Childless
    <2>2. ASSUME NEW S \in SUBSET Proc, S # {} PROVE \E x \in S : p_parent'[x] \notin S
      <3>1. PICK x \in S : p_parent[x] \notin S
        BY <2>2 DEF BInv, TreeInv, Acyclic
      <3>2. QED BY <3>1, <1>4, Kinds
    <2>3. QED BY <2>1, <2>2 DEF TreeInv, Acyclic
  <1>9. PICK D \in SUBSET Proc : Doomed(D)
    BY <1>1 DEF BInv, StackInv
  <1>10. c \in D /\ c # Root
    <2>1. Top \in D \cup {Root}
      <3>1. n = 1 \/ n \in 2 .. n
        <4>1. \A k \in Nat : k > 0 => k = 1 \/ k \in 2 .. k
          OBVIOUS
        <4>2. QED BY <4>1, <1>2, Zenon
      <3>2. QED BY <3>1, <1>2, <1>9 DEF Doomed
    <2>2. QED BY <2>1, <1>3, <1>9 DEF Doomed
  <1>11. c \notin ToSet(stack)
    <2>1. \A i \in 2 .. n : p_parent[stack[i]] = NULL
      BY <1>1 DEF BInv, StackInv
    <2>2. \A i \in 1 .. n : i = 1 \/ i \in 2 .. n
      BY <1>2
    <2>3. QED BY <2>1, <2>2, <1>2, <1>3, <1>10, Kinds
  <1>12. /\ Len(stack') = n + 1 /\ stack'[n + 1] = c
         /\ \A i \in 1 .. n : stack'[i] = stack[i]
         /\ ToSet(stack') = ToSet(stack) \cup {c} /\ IsInjective(stack') /\ stack' # <<>>
         /\ Root' = Root
    <2>1. Append(stack, c) # <<>> /\ Len(Append(stack, c)) = n + 1 /\ Append(stack, c)[n + 1] = c
          /\ \A i \in 1 .. n : Append(stack, c)[i] = stack[i]
      BY <1>2, <1>3, AppendProperties
    <2>2. 1 \in 1 .. n /\ Head(Append(stack, c)) = Append(stack, c)[1]
      BY <1>2, <2>1
    <2>3. ToSet(Append(stack, c)) = ToSet(stack) \cup {c} /\ IsInjective(Append(stack, c))
      BY <1>1, <1>2, <1>3, <1>11, AppendElements DEF BInv, StackInv
    <2>4. Root' = Root
      BY <2>1, <2>2, <1>1, <1>2 DEF Root
    <2>5. QED BY <1>1, <2>1, <2>3, <2>4
  <1>13. \A i \in 2 .. n + 1 : i \in 2 .. n \/ i = n + 1
    BY <1>2
  <1>14. Doomed(D)'
    <2>1. \A p \in D : p \notin Members'["readyqueue"]
      BY <1>5, <1>9 DEF Doomed
    <2>2. \A i \in 2 .. Len(stack') : stack'[i] \in D
      <3>1. \A i \in 2 .. n : stack[i] \in D /\ i \in 1 .. n
        BY <1>2, <1>9 DEF Doomed
      <3>2. QED BY <3>1, <1>10, <1>12, <1>13
    <2>3. \A x \in Proc : p_parent'[x] \in D \cup {Root'} => x \in D
      <3>1. NULL \notin D \cup {Root}
        BY <1>2, Kinds
      <3>2. \A x \in Proc : p_parent[x] \in D \cup {Root} => x \in D
        BY <1>9 DEF Doomed
      <3>3. QED BY <3>1, <3>2, <1>4, <1>12
    <2>4. Root' \notin D /\ p_parent'[Root'] \notin D \cup {Root'} /\ current_process' \notin D
      BY <1>1, <1>2, <1>4, <1>9, <1>10, <1>12 DEF Doomed
    <2>5. QED BY <2>1, <2>2, <2>3, <2>4 DEF Doomed
  <1>15. StackInv'
    <2>1. \A p \in ToSet(stack') : p \notin Members'["pcbFree"]
      <3>1. c \notin Members["pcbFree"]
        BY <1>2, <1>3, Kinds DEF BInv, TreeInv
      <3>2. QED BY <3>1, <1>2, <1>5, <1>12
    <2>2. \A i \in 2 .. Len(stack') : p_parent'[stack'[i]] = NULL
      <3>1. \A i \in 2 .. n : p_parent[stack[i]] = NULL /\ i \in 1 .. n
        BY <1>1, <1>2 DEF BInv, StackInv
      <3>2. QED BY <3>1, <1>2, <1>3, <1>4, <1>12, <1>13
    <2>3. p_parent'[Root'] = NULL => Root' \notin Members'["readyqueue"]
      BY <1>1, <1>2, <1>4, <1>5, <1>10, <1>12 DEF BInv, StackInv
    <2>4. current_process' # NULL
      BY <1>1 DEF BInv, StackInv
    <2>5. QED BY <2>1, <2>2, <2>3, <2>4, <1>9, <1>12, <1>14 DEF StackInv
  <1>16. Members'["pcbFree"] = Members["pcbFree"]
    BY <1>5
  <1>17. QED BY <1>16, <1>3, <1>5, <1>6, <1>7, <1>8, <1>15 DEF BInv

LEMMA LeaveSemaphoreStep ==
  ASSUME BInv, LeaveSemaphore
  PROVE  BInv' /\ Members'["pcbFree"] = Members["pcbFree"]
  <1> DEFINE n == Len(stack)
             s == p_cursem[Top]
             Leaves == Top # current_process /\ s # NULL
  <1>1. /\ stack # <<>> /\ hand = NULL /\ p_children[Top] = NULL /\ hand' = Top
        /\ IF Leaves THEN QueuesBecome(TakenOut(Top, s)) ELSE UNCHANGED queues
        /\ UNCHANGED <<tree, p_cursem, current_process, stack>>
    BY DEF LeaveSemaphore
  <1>2. /\ n \in Nat /\ n > 0 /\ Root = stack[1] /\ Top = stack[n] /\ Root \in Proc /\ Top \in Proc
        /\ Top \notin Members["pcbFree"] /\ Top # NULL
    BY <1>1, Calls, Kinds
  <1>3. Leaves => s \in Sem
    BY <1>2 DEF BInv, LocalType
  <1>4. /\ QueuesLinked'
        /\ \A l \in Queue :
             Members'[l] = IF Leaves /\ l = s THEN Members[l] \ {Top} ELSE Members[l]
    <2>1. CASE Leaves
      <3>1. QueuesLinked' /\ Members' = [Members EXCEPT ![s] = Members[s] \ {Top}]
        BY <2>1, <1>1, <1>2, <1>3, TakeOut, Kinds DEF BInv
      <3>2. QED BY <2>1, <3>1, MembersOf DEF BInv
    <2>2. CASE ~Leaves
      BY <2>2, <1>1, QueuesStay DEF BInv
    <2>3. QED BY <2>1, <2>2
  <1> HIDE DEF Leaves
  <1>5. \A l \in Queue : Members'[l] \subseteq Members[l]
    BY <1>4
  <1>6. Members'["readyqueue"] = Members["readyqueue"] /\ Members'["pcbFree"] = Members["pcbFree"]
    BY <1>3, <1>4, Kinds
  <1>7. TreeLinked' /\ LocalType'
    BY <1>1, <1>2, TreeStays DEF BInv, LocalType
  <1>8. PlaceInv'
    <2>1. \A x \in Proc : x \in {current_process, Top} \/ \E l \in Queue : x \in Members'[l]
      BY <1>1, <1>4, Kinds DEF BInv, PlaceInv
    <2>2. QED BY <2>1, <1>1, <1>5, Kinds DEF BInv, PlaceInv
  <1>9. TreeInv'
    BY <1>1, <1>6, TreeKept DEF BInv, tree
  <1>10. PICK D \in SUBSET Proc : Doomed(D)
    BY <1>1 DEF BInv, StackInv
  <1>11. HandInv'
    <2>1. Top' = Top /\ stack' # <<>>
      BY <1>1 DEF Top
    <2>2. Childless(Top)
      BY <1>1, <1>2, BroodIs DEF BInv
    <2>3. \A c \in Proc : p_parent'[c] # hand'
      BY <1>1, <2>2 DEF Childless, tree
    <2>4. ASSUME NEW l \in Queue, Top \in Members'[l]
          PROVE  l = "readyqueue" /\ n = 1 /\ p_parent[Top] # NULL
      <3>1. Top \in Members[l] /\ l # "pcbFree"
        BY <2>4, <1>2, <1>5
      <3>2. l \notin Sem
        <4>1. SUFFICES ASSUME l \in Sem PROVE FALSE
          OBVIOUS
        <4>2. s = l /\ Top # current_process /\ l # NULL
          <5>1. s = l /\ Top # current_process
            BY <3>1, <4>1 DEF BInv, PlaceInv
          <5>2. QED BY <5>1, <4>1, Kinds
        <4>3. QED BY <4>2, <2>4, <1>4 DEF Leaves
      <3>3. l = "readyqueue"
        BY <3>1, <3>2, Kinds
      <3>4. n = 1
        <4>1. n \in 2 .. n => Top \in D
          BY <1>2, <1>10 DEF Doomed
        <4>2. \A k \in Nat : k > 0 => k = 1 \/ k \in 2 .. k
          OBVIOUS
        <4>3. n = 1 \/ n \in 2 .. n
          BY <4>2, <1>2, Zenon
        <4>4. QED BY <4>1, <4>3, <3>1, <3>3, <1>10 DEF Doomed
      <3>5. Top = Root
        BY <3>4, <1>2
      <3>6. QED BY <3>1, <3>3, <3>4, <3>5, <1>1 DEF BInv, StackInv
    <2>5. QED BY <2>1, <2>3, <2>4, <1>1 DEF HandInv, Childless, tree
  <1>12. StackInv'
    <2>1. stack' = stack /\ Root' = Root /\ p_parent' = p_parent /\ current_process' = current_process
      BY <1>1 DEF Root, tree
    <2>2. Doomed(D)'
      BY <2>1, <1>6, <1>10 DEF Doomed
    <2>3. QED BY <2>1, <2>2, <1>1, <1>6 DEF BInv, StackInv
  <1>13. Members'["pcbFree"] = Members["pcbFree"]
    BY <1>6
  <1>14. QED BY <1>13, <1>4, <1>7, <1>8, <1>9, <1>11, <1>12 DEF BInv

LEMMA FreeChildStep ==
  ASSUME BInv, FreeChild
  PROVE  BInv' /\ Members'["pcbFree"] = Members["pcbFree"] \cup {hand}
  <1> DEFINE n == Len(stack)
             h == hand
  <1>1. /\ h # NULL /\ n > 1 /\ QueuesBecome(Q!Enqueued(h, "pcbFree")) /\ stack' = Front(stack)
        /\ hand' = NULL /\ UNCHANGED <<tree, p_cursem, current_process>>
    BY DEF FreeChild
  <1>2. stack # <<>>
    BY <1>1
  <1>3. /\ n \in Nat /\ n > 0 /\ Root = stack[1] /\ Top = stack[n] /\ Root \in Proc /\ Top \in Proc
        /\ \A i \in 1 .. n : stack[i] \in Proc /\ stack[i] \in ToSet(stack)
        /\ \A i, j \in 1 .. n : stack[i] = stack[j] => i = j
        /\ \A p \in ToSet(stack) : p \notin Members["pcbFree"]
        /\ stack \in Seq(Proc)
    BY <1>2, Calls
  <1>4. h = Top /\ h \in Proc /\ Childless(h) /\ \A l \in Queue : h \notin Members[l]
    <2>1. n # 1
      BY <1>1, <1>3
    <2>2. QED BY <2>1, <1>1, <1>2, <1>3 DEF BInv, HandInv
  <1>5. PICK D \in SUBSET Proc : Doomed(D)
    BY <1>2 DEF BInv, StackInv
  <1>6. h \in D /\ p_parent[h] = NULL /\ h # current_process
    <2>1. n \in 2 .. n
      BY <1>1, <1>3
    <2>2. QED BY <2>1, <1>2, <1>3, <1>4, <1>5 DEF Doomed, BInv, StackInv
  <1>7. QueuesLinked' /\ Members' = [Members EXCEPT !["pcbFree"] = Members["pcbFree"] \cup {h}]
    BY <1>1, <1>4, PutOn, Kinds DEF BInv
  <1>8. \A l \in Queue : Members'[l] = IF l = "pcbFree" THEN Members[l] \cup {h} ELSE Members[l]
    BY <1>7, MembersOf DEF BInv
  <1>9. /\ stack' \in Seq(Proc) /\ Len(stack') = n - 1 /\ DOMAIN stack' = 1 .. n - 1
        /\ \A i \in 1 .. n - 1 : stack'[i] = stack[i] /\ i \in 1 .. n /\ i # n
        /\ stack' # <<>> /\ 1 \in 1 .. n - 1 /\ Root' = Root
    <2>1. /\ stack' \in Seq(Proc) /\ Len(stack') = n - 1 /\ DOMAIN stack' = 1 .. n - 1
          /\ \A i \in 1 .. n - 1 : stack'[i] = stack[i]
          /\ stack' = <<>> <=> n = 1
      BY <1>1, <1>2, <1>3, FrontOf
    <2>2. n # 1 /\ 1 \in 1 .. n - 1 /\ \A i \in 1 .. n - 1 : i \in 1 .. n /\ i # n
      BY <1>1, <1>3
    <2>3. Head(stack') = stack'[1] /\ Head(stack) = stack[1]
      BY <1>2, <2>1, <2>2
    <2>4. QED BY <2>1, <2>2, <2>3 DEF Root
  <1>10. TreeLinked' /\ LocalType'
    BY <1>1, <1>9, TreeStays DEF BInv, LocalType
  <1>11. PlaceInv'
    <2>1. \A x \in Proc : x = current_process \/ \E l \in Queue : x \in Members'[l]
      BY <1>8, Kinds DEF BInv, PlaceInv
    <2>2. QED BY <2>1, <1>1, <1>6, <1>8, Kinds DEF BInv, PlaceInv
  <1>12. TreeInv'
    <2>1. p_parent' = p_parent
      BY <1>1 DEF tree
    <2>2. ASSUME NEW x \in Members'["pcbFree"] PROVE p_parent'[x] = NULL /\ Childless(x)'
      <3>1. x = hand \/ x \in Members["pcbFree"]
        BY <1>8, Kinds
      <3>2. p_parent[x] = NULL /\ Childless(x)
        BY <3>1, <1>4, <1>6, <1>8 DEF BInv, TreeInv
      <3>3. QED BY <2>1, <3>2 DEF Childless
    <2>3. Acyclic'
      BY <2>1 DEF BInv, TreeInv, Acyclic
    <2>4. QED BY <2>2, <2>3 DEF TreeInv
  <1>13. StackInv'
    <2>1. p_parent' = p_parent /\ current_process' = current_process
          /\ Members'["readyqueue"] = Members["readyqueue"]
      BY <1>1, <1>8, Kinds DEF tree
    <2>2. \A i \in 2 .. Len(stack') : i \in 2 .. n /\ stack'[i] = stack[i]
      BY <1>3, <1>9
    <2>3. Doomed(D)'
      BY <2>1, <2>2, <1>5, <1>9 DEF Doomed
    <2>4. IsInjective(stack')
      BY <1>3, <1>9 DEF IsInjective
    <2>5. \A p \in ToSet(stack') : p \notin Members'["pcbFree"]
      <3>1. \A i \in 1 .. n - 1 : stack'[i] \in ToSet(stack) /\ stack'[i] # h
        <4>1. n \in 1 .. n
          BY <1>3
        <4>2. QED BY <4>1, <1>3, <1>4, <1>9
      <3>2. \A p \in ToSet(stack') : p \in ToSet(stack) /\ p # h
        BY <3>1, <1>9 DEF ToSet
      <3>3. Members'["pcbFree"] = Members["pcbFree"] \cup {h}
        BY <1>8, Kinds
      <3>4. \A p \in ToSet(stack) : p \notin Members["pcbFree"]
        BY <1>3
      <3>5. QED BY <3>2, <3>3, <3>4, Zenon
    <2>6. QED BY <2>1, <2>2, <2>3, <2>4, <2>5, <1>2, <1>9 DEF BInv, StackInv
  <1>14. Members'["pcbFree"] = Members["pcbFree"] \cup {hand}
    BY <1>8, Kinds
  <1>15. QED BY <1>14, <1>1, <1>7, <1>10, <1>11, <1>12, <1>13, EmptyHand DEF BInv

LEMMA LeaveTreeStep ==
  ASSUME BInv, LeaveTree
  PROVE  BInv' /\ Members'["pcbFree"] = Members["pcbFree"]
  <1> DEFINE n == Len(stack)
             h == hand
  <1>1. /\ h # NULL /\ n = 1 /\ p_parent[h] # NULL
        /\ ChildrenBecome(Orphaned(h, p_parent[h])) /\ p_parent' = [p_parent EXCEPT ![h] = NULL]
        /\ QueuesBecome(TakenOut(h, "readyqueue"))
        /\ UNCHANGED <<p_cursem, current_process, hand, stack>>
    BY DEF LeaveTree
  <1>2. stack # <<>>
    BY <1>1
  <1>3. /\ h \in Proc /\ h = Root /\ h = Top /\ Childless(h)
        /\ \A l \in Queue : h \in Members[l] => l = "readyqueue"
    BY <1>1, <1>2, Calls DEF BInv, HandInv
  <1>4. TreeLinked'
    BY <1>1, <1>3, Orphan DEF BInv
  <1>5. QueuesLinked' /\ Members' = [Members EXCEPT !["readyqueue"] = Members["readyqueue"] \ {h}]
    BY <1>1, <1>3, TakeOut, Kinds DEF BInv
  <1>6. \A l \in Queue : Members'[l] = IF l = "readyqueue" THEN Members[l] \ {h} ELSE Members[l]
    BY <1>5, MembersOf DEF BInv
  <1>7. \A x \in Proc : p_parent'[x] = IF x = h THEN NULL ELSE p_parent[x]
    BY <1>1 DEF BInv, TreeLinked
  <1>8. LocalType'
    BY <1>1 DEF BInv, LocalType
  <1>9. PlaceInv'
    <2>1. \A x \in Proc : x \in {current_process, h} \/ \E l \in Queue : x \in Members'[l]
      BY <1>6, Kinds DEF BInv, PlaceInv
    <2>2. QED BY <2>1, <1>1, <1>6, Kinds DEF BInv, PlaceInv
  <1>10. TreeInv'
    <2>1. ASSUME NEW x \in Members'["pcbFree"] PROVE p_parent'[x] = NULL /\ Childless(x)'
      <3>1. x \in Proc /\ p_parent[x] = NULL /\ \A y \in Proc : p_parent[y] # x
        BY <2>1, <1>6, MembersOf, Kinds DEF BInv, TreeInv, Childless
      <3>2. QED BY <3>1, <1>7, Kinds DEF Childless
    <2>2. ASSUME NEW S \in SUBSET Proc, S # {} PROVE \E x \in S : p_parent'[x] \notin S
      <3>1. PICK x \in S : p_parent[x] \notin S
        BY <2>2 DEF BInv, TreeInv, Acyclic
      <3>2. QED BY <3>1, <1>7, Kinds
    <2>3. QED BY <2>1, <2>2 DEF TreeInv, Acyclic
  <1>11. \A l \in Queue : h \notin Members'[l]
    BY <1>3, <1>6
  <1>12. Top' = Top /\ Root' = Root /\ stack' = stack /\ hand' = h
    BY <1>1 DEF Top, Root
  <1>13. HandInv'
    <2>1. \A c \in Proc : p_parent'[c] # h
      BY <1>1, <1>3, <1>7 DEF Childless
    <2>2. QED BY <2>1, <1>2, <1>3, <1>11, <1>12 DEF HandInv, Childless
  <1>14. StackInv'
    <2>1. PICK D \in SUBSET Proc : Doomed(D)
      BY <1>2 DEF BInv, StackInv
    <2>2. NULL \notin D \cup {Root}
      BY <1>3, Kinds
    <2>3. \A x \in Proc : p_parent'[x] \in D \cup {Root'} => x \in D
      <3>1. \A x \in Proc : p_parent[x] \in D \cup {Root} => x \in D
        BY <2>1 DEF Doomed
      <3>2. QED BY <3>1, <2>2, <1>7, <1>12
    <2>4. Doomed(D)'
      <3>1. \A p \in D : p \notin Members'["readyqueue"]
        BY <2>1, <1>6, Kinds DEF Doomed
      <3>2. Root' \notin D /\ p_parent'[Root'] \notin D \cup {Root'}
        BY <2>1, <2>2, <1>3, <1>7, <1>12 DEF Doomed
      <3>3. QED BY <3>1, <3>2, <2>1, <2>3, <1>1, <1>12 DEF Doomed
    <2>5. \A i \in 2 .. Len(stack') : FALSE
      <3>1. Len(stack') = 1
        BY <1>1, <1>12
      <3>2. QED BY <3>1
    <2>6. \A p \in ToSet(stack') : p \notin Members'["pcbFree"]
      BY <1>2, <1>6, <1>12, Kinds DEF BInv, StackInv
    <2>7. Root' \notin Members'["readyqueue"]
      BY <1>3, <1>11, <1>12, Kinds
    <2>8. QED BY <2>4, <2>5, <2>6, <2>7, <1>1, <1>2, <1>12 DEF BInv, StackInv
  <1>15. Members'["pcbFree"] = Members["pcbFree"]
    BY <1>6, Kinds
  <1>16. QED BY <1>15, <1>4, <1>5, <1>8, <1>9, <1>10, <1>13, <1>14 DEF BInv

LEMMA FreeTargetStep ==
  ASSUME BInv, FreeTarget
  PROVE  BInv' /\ Members'["pcbFree"] = Members["pcbFree"] \cup {hand}
  <1> DEFINE h == hand
  <1>1. /\ h # NULL /\ Len(stack) = 1 /\ p_parent[h] = NULL
        /\ QueuesBecome(Q!Enqueued(h, "pcbFree")) /\ stack' = <<>> /\ hand' = NULL
        /\ current_process' = IF h = current_process THEN NULL ELSE current_process
        /\ UNCHANGED <<tree, p_cursem>>
    BY DEF FreeTarget
  <1>2. stack # <<>>
    BY <1>1
  <1>3. h \in Proc /\ Childless(h) /\ \A l \in Queue : h \notin Members[l]
    BY <1>1, <1>2 DEF BInv, HandInv, LocalType
  <1>4. QueuesLinked' /\ Members' = [Members EXCEPT !["pcbFree"] = Members["pcbFree"] \cup {h}]
    BY <1>1, <1>3, PutOn, Kinds DEF BInv
  <1>5. \A l \in Queue : Members'[l] = IF l = "pcbFree" THEN Members[l] \cup {h} ELSE Members[l]
    BY <1>4, MembersOf DEF BInv
  <1>6. TreeLinked' /\ LocalType'
    BY <1>1, TreeStays DEF BInv, LocalType
  <1>7. PlaceInv'
    <2>1. \A l \in Queue : current_process' \notin Members'[l]
      <3>1. \A l \in Queue : NULL \notin Members'[l]
        BY <1>3, <1>5, MembersOf, Kinds DEF BInv
      <3>2. \A l \in Queue : current_process \notin Members[l]
        BY DEF BInv, PlaceInv
      <3>3. QED BY <3>1, <3>2, <1>1, <1>5
    <2>2. \A x \in Proc : x \in {current_process', hand'} \/ \E l \in Queue : x \in Members'[l]
      <3>1. ASSUME NEW x \in Proc, x # h
            PROVE x = current_process \/ \E l \in Queue : x \in Members'[l]
        BY <3>1, <1>5, Kinds DEF BInv, PlaceInv
      <3>2. h \in Members'["pcbFree"]
        BY <1>5, Kinds
      <3>3. QED BY <3>1, <3>2, <1>1, Kinds
    <2>3. QED BY <2>1, <2>2, <1>1, <1>5, Kinds DEF BInv, PlaceInv
  <1>8. TreeInv'
    <2>1. p_parent' = p_parent
      BY <1>1 DEF tree
    <2>2. ASSUME NEW x \in Members'["pcbFree"] PROVE p_parent'[x] = NULL /\ Childless(x)'
      <3>1. x = hand \/ x \in Members["pcbFree"]
        BY <1>5, Kinds
      <3>2. p_parent[x] = NULL /\ Childless(x)
        BY <3>1, <1>1, <1>3, <1>5 DEF BInv, TreeInv
      <3>3. QED BY <2>1, <3>2 DEF Childless
    <2>3. Acyclic'
      BY <2>1 DEF BInv, TreeInv, Acyclic
    <2>4. QED BY <2>2, <2>3 DEF TreeInv
  <1>9. Members'["pcbFree"] = Members["pcbFree"] \cup {hand}
    BY <1>5, Kinds
  <1>10. QED BY <1>9, <1>1, <1>4, <1>6, <1>7, <1>8, NoTermination, EmptyHand DEF BInv

-----------------------------------------------------------------------------
(* The theorems *)

LEMMA StutterStep ==
  ASSUME BInv, UNCHANGED vars
  PROVE  BInv' /\ Members'["pcbFree"] = Members["pcbFree"]
  <1>1. UNCHANGED <<queues, tree, p_cursem, current_process, hand, stack>>
    BY DEF vars
  <1>2. QueuesLinked' /\ Members' = Members /\ TreeLinked'
    BY <1>1, QueuesStay, TreeStays DEF BInv
  <1>3. p_parent' = p_parent
    BY <1>1 DEF tree
  <1>4. LocalType' /\ PlaceInv' /\ TreeInv'
    BY <1>1, <1>2, <1>3 DEF BInv, LocalType, PlaceInv, TreeInv, Childless, Acyclic
  <1>5. Top' = Top /\ Root' = Root /\ stack' = stack /\ hand' = hand
        /\ current_process' = current_process
    BY <1>1 DEF Top, Root
  <1>6. HandInv'
    BY <1>2, <1>3, <1>5 DEF BInv, HandInv, Childless
  <1>7. StackInv'
    BY <1>2, <1>3, <1>5 DEF BInv, StackInv, Doomed
  <1>8. Members'["pcbFree"] = Members["pcbFree"]
    BY <1>2
  <1>9. QED BY <1>8, <1>2, <1>4, <1>6, <1>7 DEF BInv

LEMMA NextBInv ==
  ASSUME ~KillReady, BInv, [Next]_vars
  PROVE  BInv'
  <1>1. CASE MakeReady
    BY <1>1, MakeReadyStep
  <1>2. CASE RemoveChild
    BY <1>2, RemoveChildStep
  <1>3. CASE LeaveSemaphore
    BY <1>3, LeaveSemaphoreStep
  <1>4. CASE FreeChild
    BY <1>4, FreeChildStep
  <1>5. CASE LeaveTree
    BY <1>5, LeaveTreeStep
  <1>6. CASE FreeTarget
    BY <1>6, FreeTargetStep
  <1>7. CASE CreateProcess
    BY <1>7, CreateStep
  <1>8. CASE Preempt
    BY <1>8, PreemptStep
  <1>9. CASE Dispatch
    BY <1>9, DispatchStep
  <1>10. CASE Idle
    BY <1>10, StutterStep DEF Idle
  <1>11. ASSUME NEW s \in Sem, Block(s) PROVE BInv'
    BY <1>11, BlockStep
  <1>12. ASSUME NEW s \in Sem, Release(s) PROVE BInv'
    BY <1>12, ReleaseStep
  <1>13. ASSUME NEW r \in Proc, TerminateProcess(r) PROVE BInv'
    BY <1>13, TerminateProcessStep
  <1>14. CASE UNCHANGED vars
    BY <1>14, StutterStep
  <1>15. QED BY <1>1, <1>2, <1>3, <1>4, <1>5, <1>6, <1>7, <1>8, <1>9, <1>10, <1>11, <1>12, <1>13,
                <1>14 DEF Next, Step

\* The inductive invariant, where no descendant on the ready queue is
\* terminated: kill_ready.cfg shows that it is needed.
THEOREM PcbInvariant ==
  ASSUME ~KillReady
  PROVE  Spec => []BInv
  <1>1. BInv /\ [Next]_vars => BInv'
    BY NextBInv
  <1>2. QED BY <1>1, InitBInv, PTL DEF Spec

\* Links and pointers point to ProcBlks, and termination never works on a
\* ProcBlk that is already free.
THEOREM PcbTyped ==
  ASSUME ~KillReady
  PROVE  Spec => []TypeOK
  <1>1. BInv => TypeOK
    <2>1. SUFFICES ASSUME BInv PROVE TypeOK
      OBVIOUS
    <2>2. p_list \in [Proc -> Proc \cup {NULL}] /\ tail \in [Queue -> Proc \cup {NULL}]
      BY <2>1, QueueAssumption DEF BInv, QueuesLinked, QP!Shape
    <2>3. p_siblings \in [Proc -> Proc \cup {NULL}] /\ p_children \in [Proc -> Proc \cup {NULL}]
          /\ p_parent \in [Proc -> Proc \cup {NULL}]
      BY <2>1, ChildAssumption DEF BInv, TreeLinked, CP!Shape
    <2>4. ToSet(stack) \subseteq Live
      <3>1. Q!Ring("pcbFree") = Members["pcbFree"]
        BY <2>1, QueueIs, Kinds DEF BInv
      <3>2. stack \in Seq(Proc)
        BY <2>1 DEF BInv, LocalType
      <3>3. ToSet(stack) \subseteq Proc
        BY <3>2, ElementsOf
      <3>4. stack = <<>> => ToSet(stack) = {}
        BY <3>2, ElementsOf
      <3>5. stack # <<>> => \A p \in ToSet(stack) : p \notin Members["pcbFree"]
        BY <2>1 DEF BInv, StackInv
      <3>6. QED BY <3>1, <3>3, <3>4, <3>5 DEF Live
    <2>5. QED BY <2>1, <2>2, <2>3, <2>4 DEF BInv, LocalType, TypeOK
  <1>2. QED BY <1>1, PcbInvariant, PTL

\* The queues that share p_list stay apart, and every ProcBlk is on exactly
\* one of them, or running, or in the hands of the nucleus.
THEOREM QueuesStayApart ==
  ASSUME ~KillReady
  PROVE  Spec => []QueuesApart
  <1>1. BInv => QueuesApart
    <2>1. SUFFICES ASSUME BInv PROVE QueuesApart
      OBVIOUS
    <2>2. \A l \in Queue : Q!Ring(l) = Members[l] /\ (tail[l] # NULL => tail[l] \in Members[l])
      BY <2>1, QueueIs DEF BInv
    <2>3. \A l, m \in Queue : l # m => Members[l] \cap Members[m] = {}
      BY <2>1, MembersOf DEF BInv
    <2>4. QED BY <2>1, <2>2, <2>3 DEF BInv, PlaceInv, QueuesApart
  <1>2. QED BY <1>1, PcbInvariant, PTL

\* p_parent and the lists of children say the same, and a free ProcBlk has
\* neither parent nor children.
THEOREM TreeAgrees ==
  ASSUME ~KillReady
  PROVE  Spec => []TreeConsistent
  <1>1. BInv => TreeConsistent
    <2>1. SUFFICES ASSUME BInv PROVE TreeConsistent
      OBVIOUS
    <2>2. \A p \in Proc :
            /\ p_children[p] # NULL => p_children[p] \in C!Ring(p)
            /\ p_children[p] = NULL <=> Childless(p)
            /\ \A c \in Proc : p_parent[c] = p <=> c \in C!Ring(p)
      BY <2>1, BroodIs DEF BInv
    <2>3. Proc \ Live = Members["pcbFree"]
      BY <2>1, QueueIs, Kinds DEF BInv, Live
    <2>4. \A p \in Proc \ Live : p_parent[p] = NULL /\ p_children[p] = NULL
      BY <2>1, <2>2, <2>3 DEF BInv, TreeInv
    <2>5. QED BY <2>2, <2>4 DEF TreeConsistent
  <1>2. QED BY <1>1, PcbInvariant, PTL

-----------------------------------------------------------------------------
(* The refinement of ProcTree *)

\* Parent, for links f and calls s.
ParentOf(f, s) == [p \in Proc |->
  IF \E i \in 2 .. Len(s) : s[i] = p
  THEN s[(CHOOSE i \in 2 .. Len(s) : s[i] = p) - 1]
  ELSE f[p]]

LEMMA ParentIs ==
  ASSUME NEW f, NEW s \in Seq(Proc), IsInjective(s)
  PROVE  /\ \A i \in 2 .. Len(s) : ParentOf(f, s)[s[i]] = s[i - 1]
         /\ \A p \in Proc : (\A i \in 2 .. Len(s) : s[i] # p) => ParentOf(f, s)[p] = f[p]
         /\ ParentOf(f, s) = [p \in Proc |-> ParentOf(f, s)[p]]
  <1>1. Len(s) \in Nat /\ DOMAIN s = 1 .. Len(s) /\ \A i \in 1 .. Len(s) : s[i] \in Proc
    BY LenProperties, ElementOfSeq
  <1>2. ASSUME NEW i \in 2 .. Len(s) PROVE ParentOf(f, s)[s[i]] = s[i - 1]
    <2>1. i \in 1 .. Len(s) /\ s[i] \in Proc
      BY <1>1
    <2>2. \A j \in 2 .. Len(s) : s[j] = s[i] => j = i
      <3>1. \A j \in 2 .. Len(s) : j \in 1 .. Len(s)
        BY <1>1
      <3>2. QED BY <3>1, <2>1, <1>1 DEF IsInjective
    <2>3. (CHOOSE j \in 2 .. Len(s) : s[j] = s[i]) = i
      BY <2>2
    <2>4. QED BY <2>1, <2>3 DEF ParentOf
  <1>3. \A p \in Proc : (\A i \in 2 .. Len(s) : s[i] # p) => ParentOf(f, s)[p] = f[p]
    BY DEF ParentOf
  <1>4. ParentOf(f, s) = [p \in Proc |-> ParentOf(f, s)[p]]
    BY DEF ParentOf
  <1>5. QED BY <1>2, <1>3, <1>4

LEMMA ParentNow == Parent = ParentOf(p_parent, stack) /\ Parent' = ParentOf(p_parent', stack')
  BY DEF Parent, ParentOf

\* Without a call of terminate_children, it is p_parent.
LEMMA ParentOutside ==
  ASSUME NEW f \in [Proc -> Proc \cup {NULL}], NEW s, s = <<>> \/ Len(s) = 1
  PROVE  ParentOf(f, s) = f
  <1>1. Len(s) = 0 \/ Len(s) = 1
    OBVIOUS
  <1>2. \A i \in 2 .. Len(s) : FALSE
    <2>1. (\A i \in 2 .. 0 : FALSE) /\ \A i \in 2 .. 1 : FALSE
      OBVIOUS
    <2>2. QED BY <1>1, <2>1, Zenon
  <1>3. QED BY <1>2 DEF ParentOf

LEMMA LiveIs ==
  ASSUME QueuesLinked
  PROVE  Live = Proc \ Members["pcbFree"]
  BY QueueIs, Kinds DEF Live

LEMMA LiveThen ==
  ASSUME QueuesLinked'
  PROVE  Live' = Proc \ Members'["pcbFree"]
  <1>1. PICK r : r = Line' /\ QP!Shape(p_list', tail', r)
    BY DEF QueuesLinked
  <1>2. QP!Ring("pcbFree")' = ToSet(r["pcbFree"])
    BY <1>1, QueueAssumption, QP!QueueThen, SameSets, Kinds
  <1>3. Q!Ring("pcbFree")' = ToSet(r["pcbFree"])
    BY <1>2 DEF QP!Ring, Q!Ring, QP!Walk, Q!Walk, QP!First, Q!First, QP!Range, Q!Range
  <1>4. Members'["pcbFree"] = ToSet(r["pcbFree"])
    BY <1>1, Kinds DEF Members
  <1>5. QED BY <1>3, <1>4 DEF Live

Target == IF stack = <<>> THEN NULL ELSE Root

\* What the abstract state is before and after a step.
LEMMA Before ==
  ASSUME BInv
  PROVE  /\ Live = Proc \ Members["pcbFree"] /\ Members["pcbFree"] \subseteq Proc
         /\ p_parent \in [Proc -> Proc \cup {NULL}] /\ stack \in Seq(Proc) /\ IsInjective(stack)
         /\ stack = <<>> \/ Len(stack) = 1 => Parent = p_parent
         /\ \A p \in Proc : p_parent[p] # NULL => p \in Live
         /\ \A l \in Queue : l # "pcbFree" => Members[l] \subseteq Live
         /\ current_process # NULL => current_process \in Live
  <1>1. Live = Proc \ Members["pcbFree"] /\ Members["pcbFree"] \subseteq Proc
    BY LiveIs, MembersOf, Kinds DEF BInv
  <1>2. p_parent \in [Proc -> Proc \cup {NULL}] /\ stack \in Seq(Proc)
    BY DEF BInv, TreeLinked, LocalType
  <1>3. IsInjective(stack)
    <2>1. stack = <<>> => IsInjective(stack)
      BY DEF IsInjective
    <2>2. QED BY <2>1 DEF BInv, StackInv
  <1>4. stack = <<>> \/ Len(stack) = 1 => Parent = p_parent
    BY <1>2, ParentNow, ParentOutside
  <1>5. \A p \in Proc : p_parent[p] # NULL => p \in Live
    BY <1>1 DEF BInv, TreeInv
  <1>6. \A l \in Queue : l # "pcbFree" => Members[l] \subseteq Live
    BY <1>1, MembersOf, Kinds DEF BInv
  <1>7. current_process # NULL => current_process \in Live
    BY <1>1, Kinds DEF BInv, LocalType, PlaceInv
  <1>8. QED BY <1>1, <1>2, <1>3, <1>4, <1>5, <1>6, <1>7

LEMMA After ==
  ASSUME BInv'
  PROVE  /\ Live' = Proc \ Members'["pcbFree"]
         /\ p_parent' \in [Proc -> Proc \cup {NULL}] /\ stack' \in Seq(Proc) /\ IsInjective(stack')
         /\ stack' = <<>> \/ Len(stack') = 1 => Parent' = p_parent'
  <1>1. Live' = Proc \ Members'["pcbFree"]
    BY LiveThen DEF BInv
  <1>2. p_parent' \in [Proc -> Proc \cup {NULL}] /\ stack' \in Seq(Proc)
    BY DEF BInv, TreeLinked, LocalType
  <1>3. IsInjective(stack')
    <2>1. stack' = <<>> => IsInjective(stack')
      BY DEF IsInjective
    <2>2. QED BY <2>1 DEF BInv, StackInv
  <1>4. stack' = <<>> \/ Len(stack') = 1 => Parent' = p_parent'
    BY <1>2, ParentNow, ParentOutside
  <1>5. QED BY <1>1, <1>2, <1>3, <1>4

LEMMA InitRefines == Init => Tree!Init
  <1>1. SUFFICES ASSUME Init PROVE Tree!Init
    OBVIOUS
  <1>2. BInv
    BY <1>1, InitBInv
  <1>3. /\ p_parent = [p \in Proc |-> NULL] /\ current_process = 1 /\ stack = <<>> /\ hand = NULL
        /\ tail = [l \in Queue |-> IF l = "pcbFree" /\ MAXPROC > 1 THEN MAXPROC ELSE NULL]
    BY <1>1 DEF Init
  <1>4. Parent = [p \in Proc |-> NULL]
    BY <1>2, <1>3, Before
  <1>5. Live = {1}
    <2>1. 1 \in Live
      BY <1>2, <1>3, Before, Kinds
    <2>2. ASSUME NEW x \in Proc, x # 1 PROVE x \in Members["pcbFree"]
      <3>1. PICK l \in Queue : x \in Members[l]
        BY <1>2, <1>3, <2>2, Kinds DEF BInv, PlaceInv
      <3>2. tail[l] # NULL
        BY <3>1, <1>2, QueueIs DEF BInv
      <3>3. QED BY <3>1, <3>2, <1>3
    <2>3. QED BY <2>1, <2>2, <1>2, Before
  <1>6. QED BY <1>3, <1>4, <1>5, Kinds DEF Tree!Init

LEMMA CreateRefines ==
  ASSUME BInv, CreateProcess
  PROVE  Tree!Create
  <1> DEFINE p == Q!First("pcbFree")
  <1>1. BInv' /\ Members'["pcbFree"] = Members["pcbFree"] \ {p}
    BY CreateStep
  <1>2. /\ current_process # NULL /\ stack = <<>> /\ stack' = <<>> /\ tail["pcbFree"] # NULL
        /\ p_parent' = [p_parent EXCEPT ![p] = current_process]
        /\ UNCHANGED <<current_process, stack>>
    BY DEF CreateProcess, Running
  <1>3. p \in Members["pcbFree"]
    BY <1>2, QueueIs, Kinds DEF BInv
  <1> HIDE DEF p
  <1>4. p \in Proc \ Live /\ Live' = Live \cup {p}
    BY <1>1, <1>3, Before, After
  <1>5. Parent' = [Parent EXCEPT ![p] = current_process]
    BY <1>1, <1>2, Before, After
  <1>6. QED BY <1>2, <1>4, <1>5 DEF Tree!Create

\* A step outside of a termination, of which the tree sees at most who runs.
LEMMA SwitchRefines ==
  ASSUME BInv, BInv', Members'["pcbFree"] = Members["pcbFree"], UNCHANGED <<p_parent, stack>>,
         stack = <<>>, current_process' \in Live \cup {NULL}
  PROVE  Tree!Switch
  <1>1. Live' = Live /\ Parent' = Parent
    BY Before, After
  <1>2. QED BY <1>1 DEF Tree!Switch

\* A step of which the tree sees nothing.
LEMMA HiddenStep ==
  ASSUME BInv, BInv', Members'["pcbFree"] = Members["pcbFree"], Parent' = Parent,
         Target' = Target, UNCHANGED current_process
  PROVE  UNCHANGED Tree!vars
  <1>1. Live' = Live
    BY Before, After
  <1>2. QED BY <1>1 DEF Tree!vars, Target

LEMMA TerminateRefines ==
  ASSUME BInv, ~KillReady, NEW r \in Proc, TerminateProcess(r)
  PROVE  Tree!Terminate
  <1>1. BInv' /\ Members'["pcbFree"] = Members["pcbFree"]
    BY TerminateProcessStep
  <1>2. /\ current_process # NULL /\ stack = <<>> /\ stack' = <<r>> /\ r \in Progeny(current_process)
        /\ UNCHANGED <<p_parent, current_process>>
    BY DEF TerminateProcess, Running, tree
  <1>3. Len(stack') = 1 /\ Head(stack') = r /\ stack' # <<>>
    BY <1>2
  <1>4. Live' = Live /\ Parent' = Parent /\ Parent = p_parent
    BY <1>1, <1>2, <1>3, Before, After
  <1>5. current_process \in Live /\ current_process \in Proc
    BY <1>2, Before
  <1>6. r \in Live
    <2>1. r # current_process => p_parent[r] \in Progeny(current_process)
      BY <1>2, <1>5, ProgenyIs
    <2>2. r # current_process => p_parent[r] # NULL
      BY <2>1, <1>5, ProgenyIs, Kinds
    <2>3. QED BY <2>2, <1>5, Before
  <1>7. r \in Tree!Progeny(current_process)
    <2>1. SUFFICES ASSUME NEW S \in SUBSET Live, current_process \in S, Tree!Closed(S)
                   PROVE  r \in S
      BY <1>6 DEF Tree!Progeny
    <2>2. S \in SUBSET Proc
      BY Before
    <2>3. ASSUME NEW q \in Proc, p_parent[q] \in S PROVE q \in S
      <3>1. q \in Live
        BY <2>2, <2>3, Before, Kinds
      <3>2. QED BY <2>1, <2>3, <3>1, <1>4 DEF Tree!Closed, Tree!Below
    <2>4. QED BY <2>1, <2>2, <2>3, <1>2 DEF Progeny, Closed
  <1>8. Target = NULL /\ Target' = r
    BY <1>2, <1>3 DEF Target, Root
  <1>9. QED BY <1>2, <1>4, <1>7, <1>8 DEF Tree!Terminate, Target

LEMMA RemoveChildHidden ==
  ASSUME BInv, RemoveChild
  PROVE  UNCHANGED Tree!vars
  <1> DEFINE c == C!First(Top)
             n == Len(stack)
  <1>1. BInv' /\ Members'["pcbFree"] = Members["pcbFree"]
    BY RemoveChildStep
  <1>2. /\ stack # <<>> /\ p_children[Top] # NULL /\ stack' = Append(stack, c)
        /\ p_parent' = [p_parent EXCEPT ![c] = NULL] /\ UNCHANGED current_process
    BY DEF RemoveChild
  <1>3. /\ n \in Nat /\ n > 0 /\ Top = stack[n] /\ Top \in Proc /\ stack \in Seq(Proc)
        /\ Root = stack[1] /\ \A i \in 1 .. n : stack[i] \in Proc
    BY <1>2, Calls
  <1>4. c \in Proc /\ p_parent[c] = Top /\ c # NULL
    BY <1>2, <1>3, BroodIs, Kinds DEF BInv
  <1> HIDE DEF c
  <1>5. /\ Len(stack') = n + 1 /\ stack'[n + 1] = c /\ \A i \in 1 .. n : stack'[i] = stack[i]
        /\ stack' # <<>>
    BY <1>2, <1>3, <1>4, AppendProperties
  <1>6. \A x \in Proc : p_parent'[x] = IF x = c THEN NULL ELSE p_parent[x]
    BY <1>2 DEF BInv, TreeLinked
  <1>7. /\ \A i \in 2 .. n : Parent[stack[i]] = stack[i - 1]
        /\ \A p \in Proc : (\A i \in 2 .. n : stack[i] # p) => Parent[p] = p_parent[p]
        /\ Parent = [p \in Proc |-> Parent[p]]
    BY Before, ParentIs, ParentNow
  <1>8. /\ \A i \in 2 .. n + 1 : Parent'[stack'[i]] = stack'[i - 1]
        /\ \A p \in Proc : (\A i \in 2 .. n + 1 : stack'[i] # p) => Parent'[p] = p_parent'[p]
        /\ Parent' = [p \in Proc |-> Parent'[p]]
    <2>1. /\ \A i \in 2 .. Len(stack') : Parent'[stack'[i]] = stack'[i - 1]
          /\ \A p \in Proc : (\A i \in 2 .. Len(stack') : stack'[i] # p) => Parent'[p] = p_parent'[p]
          /\ Parent' = [p \in Proc |-> Parent'[p]]
      BY <1>1, After, ParentIs, ParentNow
    <2>2. Len(stack') = n + 1
      BY <1>5
    <2>3. QED BY <2>1, <2>2, Zenon
  <1>9. \A i \in 2 .. n + 1 : i \in 2 .. n \/ i = n + 1
    BY <1>3
  <1>10. \A i \in 2 .. n : i \in 2 .. n + 1 /\ i \in 1 .. n /\ i - 1 \in 1 .. n
    BY <1>3
  <1>11. n + 1 \in 2 .. n + 1 /\ (n + 1) - 1 = n /\ n \in 1 .. n
    BY <1>3
  <1>12. \A i \in 2 .. n : stack[i] # c
    <2>1. \A i \in 2 .. n : p_parent[stack[i]] = NULL
      BY <1>2 DEF BInv, StackInv
    <2>2. p_parent[c] # NULL
      BY <1>3, <1>4, Kinds
    <2>3. QED BY <2>1, <2>2, Zenon
  <1>13. ASSUME NEW p \in Proc PROVE Parent'[p] = Parent[p]
    <2>1. CASE p = c
      <3>1. Parent'[c] = Top
        BY <1>3, <1>5, <1>8, <1>11
      <3>2. Parent[c] = Top
        BY <1>4, <1>7, <1>12
      <3>3. QED BY <3>1, <3>2, <2>1
    <2>2. CASE \E i \in 2 .. n : stack[i] = p
      <3>1. PICK i \in 2 .. n : stack[i] = p
        BY <2>2
      <3>2. Parent[p] = stack[i - 1]
        BY <3>1, <1>7
      <3>3. Parent'[p] = stack[i - 1]
        BY <3>1, <1>5, <1>8, <1>10
      <3>4. QED BY <3>2, <3>3
    <2>3. CASE p # c /\ \A i \in 2 .. n : stack[i] # p
      <3>1. Parent[p] = p_parent[p]
        BY <2>3, <1>7
      <3>2. \A i \in 2 .. n + 1 : stack'[i] # p
        BY <2>3, <1>5, <1>9, <1>10
      <3>3. Parent'[p] = p_parent'[p]
        BY <3>2, <1>8
      <3>4. QED BY <2>3, <3>1, <3>3, <1>6
    <2>4. QED BY <2>1, <2>2, <2>3
  <1>14. Parent' = Parent
    BY <1>7, <1>8, <1>13
  <1>15. Target' = Target
    <2>1. Head(stack') = stack'[1] /\ 1 \in 1 .. n
      BY <1>3, <1>5
    <2>2. QED BY <2>1, <1>2, <1>3, <1>5 DEF Target, Root
  <1>16. QED BY <1>1, <1>2, <1>14, <1>15, HiddenStep

\* The calls in progress hang below the target.
LEMMA CallsBelow ==
  ASSUME BInv, stack # <<>>, NEW S \in SUBSET Live, Root \in S, Tree!Closed(S),
         NEW i \in 1 .. Len(stack)
  PROVE  stack[i] \in S
  <1> DEFINE n == Len(stack)
             Lost == {k \in Nat : k \in 1 .. n /\ stack[k] \notin S}
  <1>1. SUFFICES ASSUME Lost # {} PROVE FALSE
    <2>1. n \in Nat
      BY Calls
    <2>2. i \in Nat
      BY <2>1
    <2>3. QED BY <2>2
  <1>2. PICK k \in Lost : \A j \in Lost : k <= j
    <2>1. Lost \in SUBSET Nat
      OBVIOUS
    <2> HIDE DEF Lost
    <2>2. QED BY <2>1, <1>1, LeastElement
  <1>3. /\ n \in Nat /\ Root = stack[1] /\ \A j \in 1 .. n : stack[j] \in Proc /\ stack[j] \in ToSet(stack)
        /\ \A p \in ToSet(stack) : p \notin Members["pcbFree"]
    BY Calls
  <1>4. k \in Nat /\ k \in 1 .. n /\ stack[k] \notin S /\ k # 1
    BY <1>2, <1>3
  <1>5. k - 1 \in Nat /\ k - 1 \in 1 .. n /\ k \in 2 .. n /\ ~(k <= k - 1)
    BY <1>3, <1>4
  <1>6. stack[k - 1] \in S
    BY <1>2, <1>5
  <1>7. Parent[stack[k]] = stack[k - 1]
    BY <1>5, Before, ParentIs, ParentNow
  <1>8. stack[k] \in Live
    BY <1>3, <1>4, Before
  <1>9. QED BY <1>4, <1>6, <1>7, <1>8 DEF Tree!Closed, Tree!Below

LEMMA FreeChildRefines ==
  ASSUME BInv, FreeChild
  PROVE  Tree!Die
  <1> DEFINE n == Len(stack)
             h == hand
  <1>1. BInv' /\ Members'["pcbFree"] = Members["pcbFree"] \cup {h}
    BY FreeChildStep
  <1>2. /\ h # NULL /\ n > 1 /\ stack' = Front(stack) /\ stack # <<>>
        /\ UNCHANGED <<p_parent, current_process>>
    BY DEF FreeChild, tree
  <1>3. /\ n \in Nat /\ n > 0 /\ Root = stack[1] /\ Top = stack[n] /\ Root \in Proc /\ Top \in Proc
        /\ \A i \in 1 .. n : stack[i] \in Proc /\ stack[i] \in ToSet(stack)
        /\ \A i, j \in 1 .. n : stack[i] = stack[j] => i = j
        /\ \A p \in ToSet(stack) : p \notin Members["pcbFree"]
        /\ stack \in Seq(Proc) /\ Top \in ToSet(stack)
    BY <1>2, Calls
  <1>4. h = Top /\ Childless(h) /\ h \in Proc
    BY <1>2, <1>3 DEF BInv, HandInv
  <1>5. n \in 2 .. n /\ n \in 1 .. n /\ 1 \in 1 .. n /\ n # 1
    BY <1>2, <1>3
  <1>6. PICK D \in SUBSET Proc : Doomed(D)
    BY <1>2 DEF BInv, StackInv
  <1>7. h # current_process /\ p_parent[h] = NULL /\ h # Root
    BY <1>2, <1>3, <1>4, <1>5, <1>6 DEF Doomed, BInv, StackInv
  <1>8. h \in Live /\ Live' = Live \ {h}
    BY <1>1, <1>3, <1>4, Before, After
  <1>9. h \in Tree!Progeny(Root)
    <2>1. SUFFICES ASSUME NEW S \in SUBSET Live, Root \in S, Tree!Closed(S) PROVE h \in S
      BY <1>8 DEF Tree!Progeny
    <2>2. stack[n] \in S
      BY <2>1, <1>2, <1>5, CallsBelow
    <2>3. QED BY <2>2, <1>3, <1>4
  <1>10. /\ \A i \in 2 .. n : Parent[stack[i]] = stack[i - 1]
         /\ \A p \in Proc : (\A i \in 2 .. n : stack[i] # p) => Parent[p] = p_parent[p]
         /\ Parent = [p \in Proc |-> Parent[p]]
    BY Before, ParentIs, ParentNow
  <1>11. Tree!Below({h}) = {}
    <2>1. SUFFICES ASSUME NEW p \in Live, Parent[p] = h PROVE FALSE
      BY DEF Tree!Below
    <2>2. p \in Proc
      BY Before
    <2>3. CASE \A i \in 2 .. n : stack[i] # p
      BY <2>1, <2>2, <2>3, <1>4, <1>10 DEF Childless
    <2>4. CASE \E i \in 2 .. n : stack[i] = p
      <3>1. PICK i \in 2 .. n : stack[i] = p
        BY <2>4
      <3>2. stack[i - 1] = stack[n]
        BY <3>1, <2>1, <1>3, <1>4, <1>10
      <3>3. i - 1 \in 1 .. n /\ i - 1 # n
        BY <1>3
      <3>4. QED BY <3>2, <3>3, <1>3, <1>5
    <2>5. QED BY <2>3, <2>4
  <1>12. /\ Len(stack') = n - 1 /\ stack' # <<>>
         /\ \A i \in 1 .. n - 1 : stack'[i] = stack[i] /\ i \in 1 .. n /\ i # n
         /\ 1 \in 1 .. n - 1
    <2>1. Len(stack') = n - 1 /\ (\A i \in 1 .. n - 1 : stack'[i] = stack[i])
          /\ (stack' = <<>> <=> n = 1)
      BY <1>2, <1>3, FrontOf
    <2>2. 1 \in 1 .. n - 1 /\ \A i \in 1 .. n - 1 : i \in 1 .. n /\ i # n
      BY <1>2, <1>3
    <2>3. QED BY <2>1, <2>2, <1>5
  <1>13. /\ \A i \in 2 .. n - 1 : Parent'[stack'[i]] = stack'[i - 1]
         /\ \A p \in Proc : (\A i \in 2 .. n - 1 : stack'[i] # p) => Parent'[p] = p_parent'[p]
         /\ Parent' = [p \in Proc |-> Parent'[p]]
    BY <1>1, <1>12, After, ParentIs, ParentNow
  <1>14. ASSUME NEW p \in Proc PROVE Parent'[p] = IF p = h THEN NULL ELSE Parent[p]
    <2>1. \A i \in 2 .. n - 1 : /\ i \in 1 .. n - 1 /\ i - 1 \in 1 .. n - 1 /\ i \in 2 .. n
                                /\ i \in 1 .. n /\ i # n
      BY <1>3
    <2>2. CASE p = h
      <3>1. \A i \in 2 .. n - 1 : stack'[i] # h
        BY <2>1, <1>3, <1>4, <1>5, <1>12
      <3>2. QED BY <2>2, <3>1, <1>2, <1>7, <1>13
    <2>3. CASE \E i \in 2 .. n - 1 : stack[i] = p
      <3>1. PICK i \in 2 .. n - 1 : stack[i] = p
        BY <2>3
      <3>2. Parent[p] = stack[i - 1] /\ p # h
        BY <3>1, <2>1, <1>3, <1>4, <1>5, <1>10
      <3>3. Parent'[p] = stack[i - 1]
        BY <3>1, <2>1, <1>12, <1>13
      <3>4. QED BY <3>2, <3>3
    <2>4. CASE p # h /\ \A i \in 2 .. n - 1 : stack[i] # p
      <3>1. \A i \in 2 .. n : i \in 2 .. n - 1 \/ i = n
        BY <1>3
      <3>2. \A i \in 2 .. n : stack[i] # p
        BY <2>4, <3>1, <1>3, <1>4
      <3>3. \A i \in 2 .. n - 1 : stack'[i] # p
        BY <2>1, <2>4, <1>12
      <3>4. QED BY <2>4, <3>2, <3>3, <1>2, <1>10, <1>13
    <2>5. QED BY <2>2, <2>3, <2>4
  <1>15. Parent' = [Parent EXCEPT ![h] = NULL]
    BY <1>10, <1>13, <1>14
  <1>16. Root' = Root
    <2>1. Head(stack') = stack'[1]
      BY <1>12
    <2>2. QED BY <2>1, <1>3, <1>12 DEF Root
  <1>17. Target = Root /\ Target' = Root /\ Root # NULL
    BY <1>2, <1>3, <1>12, <1>16, Kinds DEF Target
  <1>18. h \in Tree!Progeny(Target)
    BY <1>9, <1>17
  <1>19. Target # NULL /\ Target' = IF h = Target THEN NULL ELSE Target
    BY <1>7, <1>17
  <1>20. current_process' = IF h = current_process THEN NULL ELSE current_process
    BY <1>2, <1>7
  <1>21. QED BY <1>8, <1>11, <1>15, <1>18, <1>19, <1>20, Zenon DEF Tree!Die, Target

\* The end of a termination, where only the target is left.
LEMMA AtTheRoot ==
  ASSUME BInv, hand # NULL, Len(stack) = 1
  PROVE  /\ stack # <<>> /\ hand = Root /\ hand \in Proc /\ hand \in Live /\ Target = hand
         /\ Parent = p_parent
         /\ hand \in Tree!Progeny(hand) /\ Tree!Below({hand}) = {}
  <1>1. stack # <<>>
    OBVIOUS
  <1>2. hand = Root /\ hand \in Proc /\ Childless(hand) /\ hand \notin Members["pcbFree"]
    BY <1>1, Calls DEF BInv, HandInv
  <1>3. hand \in Live /\ Parent = p_parent /\ Live \subseteq Proc
    BY <1>2, Before
  <1>4. hand \in Tree!Progeny(hand)
    BY <1>3 DEF Tree!Progeny
  <1>5. Tree!Below({hand}) = {}
    BY <1>2, <1>3 DEF Tree!Below, Childless
  <1>6. QED BY <1>1, <1>2, <1>3, <1>4, <1>5 DEF Target

LEMMA LeaveTreeRefines ==
  ASSUME BInv, LeaveTree
  PROVE  Tree!Leave
  <1>1. BInv' /\ Members'["pcbFree"] = Members["pcbFree"]
    BY LeaveTreeStep
  <1>2. /\ hand # NULL /\ Len(stack) = 1 /\ p_parent' = [p_parent EXCEPT ![hand] = NULL]
        /\ UNCHANGED <<current_process, stack>>
    BY DEF LeaveTree
  <1>3. /\ Target = hand /\ Parent = p_parent /\ Tree!Below({hand}) = {}
    BY <1>2, AtTheRoot
  <1>4. Live' = Live /\ Parent' = p_parent'
    BY <1>1, <1>2, Before, After
  <1>5. Target' = Target
    BY <1>2 DEF Target, Root
  <1>6. QED BY <1>2, <1>3, <1>4, <1>5 DEF Tree!Leave, Target

LEMMA FreeTargetRefines ==
  ASSUME BInv, FreeTarget
  PROVE  Tree!Die
  <1>1. BInv' /\ Members'["pcbFree"] = Members["pcbFree"] \cup {hand}
    BY FreeTargetStep
  <1>2. /\ hand # NULL /\ Len(stack) = 1 /\ p_parent[hand] = NULL /\ stack' = <<>>
        /\ current_process' = IF hand = current_process THEN NULL ELSE current_process
        /\ UNCHANGED p_parent
    BY DEF FreeTarget, tree
  <1>3. /\ Target = hand /\ Parent = p_parent /\ Tree!Below({hand}) = {} /\ hand \in Live
        /\ hand \in Tree!Progeny(hand) /\ hand \in Proc
    BY <1>2, AtTheRoot
  <1>4. Live' = Live \ {hand} /\ Parent' = p_parent'
    BY <1>1, <1>2, <1>3, Before, After
  <1>5. p_parent' = [p_parent EXCEPT ![hand] = NULL]
    BY <1>2, Before
  <1>6. Target' = NULL
    BY <1>2 DEF Target
  <1>7. QED BY <1>2, <1>3, <1>4, <1>5, <1>6, Zenon DEF Tree!Die, Target

\* Every step is one of ProcTree or hidden.
LEMMA StepRefines ==
  ASSUME ~KillReady, BInv, [Next]_vars
  PROVE  Tree!Next \/ UNCHANGED Tree!vars
  <1>1. ASSUME BInv', Members'["pcbFree"] = Members["pcbFree"],
               UNCHANGED <<p_parent, stack, current_process>>
        PROVE  UNCHANGED Tree!vars
    <2>1. Parent' = Parent
      BY <1>1, ParentNow
    <2>2. Target' = Target
      BY <1>1 DEF Target, Root
    <2>3. QED BY <1>1, <2>1, <2>2, HiddenStep
  <1>2. CASE MakeReady
    BY <1>1, <1>2, MakeReadyStep DEF MakeReady, tree
  <1>3. CASE RemoveChild
    BY <1>3, RemoveChildHidden
  <1>4. CASE LeaveSemaphore
    BY <1>1, <1>4, LeaveSemaphoreStep DEF LeaveSemaphore, tree
  <1>5. CASE FreeChild
    BY <1>5, FreeChildRefines DEF Tree!Next
  <1>6. CASE LeaveTree
    BY <1>6, LeaveTreeRefines DEF Tree!Next
  <1>7. CASE FreeTarget
    BY <1>7, FreeTargetRefines DEF Tree!Next
  <1>8. CASE CreateProcess
    BY <1>8, CreateRefines DEF Tree!Next
  <1>9. CASE Preempt
    <2>1. BInv' /\ Members'["pcbFree"] = Members["pcbFree"]
      BY <1>9, PreemptStep
    <2>2. stack = <<>> /\ current_process' = NULL /\ UNCHANGED <<p_parent, stack>>
      BY <1>9 DEF Preempt, Running, tree
    <2>3. QED BY <2>1, <2>2, SwitchRefines DEF Tree!Next
  <1>10. CASE Dispatch
    <2>1. BInv' /\ Members'["pcbFree"] = Members["pcbFree"]
      BY <1>10, DispatchStep
    <2>2. /\ stack = <<>> /\ current_process' = Q!First("readyqueue") /\ UNCHANGED <<p_parent, stack>>
          /\ tail["readyqueue"] # NULL
      BY <1>10 DEF Dispatch, tree
    <2>3. current_process' \in Live
      BY <2>2, QueueIs, Before, Kinds DEF BInv
    <2>4. QED BY <2>1, <2>2, <2>3, SwitchRefines DEF Tree!Next
  <1>11. CASE Idle
    <2>1. UNCHANGED vars
      BY <1>11 DEF Idle
    <2>2. QED BY <2>1, <1>1, StutterStep DEF vars, tree
  <1>12. ASSUME NEW s \in Sem, Block(s) PROVE Tree!Next
    <2>1. BInv' /\ Members'["pcbFree"] = Members["pcbFree"]
      BY <1>12, BlockStep
    <2>2. stack = <<>> /\ current_process' = NULL /\ UNCHANGED <<p_parent, stack>>
      BY <1>12 DEF Block, Running, tree
    <2>3. QED BY <2>1, <2>2, SwitchRefines DEF Tree!Next
  <1>13. ASSUME NEW s \in Sem, Release(s) PROVE UNCHANGED Tree!vars
    BY <1>1, <1>13, ReleaseStep DEF Release, tree
  <1>14. ASSUME NEW r \in Proc, TerminateProcess(r) PROVE Tree!Next
    BY <1>14, TerminateRefines DEF Tree!Next
  <1>15. CASE UNCHANGED vars
    BY <1>1, <1>15, StutterStep DEF vars, tree
  <1>16. QED BY <1>2, <1>3, <1>4, <1>5, <1>6, <1>7, <1>8, <1>9, <1>10, <1>11, <1>12, <1>13, <1>14,
                <1>15 DEF Next, Step

\* The links implement a tree that termination takes apart leaf by leaf, and
\* of which it takes the target and its progeny, no more and no less.
THEOREM PcbImplements ==
  ASSUME ~KillReady
  PROVE  Spec => ImplementsTree
  <1>1. BInv /\ [Next]_vars => [Tree!Next]_(Tree!vars)
    BY StepRefines
  <1>2. QED BY <1>1, InitRefines, PcbInvariant, PTL DEF Spec, ImplementsTree, Tree!Spec

-----------------------------------------------------------------------------
(* Recursive termination is bounded *)

Hanging == {p \in Proc : p_parent[p] # NULL}

\* What is left to do: each hanging process takes a call, a return and a step
\* between them.
Work == 3 * Cardinality(Hanging) + 2 * Len(stack) + (IF hand = NULL THEN 1 ELSE 0)

\* terminate_children does not nest deeper than there are ProcBlks.
StackBounded == Len(stack) <= MAXPROC

WorkBounded == Work \in 0 .. 5 * MAXPROC + 1

\* While a termination is in progress nothing else happens, and each of its
\* steps does some of the work.
Shrinks == stack # <<>> => Step /\ Work' < Work

LEMMA HangingIs ==
  /\ IsFiniteSet(Hanging) /\ Cardinality(Hanging) \in Nat /\ Cardinality(Hanging) <= MAXPROC
  /\ MAXPROC \in Nat /\ IsFiniteSet(Proc) /\ Cardinality(Proc) = MAXPROC
  <1>1. MAXPROC \in Nat /\ 1 \in Int /\ MAXPROC \in Int /\ Proc = 1 .. MAXPROC
    BY PcbAssumption DEF Proc
  <1>2. IsFiniteSet(Proc) /\ Cardinality(Proc) = MAXPROC
    <2>1. IsFiniteSet(1 .. MAXPROC)
          /\ Cardinality(1 .. MAXPROC) = IF 1 > MAXPROC THEN 0 ELSE MAXPROC - 1 + 1
      BY <1>1, FS_Interval
    <2>2. (IF 1 > MAXPROC THEN 0 ELSE MAXPROC - 1 + 1) = MAXPROC
      BY <1>1
    <2>3. QED BY <1>1, <2>1, <2>2
  <1>3. Hanging \subseteq Proc
    BY DEF Hanging
  <1>4. QED BY <1>1, <1>2, <1>3, FS_Subset, FS_CardinalityType

LEMMA StackFits == BInv => StackBounded
  <1>1. SUFFICES ASSUME BInv PROVE StackBounded
    OBVIOUS
  <1>2. CASE stack = <<>>
    BY <1>2, HangingIs DEF StackBounded
  <1>3. CASE stack # <<>>
    <2>1. stack \in Seq(Proc) /\ IsInjective(stack)
      BY <1>1, <1>3 DEF BInv, LocalType, StackInv
    <2>2. Len(stack) = Cardinality(ToSet(stack)) /\ ToSet(stack) \subseteq Proc
      BY <2>1, DistinctLength, ElementsOf
    <2>3. QED BY <2>2, HangingIs, FS_Subset DEF StackBounded
  <1>4. QED BY <1>2, <1>3

LEMMA WorkFits == BInv => WorkBounded
  <1>1. SUFFICES ASSUME BInv PROVE WorkBounded
    OBVIOUS
  <1>2. Len(stack) \in Nat /\ Len(stack) <= MAXPROC
    BY <1>1, StackFits, LastOf DEF StackBounded, BInv, LocalType
  <1>3. \A i \in {0, 1} : 3 * Cardinality(Hanging) + 2 * Len(stack) + i \in 0 .. 5 * MAXPROC + 1
    BY <1>2, HangingIs
  <1>4. (IF hand = NULL THEN 1 ELSE 0) \in {0, 1}
    OBVIOUS
  <1>5. QED BY <1>3, <1>4 DEF WorkBounded, Work

\* A process less hangs below another.
LEMMA LessHanging ==
  ASSUME NEW c \in Proc, p_parent[c] # NULL, p_parent \in [Proc -> Proc \cup {NULL}],
         p_parent' = [p_parent EXCEPT ![c] = NULL]
  PROVE  Cardinality(Hanging)' = Cardinality(Hanging) - 1
  <1>1. Hanging' = Hanging \ {c} /\ c \in Hanging
    BY DEF Hanging
  <1>2. QED BY <1>1, HangingIs, FS_RemoveElement

LEMMA SameHanging ==
  ASSUME p_parent' = p_parent
  PROVE  Cardinality(Hanging)' = Cardinality(Hanging)
  BY DEF Hanging

LEMMA WorkShrinks ==
  ASSUME BInv, [Next]_vars, vars' # vars, stack # <<>>
  PROVE  Step /\ Work' < Work
  <1> DEFINE H == Cardinality(Hanging)
             n == Len(stack)
  <1>1. /\ stack \in Seq(Proc) /\ n \in Nat /\ n > 0 /\ Top \in Proc
        /\ p_parent \in [Proc -> Proc \cup {NULL}] /\ hand \in Proc \cup {NULL} /\ TreeLinked
        /\ NULL \notin Proc /\ H \in Nat /\ TreeInv
        /\ hand # NULL => hand = Top
    BY Calls, HangingIs, PcbAssumption DEF BInv, LocalType, TreeLinked, HandInv, Proc
  <1>2. RemoveChild \/ LeaveSemaphore \/ FreeChild \/ LeaveTree \/ FreeTarget
    BY DEF Next, Step, CreateProcess, Preempt, Dispatch, Idle, Block, Release, TerminateProcess,
           MakeReady, Running
  <1> SUFFICES Work' < Work
    BY <1>2 DEF Step
  <1> DEFINE w == IF hand = NULL THEN 1 ELSE 0
             v == IF hand' = NULL THEN 1 ELSE 0
  <1>3. /\ Work = 3 * H + 2 * n + w
        /\ Work' = 3 * H' + 2 * Len(stack') + v
    BY DEF Work
  <1>4. /\ hand = NULL => w = 1
        /\ hand # NULL => w = 0
        /\ hand' = NULL => v = 1
        /\ hand' # NULL => v = 0
        /\ w \in {0, 1} /\ v \in {0, 1}
    OBVIOUS
  <1> HIDE DEF H, n, w, v
  <1>5. CASE RemoveChild
    <2> DEFINE c == C!First(Top)
    <2>1. /\ hand = NULL /\ hand' = hand /\ p_children[Top] # NULL /\ stack' = Append(stack, c)
          /\ p_parent' = [p_parent EXCEPT ![c] = NULL]
      BY <1>5 DEF RemoveChild
    <2>2. c \in Proc /\ p_parent[c] = Top
      BY <1>1, <2>1, BroodIs
    <2> HIDE DEF c
    <2>3. H' = H - 1
      BY <1>1, <2>1, <2>2, LessHanging DEF H
    <2>4. Len(stack') = n + 1
      BY <1>1, <2>1, <2>2 DEF n
    <2>5. QED BY <1>1, <1>3, <1>4, <2>1, <2>3, <2>4
  <1>6. CASE LeaveSemaphore
    <2>1. hand = NULL /\ hand' = Top /\ stack' = stack /\ p_parent' = p_parent
      BY <1>6 DEF LeaveSemaphore, tree
    <2>2. H' = H /\ Len(stack') = n
      BY <2>1, SameHanging DEF H, n
    <2>3. QED BY <1>1, <1>3, <1>4, <2>1, <2>2
  <1>7. CASE FreeChild
    <2>1. hand # NULL /\ hand' = NULL /\ stack' = Front(stack) /\ p_parent' = p_parent
      BY <1>7 DEF FreeChild, tree
    <2>2. H' = H /\ Len(stack') = n - 1
      BY <1>1, <2>1, SameHanging, FrontOf DEF H, n
    <2>3. QED BY <1>1, <1>3, <1>4, <2>1, <2>2
  <1>8. CASE LeaveTree
    <2>1. /\ hand # NULL /\ hand' = hand /\ stack' = stack /\ p_parent[hand] # NULL
          /\ p_parent' = [p_parent EXCEPT ![hand] = NULL]
      BY <1>8 DEF LeaveTree
    <2>2. H' = H - 1 /\ Len(stack') = n
      BY <1>1, <2>1, LessHanging DEF H, n
    <2>3. QED BY <1>1, <1>3, <1>4, <2>1, <2>2
  <1>9. CASE FreeTarget
    <2>1. hand # NULL /\ hand' = NULL /\ stack' = <<>> /\ p_parent' = p_parent /\ n = 1
      BY <1>9 DEF FreeTarget, tree, n
    <2>2. H' = H /\ Len(stack') = 0
      BY <2>1, SameHanging DEF H
    <2>3. QED BY <1>1, <1>3, <1>4, <2>1, <2>2
  <1>10. QED BY <1>2, <1>5, <1>6, <1>7, <1>8, <1>9

\* The recursion of terminate_children never nests deeper than MAXPROC.
THEOREM RecursionBounded ==
  ASSUME ~KillReady
  PROVE  Spec => []StackBounded
  BY StackFits, PcbInvariant, PTL

\* A termination takes at most 5 * MAXPROC + 1 steps, during which the nucleus
\* does nothing else.
THEOREM TerminationBounded ==
  ASSUME ~KillReady
  PROVE  Spec => []WorkBounded /\ [][Shrinks]_vars
  <1>1. BInv /\ [Next]_vars => [Shrinks]_vars
    BY WorkShrinks DEF Shrinks
  <1>2. QED BY <1>1, WorkFits, PcbInvariant, PTL DEF Spec

-----------------------------------------------------------------------------
(* The ids that create_process gives to ProcBlks *)

Pids(W, Address) == INSTANCE PidGen

\* Where the loop of pid_generator stops.
LEMMA PowIs ==
  ASSUME NEW W, NEW A, NEW y \in 0 .. 999
  PROVE  Pids(W, A)!Pow(y) = IF y < 10 THEN 10 ELSE IF y < 100 THEN 100 ELSE 1000
  <1> DEFINE D == {10, 100, 1000}
             P(pow) == y < pow /\ \A less \in D : less < pow => y >= less
             p == IF y < 10 THEN 10 ELSE IF y < 100 THEN 100 ELSE 1000
  <1>1. p \in D /\ P(p)
    OBVIOUS
  <1>2. \A x \in D : P(x) => x = p
    OBVIOUS
  <1>3. Pids(W, A)!Pow(y) = CHOOSE pow \in D : P(pow)
    BY DEF Pids!Pow
  <1> HIDE DEF P, p, D
  <1>4. (CHOOSE pow \in D : P(pow)) = p
    BY <1>1, <1>2
  <1>5. QED BY <1>3, <1>4 DEF p

\* Numbers i and j behind addresses with about as many digits differ unless
\* i and j are the same.
LEMMA DigitsApart ==
  ASSUME NEW A \in Nat, NEW B \in Nat, A < 10 * B, B < 10 * A,
         NEW m \in {10, 100, 1000}, NEW n \in {10, 100, 1000},
         NEW i \in Nat, NEW j \in Nat, i < m, j < n, A * m + i = B * n + j
  PROVE  i = j
  <1>1. CASE m = 10
    BY <1>1
  <1>2. CASE m = 100
    <2>1. n # 10
      BY <1>2
    <2>2. n # 1000
      BY <1>2
    <2>3. n = 100
      BY <2>1, <2>2
    <2>4. QED BY <1>2, <2>3
  <1>3. CASE m = 1000
    <2>1. n # 10
      BY <1>3
    <2>2. n # 100
      BY <1>3
    <2>3. n = 1000
      BY <2>1, <2>2
    <2>4. QED BY <1>3, <2>3
  <1>4. QED BY <1>1, <1>2, <1>3

\* Pids of processes with different counters differ, and none is 0.  The first
\* process may have another address than the others, if it has about as many
\* digits: main calls allocPcb (initial.c:72) at another depth of the same stack.
THEOREM PidsDiffer ==
  ASSUME NEW W, NEW A, NEW B, Pids(W, A)!PidGenAssumption, Pids(W, B)!PidGenAssumption,
         A < 10 * B, B < 10 * A,
         NEW i \in 0 .. 999, NEW j \in 0 .. 999
  PROVE  /\ Pids(W, A)!pid_generator(A, i) # 0
         /\ Pids(W, A)!pid_generator(A, i) = Pids(W, B)!pid_generator(B, j) => i = j
  <1> DEFINE p(y) == IF y < 10 THEN 10 ELSE IF y < 100 THEN 100 ELSE 1000
  <1>1. A \in Nat \ {0} /\ B \in Nat \ {0} /\ W \in Nat /\ 1000 * (A + 1) < W /\ 1000 * (B + 1) < W
    BY DEF Pids!PidGenAssumption
  <1>2. \A z, w \in Nat : z < w => z % w = z
    OBVIOUS
  <1>3. ASSUME NEW Z \in {A, B}, NEW y \in 0 .. 999
        PROVE  Pids(W, Z)!pid_generator(Z, y) = Z * p(y) + y
    <2>1. Z * p(y) + y \in Nat /\ Z * p(y) + y < W
      BY <1>1
    <2>2. Pids(W, Z)!pid_generator(Z, y) = (Z * p(y) + y) % W
      <3>1. Pids(W, Z)!Pow(y) = p(y)
        BY PowIs
      <3> HIDE DEF p
      <3>2. QED BY <3>1 DEF Pids!pid_generator
    <2> HIDE DEF p
    <2>3. QED BY <1>1, <1>2, <2>1, <2>2
  <1>4. A * p(i) + i # 0
    BY <1>1
  <1>5. A * p(i) + i = B * p(j) + j => i = j
    <2>1. \A k \in {i, j} :
            \/ p(k) = 10 /\ k < 10
            \/ p(k) = 100 /\ k < 100
            \/ p(k) = 1000 /\ k < 1000
      OBVIOUS
    <2> HIDE DEF p
    <2>2. p(i) \in {10, 100, 1000} /\ i < p(i) /\ p(j) \in {10, 100, 1000} /\ j < p(j)
      BY <2>1
    <2>3. PICK m, n \in {10, 100, 1000} : m = p(i) /\ n = p(j)
      BY <2>2
    <2>4. i \in Nat /\ j \in Nat /\ i < m /\ j < n
      BY <2>2, <2>3
    <2>5. A * m + i = B * n + j => i = j
      <3>1. SUFFICES ASSUME A * m + i = B * n + j PROVE i = j
        OBVIOUS
      <3>2. A \in Nat /\ B \in Nat
        BY <1>1
      <3>3. QED BY <2>4, <3>1, <3>2, DigitsApart, SMTT(60)
    <2>6. QED BY <2>3, <2>5
  <1> HIDE DEF p
  <1>6. /\ Pids(W, A)!pid_generator(A, i) = A * p(i) + i
        /\ Pids(W, B)!pid_generator(B, j) = B * p(j) + j
    BY <1>3
  <1>7. QED BY <1>4, <1>5, <1>6
=============================================================================
