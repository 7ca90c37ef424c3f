---------------------------- MODULE NucleusProofs ----------------------------
(***************************************************************************)
(* Proofs about Nucleus, for every number of processes, semaphores and      *)
(* devices, all weights, and, but for what the theorems name as hypotheses,  *)
(* with every hazard admitted.  An interrupt inside the P of io_devop        *)
(* ("io_interrupted") breaks Placement and CountsAgree: that it does not    *)
(* come is the hypothesis of every theorem that rests on them.  The others   *)
(* hold with it too, as the code they are about leaves the tree alone until  *)
(* scheduler() has put the torn process on a second queue (Torn).           *)
(*                                                                         *)
(* Placement and CountsAgree are not inductive by themselves.  IInv states  *)
(* them process by process (QueueInv, CountInv: p_cursem alone tells where  *)
(* a living process is) and adds that the process tree has no cycle         *)
(* (TreeInv), without which terminate_process could free its own caller.    *)
(* Later parts are about the values of the semaphores, the order in which   *)
(* everybody is served, the hazards that the behaviour of C depends on, and *)
(* the process tree that the nucleus implements.                            *)
(***************************************************************************)
EXTENDS Nucleus, QueueLemmas

\* Where a process is, decided by pcbFree, current_process and p_cursem.
QueueInv ==
  /\ IsInjective(readyqueue)
  /\ \A a \in Addr : IsInjective(s_procq[a])
  /\ \A a \in Addr, p \in Proc :
       p \in ToSet(s_procq[a]) <=> p \in Live /\ p_cursem[p] = a
  /\ \A p \in Proc :
       p \in ToSet(readyqueue) <=> p \in Live /\ p_cursem[p] = NULL /\ p # current_process
  /\ current_process # NULL => current_process \in Live /\ p_cursem[current_process] = NULL

Waiting == {p \in Live : p_cursem[p] # NULL}

CountInv ==
  /\ process_count = Cardinality(Live)
  /\ soft_block_count = Cardinality(Waiting)

\* Parents live, and following parents never comes back.
TreeInv ==
  /\ \A p \in pcbFree : p_parent[p] = NULL
  /\ \A p \in Proc : p_parent[p] # NULL => p_parent[p] \in Live
  /\ \A S \in SUBSET Proc : S # {} => \E p \in S : p_parent[p] \notin S

\* The caller is not among those terminate_process still has to free, unless
\* it terminates itself.
TargetInv ==
  cpu = "terminate" /\ arg # current_process => current_process \notin Progeny(arg)

IInv ==
  /\ TypeOK
  /\ QueueInv
  /\ CountInv
  /\ TreeInv
  /\ TargetInv
  /\ cpu \notin {"panic_semd", "panic_deadlock"}

\* An interrupt has found the current process inside the P of io_devop, and
\* already in a queue: handlers run, and then scheduler() requeues it.
Torn ==
  /\ TypeOK
  /\ TreeInv
  /\ current_process \in Live
  /\ current_process \in Blocked \cup ToSet(readyqueue)
  /\ \/ cpu \in {"io_queued", "io_counted", "undefined"}
     \/ cpu \in {"timer", "term_transm", "int_exit", "timer_exit", "scheduler"}
        /\ flag # "LOADCURRENT"

\* The P of io_devop with no interrupt inside it.
WholeP ==
  /\ cpu = "io_entry"
  /\ Passeren(arg, -1, "io_command")
  /\ UNCHANGED <<tree, readyqueue, pseudoclockflag, tags, p_s, device, arg>>

-----------------------------------------------------------------------------
(* Consequences of the invariant *)

\* There are finitely many living processes: ProcBlks are a static array.
LEMMA LiveFinite ==
  ASSUME NEW S \in SUBSET Proc
  PROVE  /\ IsFiniteSet(S)
         /\ Cardinality(S) \in Nat
  BY ProcAssumption, FS_Subset, FS_CardinalityType

\* The pointwise form implies that the three places partition the living
\* processes and that the counters count them.
LEMMA PlacementFollows ==
  ASSUME TypeOK, QueueInv, CountInv
  PROVE  Placement /\ CountsAgree
  <1>1. ToSet(readyqueue) \subseteq Proc /\ \A a \in Addr : ToSet(s_procq[a]) \subseteq Proc
    BY ElementsOf DEF TypeOK
  <1>2. Blocked = Waiting
    <2>1. ASSUME NEW p \in Blocked PROVE p \in Waiting
      <3>1. PICK a \in Addr : p \in ToSet(s_procq[a])
        BY DEF Blocked
      <3>2. QED BY <3>1, <1>1, NullAssumption DEF QueueInv, Waiting, Live
    <2>2. ASSUME NEW p \in Waiting PROVE p \in Blocked
      <3>1. p_cursem[p] \in Addr /\ p \in Proc
        BY DEF Waiting, Live, TypeOK
      <3>2. p \in ToSet(s_procq[p_cursem[p]])
        BY <3>1 DEF QueueInv, Waiting
      <3>3. QED BY <3>1, <3>2 DEF Blocked
    <2>3. QED BY <2>1, <2>2
  <1>3. CountsAgree
    BY <1>2 DEF CountsAgree, CountInv
  <1>4. \A p \in Live, a \in Addr : p \in ToSet(s_procq[a]) <=> p_cursem[p] = a
    BY DEF QueueInv, Live
  <1>5. Live = ToSet(readyqueue) \cup Waiting \cup ({current_process} \ {NULL})
    BY <1>1, NullAssumption DEF QueueInv, Waiting, Live
  <1>6. ToSet(readyqueue) \cap Waiting = {}
    BY <1>1 DEF QueueInv, Waiting
  <1>7. current_process \notin ToSet(readyqueue) \cup Waiting
    BY <1>1, NullAssumption DEF QueueInv, Waiting, Live
  <1>8. QED BY <1>2, <1>3, <1>4, <1>5, <1>6, <1>7 DEF Placement, QueueInv

\* A free descriptor is always left: the head of each active queue is a
\* different process, and the caller is in none of them.
LEMMA SemdLeft ==
  ASSUME TypeOK, QueueInv, current_process # NULL, NEW a \in Addr
  PROVE  ~NoSemd(a)
  <1> DEFINE f == [b \in ActiveSemds |-> Head(s_procq[b])]
             T == Proc \ {current_process}
  <1>1. ASSUME NEW b \in ActiveSemds
        PROVE  Head(s_procq[b]) \in T /\ p_cursem[Head(s_procq[b])] = b
    <2>1. s_procq[b] \in Seq(Proc) /\ s_procq[b] # <<>> /\ b \in Addr /\ IsInjective(s_procq[b])
      BY DEF ActiveSemds, TypeOK, QueueInv
    <2>2. Head(s_procq[b]) \in ToSet(s_procq[b]) /\ ToSet(s_procq[b]) \subseteq Proc
      BY <2>1, TailElements, ElementsOf
    <2>3. QED BY <2>1, <2>2, NullAssumption DEF QueueInv
  <1>2. f \in Injection(ActiveSemds, T)
    BY <1>1 DEF Injection, IsInjective
  <1>3. IsFiniteSet(T) /\ Cardinality(T) = Cardinality(Proc) - 1 /\ Cardinality(Proc) \in Nat
    BY ProcAssumption, FS_RemoveElement, FS_CardinalityType DEF TypeOK
  <1>4. IsFiniteSet(ActiveSemds) /\ Cardinality(ActiveSemds) <= Cardinality(T)
    BY <1>2, <1>3, FS_Injection
  <1>5. Cardinality(ActiveSemds) # Cardinality(Proc)
    BY <1>3, <1>4, FS_CardinalityType
  <1>6. QED BY <1>5 DEF NoSemd, MAXPROC

\* Descendants of a living process live.
LEMMA ProgenyLive ==
  ASSUME TypeOK, TreeInv, NEW r \in Live
  PROVE  Progeny(r) \subseteq Live
  <1>1. Live \in SUBSET Proc /\ r \in Live
    BY DEF Live
  <1>2. Closed(Live)
    BY NullAssumption DEF Closed, Live, TreeInv, TypeOK
  <1>3. QED BY <1>1, <1>2 DEF Progeny

\* Two different processes are not descendants of each other.
LEMMA ProgenyAntisymmetric ==
  ASSUME TypeOK, TreeInv, NEW r \in Proc, NEW t \in Progeny(r), r \in Progeny(t)
  PROVE  t = r
  <1> DEFINE A == Progeny(r)
             B == Progeny(t)
  <1>1. t \in Proc
    BY DEF Progeny
  <1>2. \A x \in Proc : x \in Progeny(x) /\ Closed(Progeny(x)) /\ Progeny(x) \in SUBSET Proc
    BY DEF Progeny, Closed
  <1>3. \A x \in Proc, S \in SUBSET Proc : x \in S /\ Closed(S) => Progeny(x) \subseteq S
    BY DEF Progeny
  <1>4. A = B
    BY <1>1, <1>2, <1>3
  <1>5. ASSUME NEW x \in Proc, NEW q \in Progeny(x), q # x
        PROVE  p_parent[q] \in Progeny(x)
    <2>1. SUFFICES ASSUME p_parent[q] \notin Progeny(x) PROVE FALSE
      OBVIOUS
    <2>2. x \in Progeny(x) \ {q} /\ Progeny(x) \ {q} \in SUBSET Proc
      BY <1>2, <1>5
    <2>3. Closed(Progeny(x) \ {q})
      BY <1>2, <2>1 DEF Closed
    <2>4. QED BY <1>3, <2>2, <2>3, <1>5
  <1>6. SUFFICES ASSUME t # r PROVE FALSE
    OBVIOUS
  <1>7. \A q \in A : p_parent[q] \in A
    BY <1>1, <1>4, <1>5, <1>6
  <1>8. A \in SUBSET Proc /\ A # {}
    BY <1>2
  <1>9. QED BY <1>7, <1>8 DEF TreeInv

-----------------------------------------------------------------------------
(* Steps that leave queues, counters and tree alone *)

\* A step that changes neither the tree nor the semaphores nor who runs keeps
\* queues, counters and tree right.
LEMMA FrameStep ==
  ASSUME QueueInv, CountInv, TreeInv,
         UNCHANGED <<tree, sems, readyqueue, current_process>>
  PROVE  QueueInv' /\ CountInv' /\ TreeInv'
  BY DEF QueueInv, CountInv, TreeInv, Waiting, Live, tree, sems

\* A step that leaves the process tree alone keeps it a tree.
LEMMA TreeFrame ==
  ASSUME TreeInv, UNCHANGED tree
  PROVE  TreeInv'
  BY DEF TreeInv, Live, tree

\* The part of TypeOK about semaphores and their queues.
SemTypes ==
  /\ p_cursem \in [Proc -> Addr \cup {NULL}]
  /\ res_wait \in [Proc -> Int]
  /\ readyqueue \in Seq(Proc)
  /\ s_procq \in [Addr -> Seq(Proc)]
  /\ semaphore \in [Addr -> Int]
  /\ soft_block_count \in Int

-----------------------------------------------------------------------------
(* The operations *)

\* P blocks the caller or lets it pass; there is a descriptor for it.
LEMMA PasserenStep ==
  ASSUME TypeOK, QueueInv, CountInv, current_process # NULL,
         NEW a \in Addr, NEW w \in Int, NEW next, Passeren(a, w, next),
         UNCHANGED <<pcbFree, process_count, readyqueue>>
  PROVE  /\ QueueInv' /\ CountInv' /\ SemTypes'
         /\ cpu' = next
         /\ \/ flag' = "LOADCURRENT" /\ current_process' = current_process
            \/ flag' = "LOADNEXT" /\ current_process' = NULL
  <1> DEFINE p == current_process
  <1>0. /\ p \in Proc /\ p \in Live /\ p_cursem[p] = NULL
        /\ semaphore \in [Addr -> Int] /\ res_wait \in [Proc -> Int]
        /\ p_cursem \in [Proc -> Addr \cup {NULL}] /\ soft_block_count \in Int
        /\ s_procq \in [Addr -> Seq(Proc)] /\ readyqueue \in Seq(Proc)
        /\ readyqueue' = readyqueue /\ pcbFree' = pcbFree /\ process_count' = process_count
    BY DEF TypeOK, QueueInv
  <1>1. semaphore' = [semaphore EXCEPT ![a] = semaphore[a] + w] /\ semaphore' \in [Addr -> Int]
    BY <1>0 DEF Passeren
  <1>2. CASE semaphore[a] + w >= 0
    <2>1. /\ cpu' = next /\ flag' = "LOADCURRENT" /\ s_procq' = s_procq /\ p_cursem' = p_cursem
          /\ res_wait' = res_wait /\ soft_block_count' = soft_block_count /\ p' = p
      BY <1>2 DEF Passeren
    <2>2. QueueInv' /\ CountInv'
      BY <1>0, <2>1 DEF QueueInv, CountInv, Waiting, Live
    <2>3. QED BY <1>0, <1>1, <2>1, <2>2 DEF SemTypes
  <1>3. CASE ~(semaphore[a] + w >= 0)
    <2>1. /\ cpu' = next /\ flag' = "LOADNEXT" /\ current_process' = NULL
          /\ s_procq' = [s_procq EXCEPT ![a] = Append(s_procq[a], p)]
          /\ p_cursem' = [p_cursem EXCEPT ![p] = a]
          /\ res_wait' = [res_wait EXCEPT ![p] = w]
          /\ soft_block_count' = soft_block_count + 1
      BY <1>3, SemdLeft DEF Passeren, Block
    <2>2. p \notin ToSet(s_procq[a])
      BY <1>0, NullAssumption DEF QueueInv
    <2>3. /\ Append(s_procq[a], p) \in Seq(Proc) /\ IsInjective(Append(s_procq[a], p))
          /\ ToSet(Append(s_procq[a], p)) = ToSet(s_procq[a]) \cup {p}
      BY <1>0, <2>2, AppendElements DEF QueueInv
    <2>4. SemTypes'
      BY <1>0, <1>1, <2>1, <2>3 DEF SemTypes
    <2>5. QueueInv'
      <3>1. IsInjective(readyqueue)' /\ \A b \in Addr : IsInjective(s_procq[b])'
        BY <1>0, <2>1, <2>3 DEF QueueInv
      <3>2. ASSUME NEW b \in Addr, NEW q \in Proc
            PROVE  (q \in ToSet(s_procq[b]) <=> q \in Live /\ p_cursem[q] = b)'
        BY <1>0, <2>1, <2>3, NullAssumption DEF QueueInv, Live
      <3>3. ASSUME NEW q \in Proc
            PROVE  (q \in ToSet(readyqueue)
                      <=> q \in Live /\ p_cursem[q] = NULL /\ q # current_process)'
        BY <1>0, <2>1, NullAssumption DEF QueueInv, Live
      <3>4. QED BY <2>1, <3>1, <3>2, <3>3 DEF QueueInv
    <2>6. CountInv'
      <3>1. Waiting' = Waiting \cup {p} /\ p \notin Waiting /\ Live' = Live
        BY <1>0, <2>1, NullAssumption DEF Waiting, Live
      <3>2. Cardinality(Waiting \cup {p}) = Cardinality(Waiting) + 1
        BY <3>1, LiveFinite, FS_AddElement DEF Waiting, Live
      <3>3. QED BY <1>0, <2>1, <3>1, <3>2 DEF CountInv
    <2>7. QED BY <2>1, <2>4, <2>5, <2>6
  <1>4. QED BY <1>2, <1>3

\* V moves the first n waiters to the ready queue.
LEMMA VerhogenStep ==
  ASSUME TypeOK, QueueInv, CountInv, NEW a \in Addr, NEW w \in Int, Verhogen(a, w),
         UNCHANGED <<pcbFree, process_count, current_process>>
  PROVE  QueueInv' /\ CountInv' /\ SemTypes'
  <1>0. /\ semaphore \in [Addr -> Int] /\ res_wait \in [Proc -> Int]
        /\ p_cursem \in [Proc -> Addr \cup {NULL}] /\ soft_block_count \in Int
        /\ s_procq \in [Addr -> Seq(Proc)] /\ readyqueue \in Seq(Proc)
        /\ pcbFree' = pcbFree /\ process_count' = process_count
        /\ current_process' = current_process
    BY DEF TypeOK
  <1>1. PICK n \in 0 .. Len(s_procq[a]) :
          LET out == SubSeq(s_procq[a], 1, n)
          IN /\ s_procq' = [s_procq EXCEPT ![a] = SubSeq(s_procq[a], n + 1, Len(s_procq[a]))]
             /\ readyqueue' = readyqueue \o out
             /\ p_cursem' = [p \in Proc |-> IF p \in ToSet(out) THEN NULL ELSE p_cursem[p]]
             /\ res_wait' = [p \in Proc |-> IF p \in ToSet(out) THEN 0 ELSE res_wait[p]]
             /\ semaphore' = [semaphore EXCEPT ![a] = semaphore[a] + w]
             /\ soft_block_count' = soft_block_count - n
    BY DEF Verhogen
  <1> DEFINE out == SubSeq(s_procq[a], 1, n)
             rest == SubSeq(s_procq[a], n + 1, Len(s_procq[a]))
  <1>2. /\ out \in Seq(Proc) /\ rest \in Seq(Proc) /\ IsInjective(out) /\ IsInjective(rest)
        /\ ToSet(out) \cup ToSet(rest) = ToSet(s_procq[a])
        /\ ToSet(out) \cap ToSet(rest) = {}
        /\ IsFiniteSet(ToSet(out)) /\ Cardinality(ToSet(out)) = n
    BY <1>0, SplitElements DEF QueueInv
  <1>3. ToSet(s_procq[a]) \subseteq Proc /\ ToSet(readyqueue) \subseteq Proc
    BY <1>0, ElementsOf
  <1>4. \A q \in ToSet(out) : q \in Live /\ q \in Proc /\ p_cursem[q] = a
    BY <1>2, <1>3 DEF QueueInv
  <1>5. ToSet(readyqueue) \cap ToSet(out) = {}
    BY <1>4, NullAssumption DEF QueueInv
  <1>6. /\ readyqueue \o out \in Seq(Proc) /\ IsInjective(readyqueue \o out)
        /\ ToSet(readyqueue \o out) = ToSet(readyqueue) \cup ToSet(out)
    <2>1. IsInjective(readyqueue)
      BY DEF QueueInv
    <2> HIDE DEF out
    <2>2. QED BY <2>1, <1>0, <1>2, <1>5, ConcatElements
  <1>7. /\ s_procq' = [s_procq EXCEPT ![a] = rest]
        /\ readyqueue' = readyqueue \o out
        /\ p_cursem' = [p \in Proc |-> IF p \in ToSet(out) THEN NULL ELSE p_cursem[p]]
        /\ res_wait' = [p \in Proc |-> IF p \in ToSet(out) THEN 0 ELSE res_wait[p]]
        /\ semaphore' = [semaphore EXCEPT ![a] = semaphore[a] + w]
        /\ soft_block_count' = soft_block_count - n
    BY <1>1
  <1>8. n \in Int
    BY <1>0, LenProperties
  <1> HIDE DEF out, rest
  <1>9. SemTypes'
    BY <1>0, <1>2, <1>6, <1>7, <1>8 DEF SemTypes
  <1>10. QueueInv'
    <2>1. IsInjective(readyqueue)' /\ \A b \in Addr : IsInjective(s_procq[b])'
      BY <1>0, <1>2, <1>6, <1>7 DEF QueueInv
    <2>2. ASSUME NEW b \in Addr, NEW q \in Proc
          PROVE  (q \in ToSet(s_procq[b]) <=> q \in Live /\ p_cursem[q] = b)'
      <3>1. CASE b = a
        BY <3>1, <1>0, <1>2, <1>4, <1>7, NullAssumption DEF QueueInv, Live
      <3>2. CASE b # a
        BY <3>2, <1>0, <1>4, <1>7, NullAssumption DEF QueueInv, Live
      <3>3. QED BY <3>1, <3>2
    <2>3. ASSUME NEW q \in Proc
          PROVE  (q \in ToSet(readyqueue)
                    <=> q \in Live /\ p_cursem[q] = NULL /\ q # current_process)'
      BY <1>0, <1>4, <1>6, <1>7, NullAssumption DEF QueueInv, Live
    <2>4. current_process # NULL => current_process \in Live' /\ p_cursem'[current_process] = NULL
      BY <1>0, <1>7 DEF QueueInv, Live, TypeOK
    <2>5. QED BY <1>0, <2>1, <2>2, <2>3, <2>4 DEF QueueInv
  <1>11. CountInv'
    <2>1. Waiting' = Waiting \ ToSet(out) /\ Waiting \cap ToSet(out) = ToSet(out) /\ Live' = Live
      BY <1>0, <1>4, <1>7, NullAssumption DEF Waiting, Live
    <2>2. Cardinality(Waiting \ ToSet(out)) = Cardinality(Waiting) - n
      <3>1. IsFiniteSet(Waiting)
        BY LiveFinite DEF Waiting, Live
      <3>2. Cardinality(Waiting \ ToSet(out)) = Cardinality(Waiting) - Cardinality(Waiting \cap ToSet(out))
        BY <3>1, FS_Difference
      <3>3. QED BY <3>2, <2>1, <1>2
    <2>3. QED BY <1>0, <1>7, <2>1, <2>2 DEF CountInv
  <1>12. QED BY <1>9, <1>10, <1>11

\* outBlocked and outProcQ take exactly the given process off a queue.
LEMMA WithoutElements ==
  ASSUME NEW q \in Seq(Proc), IsInjective(q), NEW p \in ToSet(q)
  PROVE  /\ Without(q, p) \in Seq(Proc)
         /\ ToSet(Without(q, p)) = ToSet(q) \ {p}
         /\ IsInjective(Without(q, p))
  <1> DEFINE i == CHOOSE j \in 1 .. Len(q) : q[j] = p
  <1>1. \E j \in 1 .. Len(q) : q[j] = p
    BY ElementsOf
  <1>2. i \in 1 .. Len(q) /\ q[i] = p
    BY <1>1
  <1>3. Without(q, p) = RemoveAt(q, i)
    BY DEF Without
  <1> HIDE DEF i
  <1>4. QED BY <1>2, <1>3, RemoveElements

\* Freeing a childless process keeps the tree a tree, and no process gains
\* descendants.
LEMMA FreeTree ==
  ASSUME TypeOK, TreeInv, NEW c \in Live, EmptyChild(c), Free(c)
  PROVE  /\ TreeInv'
         /\ pcbFree' \subseteq Proc
         /\ p_parent' \in [Proc -> Proc \cup {NULL}]
         /\ Live' = Live \ {c}
         /\ \A r \in Proc : Progeny(r)' \subseteq Progeny(r)
  <1>0. /\ c \in Proc /\ p_parent \in [Proc -> Proc \cup {NULL}] /\ pcbFree \subseteq Proc
        /\ p_parent' = [p_parent EXCEPT ![c] = NULL] /\ pcbFree' = pcbFree \cup {c}
        /\ \A p \in Proc : p_parent[p] # c
    BY DEF TypeOK, Live, Free, EmptyChild, Children
  <1>1. Live' = Live \ {c}
    BY <1>0 DEF Live
  <1>2. \A p \in pcbFree' : p_parent'[p] = NULL
    BY <1>0 DEF TreeInv
  <1>3. \A p \in Proc : p_parent'[p] # NULL => p_parent'[p] \in Live'
    BY <1>0, <1>1 DEF TreeInv
  <1>4. ASSUME NEW S \in SUBSET Proc, S # {} PROVE \E p \in S : p_parent'[p] \notin S
    <2>1. PICK p \in S : p_parent[p] \notin S
      BY <1>4 DEF TreeInv
    <2>2. p_parent'[p] \notin S
      BY <2>1, <1>0, NullAssumption
    <2>3. QED BY <2>2
  <1>5. ASSUME NEW r \in Proc PROVE Progeny(r)' \subseteq Progeny(r)
    <2>1. \A S \in SUBSET Proc : Closed(S) => Closed(S)'
      BY <1>0, NullAssumption DEF Closed
    <2>2. QED BY <2>1 DEF Progeny
  <1>6. QED BY <1>0, <1>1, <1>2, <1>3, <1>4, <1>5 DEF TreeInv

\* Freeing a living process makes one fewer.
LEMMA FreeCount ==
  ASSUME TypeOK, CountInv, NEW c \in Live, Free(c)
  PROVE  process_count' = Cardinality(Live') /\ process_count' \in Int
  <1>1. Live' = Live \ {c} /\ process_count' = process_count - 1
    BY DEF Live, Free
  <1>2. IsFiniteSet(Live) /\ Cardinality(Live) \in Nat
    BY LiveFinite DEF Live
  <1>3. Cardinality(Live \ {c}) = Cardinality(Live) - 1
    BY <1>2, FS_RemoveElement
  <1>4. QED BY <1>1, <1>2, <1>3 DEF CountInv

\* A blocked process is freed: it leaves the one queue it is in.
LEMMA FreeBlocked ==
  ASSUME TypeOK, QueueInv, CountInv, NEW c \in Live, p_cursem[c] # NULL,
         Unblock(c), Free(c),
         UNCHANGED <<p_cursem, res_wait, readyqueue, current_process>>
  PROVE  QueueInv' /\ CountInv' /\ SemTypes'
  <1> DEFINE a == p_cursem[c]
  <1>0. /\ c \in Proc /\ a \in Addr
        /\ semaphore \in [Addr -> Int] /\ res_wait \in [Proc -> Int]
        /\ p_cursem \in [Proc -> Addr \cup {NULL}] /\ soft_block_count \in Int
        /\ s_procq \in [Addr -> Seq(Proc)] /\ readyqueue \in Seq(Proc)
        /\ p_cursem' = p_cursem /\ res_wait' = res_wait /\ readyqueue' = readyqueue
        /\ current_process' = current_process
        /\ current_process \in Proc \cup {NULL}
    BY DEF TypeOK, Live
  <1>1. /\ semaphore' = [semaphore EXCEPT ![a] = IF a \in DevSem THEN @ ELSE @ - res_wait[c]]
        /\ s_procq' = [s_procq EXCEPT ![a] = Without(s_procq[a], c)]
        /\ soft_block_count' = soft_block_count - 1
    BY DEF Unblock
  <1>2. c \in ToSet(s_procq[a]) /\ c # current_process /\ c \notin ToSet(readyqueue)
    BY <1>0, NullAssumption DEF QueueInv
  <1>3. /\ Without(s_procq[a], c) \in Seq(Proc) /\ IsInjective(Without(s_procq[a], c))
        /\ ToSet(Without(s_procq[a], c)) = ToSet(s_procq[a]) \ {c}
    BY <1>0, <1>2, WithoutElements DEF QueueInv
  <1>4. Live' = Live \ {c}
    BY DEF Free, Live
  <1>5. SemTypes'
    BY <1>0, <1>1, <1>3 DEF SemTypes
  <1>6. QueueInv'
    <2>1. IsInjective(readyqueue)' /\ \A b \in Addr : IsInjective(s_procq[b])'
      BY <1>0, <1>1, <1>3 DEF QueueInv
    <2>2. ASSUME NEW b \in Addr, NEW q \in Proc
          PROVE  (q \in ToSet(s_procq[b]) <=> q \in Live /\ p_cursem[q] = b)'
      BY <1>0, <1>1, <1>3, <1>4 DEF QueueInv
    <2>3. ASSUME NEW q \in Proc
          PROVE  (q \in ToSet(readyqueue)
                    <=> q \in Live /\ p_cursem[q] = NULL /\ q # current_process)'
      BY <1>0, <1>2, <1>4 DEF QueueInv
    <2>4. QED BY <1>0, <1>2, <1>4, <2>1, <2>2, <2>3 DEF QueueInv
  <1>7. CountInv'
    <2>1. Waiting' = Waiting \ {c} /\ c \in Waiting
      BY <1>0, <1>4 DEF Waiting
    <2>2. IsFiniteSet(Waiting)
      BY LiveFinite DEF Waiting, Live
    <2>3. Cardinality(Waiting \ {c}) = Cardinality(Waiting) - 1
      BY <2>1, <2>2, FS_RemoveElement
    <2>4. QED BY <1>1, <2>1, <2>3, FreeCount DEF CountInv
  <1>8. QED BY <1>5, <1>6, <1>7

\* A process that is on no semaphore is freed: it was running or, on the
\* ready queue, which it has left.
LEMMA FreeUnblocked ==
  ASSUME TypeOK, QueueInv, CountInv, NEW c \in Live, p_cursem[c] = NULL, Free(c),
         UNCHANGED sems,
         \/ /\ c = current_process /\ current_process' = NULL
            /\ readyqueue' = readyqueue
         \/ /\ c # current_process /\ current_process' = current_process
            /\ readyqueue' = Without(readyqueue, c)
  PROVE  QueueInv' /\ CountInv' /\ SemTypes'
  <1>0. /\ c \in Proc
        /\ semaphore \in [Addr -> Int] /\ res_wait \in [Proc -> Int]
        /\ p_cursem \in [Proc -> Addr \cup {NULL}] /\ soft_block_count \in Int
        /\ s_procq \in [Addr -> Seq(Proc)] /\ readyqueue \in Seq(Proc)
        /\ p_cursem' = p_cursem /\ res_wait' = res_wait /\ s_procq' = s_procq
        /\ semaphore' = semaphore /\ soft_block_count' = soft_block_count
        /\ current_process \in Proc \cup {NULL}
    BY DEF TypeOK, Live, sems
  <1>1. Live' = Live \ {c}
    BY DEF Free, Live
  <1>2. /\ readyqueue' \in Seq(Proc) /\ IsInjective(readyqueue')
        /\ ToSet(readyqueue') = ToSet(readyqueue) \ {c}
    <2>1. CASE c = current_process /\ current_process' = NULL /\ readyqueue' = readyqueue
      BY <2>1, <1>0 DEF QueueInv
    <2>2. CASE c # current_process /\ readyqueue' = Without(readyqueue, c)
      <3>1. c \in ToSet(readyqueue)
        BY <2>2, <1>0 DEF QueueInv
      <3>2. QED BY <3>1, <2>2, <1>0, WithoutElements DEF QueueInv
    <2>3. QED BY <2>1, <2>2
  <1>3. SemTypes'
    BY <1>0, <1>2 DEF SemTypes
  <1>4. QueueInv'
    <2>1. ASSUME NEW b \in Addr, NEW q \in Proc
          PROVE  (q \in ToSet(s_procq[b]) <=> q \in Live /\ p_cursem[q] = b)'
      BY <1>0, <1>1, NullAssumption DEF QueueInv
    <2>2. ASSUME NEW q \in Proc
          PROVE  (q \in ToSet(readyqueue)
                    <=> q \in Live /\ p_cursem[q] = NULL /\ q # current_process)'
      BY <1>0, <1>1, <1>2, NullAssumption DEF QueueInv
    <2>3. QED BY <1>0, <1>1, <1>2, <2>1, <2>2 DEF QueueInv
  <1>5. Waiting' = Waiting
    BY <1>0, <1>1 DEF Waiting
  <1>6. QED BY <1>0, <1>3, <1>4, <1>5, FreeCount DEF CountInv

\* create_process puts a free ProcBlk on the ready queue.
LEMMA CreateStep ==
  ASSUME IInv, CreateProcess
  PROVE  /\ QueueInv' /\ CountInv' /\ TreeInv' /\ SemTypes'
         /\ pcbFree' \subseteq Proc /\ p_parent' \in [Proc -> Proc \cup {NULL}]
         /\ tags' \in [Proc -> SUBSET ExcType]
         /\ process_count' \in Int
  <1>0. /\ cpu = "user" /\ current_process \in Proc /\ current_process \in Live
        /\ semaphore \in [Addr -> Int] /\ res_wait \in [Proc -> Int]
        /\ p_cursem \in [Proc -> Addr \cup {NULL}] /\ soft_block_count \in Int
        /\ s_procq \in [Addr -> Seq(Proc)] /\ readyqueue \in Seq(Proc)
        /\ p_parent \in [Proc -> Proc \cup {NULL}] /\ pcbFree \subseteq Proc
        /\ tags \in [Proc -> SUBSET ExcType]
    BY DEF IInv, TypeOK, QueueInv, CreateProcess
  <1>1. PICK c \in pcbFree :
          /\ pcbFree' = pcbFree \ {c}
          /\ p_parent' = [p_parent EXCEPT ![c] = current_process]
          /\ p_cursem' = [p_cursem EXCEPT ![c] = NULL]
          /\ res_wait' = [res_wait EXCEPT ![c] = 0]
          /\ tags' = [tags EXCEPT ![c] = {}]
          /\ readyqueue' = Append(readyqueue, c)
    BY DEF CreateProcess
  <1>2. /\ process_count' = process_count + 1 /\ semaphore' = semaphore
        /\ s_procq' = s_procq /\ soft_block_count' = soft_block_count
        /\ current_process' = current_process
    BY DEF CreateProcess
  <1>3. c \in Proc /\ c \notin Live /\ c # current_process /\ Live' = Live \cup {c}
    BY <1>0, <1>1 DEF Live
  <1>4. c \notin ToSet(readyqueue)
    BY <1>3 DEF IInv, QueueInv
  <1>5. /\ Append(readyqueue, c) \in Seq(Proc) /\ IsInjective(Append(readyqueue, c))
        /\ ToSet(Append(readyqueue, c)) = ToSet(readyqueue) \cup {c}
    BY <1>0, <1>3, <1>4, AppendElements DEF IInv, QueueInv
  <1>6. SemTypes'
    BY <1>0, <1>1, <1>2, <1>3, <1>5 DEF SemTypes
  <1>7. QueueInv'
    <2>1. ASSUME NEW b \in Addr, NEW q \in Proc
          PROVE  (q \in ToSet(s_procq[b]) <=> q \in Live /\ p_cursem[q] = b)'
      BY <1>0, <1>1, <1>2, <1>3, NullAssumption DEF IInv, QueueInv
    <2>2. ASSUME NEW q \in Proc
          PROVE  (q \in ToSet(readyqueue)
                    <=> q \in Live /\ p_cursem[q] = NULL /\ q # current_process)'
      BY <1>0, <1>1, <1>2, <1>3, <1>5 DEF IInv, QueueInv
    <2>3. QED BY <1>0, <1>1, <1>2, <1>3, <1>5, <2>1, <2>2 DEF IInv, QueueInv
  <1>8. CountInv' /\ process_count' \in Int
    <2>1. Waiting' = Waiting
      BY <1>0, <1>1, <1>3 DEF Waiting
    <2>2. IsFiniteSet(Live) /\ Cardinality(Live) \in Nat
      BY LiveFinite DEF Live
    <2>3. Cardinality(Live \cup {c}) = Cardinality(Live) + 1
      BY <2>2, <1>3, FS_AddElement
    <2>4. QED BY <1>2, <1>3, <2>1, <2>2, <2>3 DEF IInv, CountInv
  <1>9. TreeInv'
    <2>1. /\ \A p \in pcbFree' : p_parent'[p] = NULL
          /\ \A p \in Proc : p_parent'[p] # NULL => p_parent'[p] \in Live'
      BY <1>0, <1>1, <1>3 DEF IInv, TreeInv
    <2>2. ASSUME NEW S \in SUBSET Proc, S # {} PROVE \E p \in S : p_parent'[p] \notin S
      <3>1. CASE S = {c}
        BY <3>1, <1>0, <1>1, <1>3
      <3>2. CASE S # {c}
        <4>1. S \ {c} # {} /\ S \ {c} \in SUBSET Proc
          BY <2>2, <3>2
        <4>2. PICK p \in S \ {c} : p_parent[p] \notin S \ {c}
          BY <4>1 DEF IInv, TreeInv
        <4>3. p_parent[p] # c /\ p_parent'[p] = p_parent[p]
          BY <4>2, <1>0, <1>1, <1>3, NullAssumption DEF IInv, TreeInv
        <4>4. QED BY <4>2, <4>3
      <3>3. QED BY <3>1, <3>2
    <2>3. QED BY <2>1, <2>2 DEF TreeInv
  <1>10. QED BY <1>0, <1>1, <1>3, <1>6, <1>7, <1>8, <1>9

\* The process that loadnext requeues is on no queue yet.
LEMMA LoadNextBody ==
  ASSUME IInv, LoadNext
  PROVE  \/ /\ Requeued = <<>> /\ current_process' = NULL /\ readyqueue' = Requeued
            /\ cpu' = Idle
         \/ /\ Requeued # <<>> /\ current_process' = Head(Requeued)
            /\ readyqueue' = Tail(Requeued) /\ cpu' = Resume(Head(Requeued))
  <1>1. current_process \notin Blocked \cup ToSet(readyqueue)
    BY PlacementFollows DEF IInv, Placement
  <1>2. QED BY <1>1 DEF LoadNext

\* loadnext rotates the ready queue; when it finds nobody, every living
\* process is blocked, so deadlock_detection halts or waits.
LEMMA LoadNextStep ==
  ASSUME IInv, LoadNext
  PROVE  /\ QueueInv' /\ CountInv' /\ SemTypes'
         /\ current_process' \in Proc \cup {NULL}
         /\ \/ current_process' # NULL /\ cpu' \in {"user", "int_exit", "undefined"}
            \/ current_process' = NULL /\ cpu' \in {"halt", "wait"}
  <1> DEFINE q == Requeued
  <1>0. /\ semaphore \in [Addr -> Int] /\ res_wait \in [Proc -> Int]
        /\ p_cursem \in [Proc -> Addr \cup {NULL}] /\ soft_block_count \in Int
        /\ s_procq \in [Addr -> Seq(Proc)] /\ readyqueue \in Seq(Proc)
        /\ current_process \in Proc \cup {NULL} /\ process_count \in Int
    BY DEF IInv, TypeOK
  <1>1. /\ pcbFree' = pcbFree /\ process_count' = process_count /\ semaphore' = semaphore
        /\ s_procq' = s_procq /\ p_cursem' = p_cursem /\ res_wait' = res_wait
        /\ soft_block_count' = soft_block_count
    BY DEF LoadNext, tree, sems
  <1>2. /\ q \in Seq(Proc) /\ IsInjective(q)
        /\ \A p \in Proc : p \in ToSet(q) <=> p \in Live /\ p_cursem[p] = NULL
    <2>1. CASE current_process = NULL
      BY <2>1, <1>0, NullAssumption DEF IInv, QueueInv, Requeued
    <2>2. CASE current_process # NULL
      <3>1. current_process \in Proc /\ current_process \notin ToSet(readyqueue)
        BY <2>2, <1>0 DEF IInv, QueueInv
      <3>2. /\ q \in Seq(Proc) /\ IsInjective(q)
            /\ ToSet(q) = ToSet(readyqueue) \cup {current_process}
        BY <2>2, <3>1, <1>0, AppendElements DEF IInv, QueueInv, Requeued
      <3>3. QED BY <3>1, <3>2, <2>2 DEF IInv, QueueInv
    <2>3. QED BY <2>1, <2>2
  <1>3. \/ q = <<>> /\ current_process' = NULL /\ readyqueue' = q /\ cpu' = Idle
        \/ /\ q # <<>> /\ current_process' = Head(q) /\ readyqueue' = Tail(q)
           /\ cpu' = Resume(Head(q))
    BY LoadNextBody
  <1> HIDE DEF q
  <1>4. CountInv'
    BY <1>1 DEF IInv, CountInv, Waiting, Live
  <1>5. ASSUME NEW b \in Addr, NEW p \in Proc
        PROVE  (p \in ToSet(s_procq[b]) <=> p \in Live /\ p_cursem[p] = b)'
    BY <1>1 DEF IInv, QueueInv, Live
  <1>6. CASE q = <<>>
    <2>1. current_process' = NULL /\ readyqueue' = q /\ cpu' = Idle
      BY <1>3, <1>6
    <2>2. ToSet(q) = {}
      BY <1>2, <1>6, ElementsOf
    <2>3. Waiting = Live
      BY <2>2, <1>2 DEF Waiting, Live
    <2>4. cpu' \in {"halt", "wait"}
      <3>1. process_count = soft_block_count /\ process_count \in Nat
        BY <2>3, LiveFinite DEF IInv, CountInv, Live
      <3>2. QED BY <2>1, <3>1 DEF Idle
    <2>5. QueueInv'
      BY <1>1, <1>2, <1>5, <2>1, NullAssumption DEF QueueInv, IInv, Live
    <2>6. QED BY <1>0, <1>1, <1>2, <1>4, <2>1, <2>4, <2>5 DEF SemTypes
  <1>7. CASE q # <<>>
    <2>1. current_process' = Head(q) /\ readyqueue' = Tail(q) /\ cpu' = Resume(Head(q))
      BY <1>3, <1>7
    <2>2. /\ Tail(q) \in Seq(Proc) /\ Head(q) \in ToSet(q) /\ IsInjective(Tail(q))
          /\ ToSet(Tail(q)) = ToSet(q) \ {Head(q)} /\ Head(q) \in Proc
      BY <1>2, <1>7, TailElements, ElementsOf
    <2>3. cpu' \in {"user", "int_exit", "undefined"}
      BY <2>1 DEF Resume
    <2>4. QueueInv'
      <3>1. ASSUME NEW p \in Proc
            PROVE  (p \in ToSet(readyqueue)
                      <=> p \in Live /\ p_cursem[p] = NULL /\ p # current_process)'
        BY <1>1, <1>2, <2>1, <2>2 DEF Live
      <3>2. current_process' \in Live' /\ p_cursem'[current_process'] = NULL
        BY <1>1, <1>2, <2>1, <2>2 DEF Live
      <3>3. \A b \in Addr : IsInjective(s_procq'[b])
        BY <1>1 DEF IInv, QueueInv
      <3>4. QED BY <1>5, <2>1, <2>2, <3>1, <3>2, <3>3 DEF QueueInv
    <2>5. QED BY <1>0, <1>1, <1>4, <2>1, <2>2, <2>3, <2>4, NullAssumption DEF SemTypes
  <1>8. QED BY <1>6, <1>7

-----------------------------------------------------------------------------
(* The invariant is inductive *)

\* main establishes the invariant.
LEMMA InitIInv == Init => IInv
  <1>1. SUFFICES ASSUME Init PROVE IInv
    OBVIOUS
  <1>2. PICK first \in Proc, initial \in [Sem -> 0 .. MaxSem] :
          /\ pcbFree = Proc \ {first}
          /\ readyqueue = <<first>>
          /\ semaphore = [a \in Addr |-> IF a \in DevSem THEN 0 ELSE initial[a]]
    BY <1>1 DEF Init
  <1>3. /\ p_parent = [p \in Proc |-> NULL] /\ p_cursem = [p \in Proc |-> NULL]
        /\ res_wait = [p \in Proc |-> 0] /\ tags = [p \in Proc |-> {}]
        /\ p_s = [p \in Proc |-> "user"] /\ current_process = NULL
        /\ s_procq = [a \in Addr |-> <<>>] /\ device = [d \in Dev |-> "idle"]
        /\ process_count = 1 /\ soft_block_count = 0 /\ flag = "START"
        /\ pseudoclockflag = FALSE /\ cpu = "scheduler" /\ arg = NULL
    BY <1>1 DEF Init
  <1>4. Live = {first} /\ Waiting = {}
    BY <1>2, <1>3 DEF Live, Waiting
  <1>5. semaphore \in [Addr -> Int]
    BY <1>2, BoundAssumption DEF Addr
  <1>6. TypeOK
    <2>1. readyqueue \in Seq(Proc) /\ s_procq \in [Addr -> Seq(Proc)]
      BY <1>2, <1>3
    <2>2. /\ p_parent \in [Proc -> Proc \cup {NULL}] /\ p_cursem \in [Proc -> Addr \cup {NULL}]
          /\ res_wait \in [Proc -> Int] /\ tags \in [Proc -> SUBSET ExcType]
          /\ p_s \in [Proc -> {"user"} \cup Windows]
          /\ device \in [Dev -> {"idle", "busy", "done", "error"}]
      BY <1>3
    <2>3. pseudoclockflag \in BOOLEAN
      BY <1>3
    <2>4. /\ flag = "START" /\ cpu = "scheduler"
          /\ cpu \in CpuStates /\ arg = NULL /\ process_count \in Int /\ soft_block_count \in Int
      BY <1>3 DEF CpuStates
    <2>5. QED BY <1>2, <1>3, <1>5, <2>1, <2>2, <2>3, <2>4 DEF TypeOK, InsideP
  <1>7. QueueInv
    <2>1. ToSet(<<first>>) = {first} /\ IsInjective(<<first>>)
      BY DEF ToSet, IsInjective
    <2>2. ToSet(<<>>) = {} /\ IsInjective(<<>>)
      BY DEF ToSet, IsInjective
    <2>3. QED BY <1>2, <1>3, <1>4, <2>1, <2>2, NullAssumption DEF QueueInv
  <1>8. CountInv
    BY <1>3, <1>4, FS_Singleton, FS_EmptySet DEF CountInv
  <1>9. TreeInv
    BY <1>2, <1>3, <1>4, NullAssumption DEF TreeInv
  <1>10. QED BY <1>3, <1>6, <1>7, <1>8, <1>9
         DEF IInv, TargetInv

\* The part of TypeOK about everything else.
OtherTypes ==
  /\ pcbFree \subseteq Proc
  /\ p_parent \in [Proc -> Proc \cup {NULL}]
  /\ process_count \in Int
  /\ tags \in [Proc -> SUBSET ExcType]
  /\ p_s \in [Proc -> {"user"} \cup Windows]
  /\ device \in [Dev -> {"idle", "busy", "done", "error"}]
  /\ pseudoclockflag \in BOOLEAN

ControlTypes ==
  /\ current_process \in Proc \cup {NULL}
  /\ flag \in {"START", "RESET", "LOADNEXT", "LOADCURRENT"}
  /\ cpu \in CpuStates
  /\ arg \in Proc \cup Dev \cup {NULL}
  /\ cpu \in {"user", "io_entry", "terminate"} \cup InsideP => current_process # NULL
  /\ cpu \in {"wait", "halt"} => current_process = NULL
  /\ flag = "LOADCURRENT" => current_process # NULL
  /\ cpu = "terminate" => arg \in Live
  /\ cpu \in {"io_entry", "io_command", "term_transm"} => arg \in Dev

\* TypeOK is split into the types of what P and V touch, of the rest, and of
\* the control state.
LEMMA TypeParts == TypeOK <=> SemTypes /\ OtherTypes /\ ControlTypes
  BY DEF TypeOK, SemTypes, OtherTypes, ControlTypes

\* The parts from which each step below puts the invariant together.
LEMMA NextIInvParts ==
  ASSUME SemTypes', OtherTypes', ControlTypes', QueueInv', CountInv', TreeInv', TargetInv',
         cpu' \notin {"panic_semd", "panic_deadlock"}
  PROVE  IInv'
  BY DEF IInv, TypeOK, SemTypes, OtherTypes, ControlTypes

\* Device semaphores are addresses; a terminal's receiver comes NTerm after
\* its transmitter.
LEMMA DevAddr == Dev \subseteq Addr /\ CLOCK \in Addr /\ Plain \subseteq Dev
                 /\ Transm \subseteq Dev /\ Recv \subseteq Dev
                 /\ \A d \in Transm : d + NTerm \in Recv
  BY DeviceAssumption DEF Dev, Addr, DevSem, CLOCK, Plain, Transm, Recv

\* System calls that change no queue, counter or tree.
LEMMA PlainSyscall ==
  ASSUME IInv,
         \/ QuerySyscall \/ ExitTrap \/ TerminateUnknown \/ SemopNull
         \/ \E d \in Dev : IoDevop(d)
         \/ IoCommand \/ IoReturn
  PROVE  IInv'
  <1>1. UNCHANGED <<tree, sems, readyqueue, current_process>>
    BY DEF QuerySyscall, ExitTrap, TerminateUnknown, SemopNull, IoDevop, IoCommand, IoReturn, sched
  <1>2. QueueInv' /\ CountInv' /\ TreeInv'
    BY <1>1, FrameStep DEF IInv
  <1>3. SemTypes /\ OtherTypes /\ ControlTypes
    BY TypeParts DEF IInv
  <1>4. SemTypes'
    BY <1>1, <1>3 DEF SemTypes, sems
  <1>5. OtherTypes'
    BY <1>1, <1>3 DEF OtherTypes, ControlTypes, QuerySyscall, ExitTrap, TerminateUnknown, SemopNull, IoDevop,
       IoCommand, IoReturn, SyscallEntry, tree, sched
  <1>6. ControlTypes' /\ cpu' \notin {"terminate", "panic_semd", "panic_deadlock"}
    BY <1>1, <1>3 DEF ControlTypes, QuerySyscall, ExitTrap, TerminateUnknown, SemopNull, IoDevop,
       IoCommand, IoReturn, SyscallEntry, CpuStates, Windows, IoWindows, InsideP, Dead,
       Panics
  <1>7. TargetInv'
    BY <1>6 DEF TargetInv
  <1>8. QED BY <1>2, <1>4, <1>5, <1>6, <1>7, NextIInvParts

\* The start of a termination, by SYS2, by a mistake, or by an exception.
LEMMA TerminateBeginStep ==
  ASSUME IInv, NEW t \in Progeny(current_process), cpu = "user", TerminateBegin(t),
         flag' \in {flag, "LOADCURRENT"},
         p_s' \in {p_s, [p_s EXCEPT ![current_process] = "user"]}
  PROVE  IInv'
  <1>1. UNCHANGED <<tree, sems, readyqueue, current_process>>
    BY DEF TerminateBegin, sched
  <1>2. QueueInv' /\ CountInv' /\ TreeInv'
    BY <1>1, FrameStep DEF IInv
  <1>3. SemTypes /\ OtherTypes /\ ControlTypes
    BY TypeParts DEF IInv
  <1>4. current_process \in Live /\ current_process \in Proc /\ t \in Live /\ t \in Proc
    <2>1. current_process \in Live /\ current_process \in Proc
      BY <1>3 DEF ControlTypes, IInv, QueueInv, Live
    <2>2. QED BY <2>1, ProgenyLive DEF IInv, Live
  <1>5. SemTypes'
    BY <1>1, <1>3 DEF SemTypes, sems
  <1>6. OtherTypes'
    BY <1>1, <1>3, <1>4 DEF OtherTypes, TerminateBegin, tree, sched
  <1>7. ControlTypes' /\ cpu' = "terminate" /\ arg' = t
    BY <1>1, <1>3, <1>4 DEF ControlTypes, TerminateBegin, CpuStates, Live, tree
  <1>8. TargetInv'
    <2>1. Progeny(t)' = Progeny(t)
      BY <1>1 DEF Progeny, Closed, tree
    <2>2. t # current_process => current_process \notin Progeny(t)
      BY <1>4, ProgenyAntisymmetric DEF IInv
    <2>3. arg' # current_process' => current_process' \notin Progeny(arg)'
      <3>1. Progeny(arg)' = Progeny(t)'
        BY <1>7 DEF Progeny
      <3>2. QED BY <3>1, <2>1, <2>2, <1>1, <1>7
    <2>4. QED BY <2>3 DEF TargetInv
  <1>9. QED BY <1>2, <1>5, <1>6, <1>7, <1>8, NextIInvParts

\* A process is among its own Progeny.
LEMMA ProgenySelf ==
  ASSUME NEW r \in Proc
  PROVE  r \in Progeny(r)
  BY DEF Progeny

\* System calls and exceptions that may start a termination.
LEMMA KillingSyscall ==
  ASSUME IInv,
         \/ SemopZero
         \/ \E t \in Proc : TerminateProcess(t)
         \/ \E t \in ExcType : Specify(t) \/ Exception(t)
  PROVE  IInv'
  <1>0. SemTypes /\ OtherTypes /\ ControlTypes
    BY TypeParts DEF IInv
  <1>1. cpu = "user" /\ current_process \in Proc
    BY <1>0 DEF SemopZero, TerminateProcess, Specify, Exception, SyscallEntry, ControlTypes
  <1>2. CASE SemopZero
    BY <1>1, <1>2, ProgenySelf, TerminateBeginStep DEF SemopZero, SyscallEntry
  <1>3. ASSUME NEW t \in Proc, TerminateProcess(t) PROVE IInv'
    BY <1>1, <1>3, TerminateBeginStep DEF TerminateProcess, SyscallEntry
  <1>4. ASSUME NEW t \in ExcType, Specify(t) PROVE IInv'
    <2>1. CASE t \in tags[current_process]
      BY <2>1, <1>1, <1>4, ProgenySelf, TerminateBeginStep DEF Specify, SyscallEntry
    <2>2. CASE t \notin tags[current_process]
      <3>1. /\ UNCHANGED <<tree, sems, readyqueue, current_process>>
            /\ pseudoclockflag' = pseudoclockflag /\ device' = device /\ arg' = arg
            /\ tags' = [tags EXCEPT ![current_process] = @ \cup {t}]
            /\ cpu' = "scheduler" /\ flag' = "LOADCURRENT"
            /\ p_s' = [p_s EXCEPT ![current_process] = "user"]
        BY <2>2, <1>4 DEF Specify, SyscallEntry, sched
      <3>2. QueueInv' /\ CountInv' /\ TreeInv'
        BY <3>1, FrameStep DEF IInv
      <3>3. SemTypes'
        BY <1>0, <3>1 DEF SemTypes, sems
      <3>4. OtherTypes'
        BY <1>0, <1>1, <3>1 DEF OtherTypes, tree
      <3>5. ControlTypes'
        BY <1>0, <1>1, <3>1, NullAssumption DEF ControlTypes, CpuStates
      <3>6. TargetInv'
        BY <3>1 DEF TargetInv
      <3>7. QED BY <3>1, <3>2, <3>3, <3>4, <3>5, <3>6, NextIInvParts
    <2>3. QED BY <2>1, <2>2
  <1>5. ASSUME NEW t \in ExcType, Exception(t) PROVE IInv'
    <2>0. flag' \in {flag, "LOADCURRENT"} /\ p_s' \in {p_s, [p_s EXCEPT ![current_process] = "user"]}
      BY <1>5 DEF Exception
    <2>1. CASE t \notin tags[current_process]
      BY <2>0, <2>1, <1>1, <1>5, ProgenySelf, TerminateBeginStep DEF Exception
    <2>2. CASE t \in tags[current_process]
      <3>1. /\ UNCHANGED <<tree, sems, readyqueue, current_process>>
            /\ pseudoclockflag' = pseudoclockflag /\ device' = device /\ arg' = arg
            /\ tags' = tags /\ cpu' = cpu
        BY <2>2, <1>5 DEF Exception, sched
      <3>2. QueueInv' /\ CountInv' /\ TreeInv'
        BY <3>1, FrameStep DEF IInv
      <3>3. SemTypes' /\ OtherTypes'
        BY <1>0, <2>0, <3>1 DEF SemTypes, OtherTypes, sems, tree
      <3>4. ControlTypes'
        BY <1>0, <1>1, <2>0, <3>1, NullAssumption DEF ControlTypes
      <3>5. TargetInv'
        BY <1>1, <3>1 DEF TargetInv
      <3>6. QED BY <1>1, <3>1, <3>2, <3>3, <3>4, <3>5, NextIInvParts
    <2>3. QED BY <2>1, <2>2
  <1>6. QED BY <1>2, <1>3, <1>4, <1>5

\* P and V of a process, of io_devop and of wait_clock.
LEMMA SemopStep ==
  ASSUME IInv,
         \/ \E a \in Sem, w \in Weights : SemopP(a, w) \/ SemopV(a, w)
         \/ WaitClock
         \/ WholeP
  PROVE  IInv'
  <1>0. SemTypes /\ OtherTypes /\ ControlTypes
    BY TypeParts DEF IInv
  <1>1. ASSUME NEW a \in Addr, NEW w \in Int, current_process \in Proc,
               NEW next \in {"scheduler", "io_command"}, Passeren(a, w, next),
               UNCHANGED <<tree, readyqueue, pseudoclockflag, tags, device, arg>>,
               p_s' \in {p_s, [p_s EXCEPT ![current_process] = "user"]},
               next = "io_command" => arg \in Dev
        PROVE  IInv'
    <2>1. pcbFree' = pcbFree /\ process_count' = process_count /\ p_parent' = p_parent
      BY <1>1 DEF tree
    <2>2. /\ QueueInv' /\ CountInv' /\ SemTypes' /\ cpu' = next
          /\ \/ flag' = "LOADCURRENT" /\ current_process' = current_process
             \/ flag' = "LOADNEXT" /\ current_process' = NULL
      BY <1>1, <2>1, PasserenStep, NullAssumption DEF IInv
    <2>3. OtherTypes'
      BY <1>0, <1>1, <2>1 DEF OtherTypes
    <2>4. ControlTypes'
      BY <1>0, <1>1, <2>1, <2>2, NullAssumption DEF ControlTypes, CpuStates, Windows, IoWindows, InsideP
    <2>5. TreeInv'
      BY <1>1, TreeFrame DEF IInv
    <2>6. TargetInv'
      BY <2>2 DEF TargetInv
    <2>7. QED BY <2>2, <2>3, <2>4, <2>5, <2>6, NextIInvParts
  <1>2. ASSUME NEW a \in Sem, NEW w \in Weights, SemopP(a, w) PROVE IInv'
    <2>1. a \in Addr /\ w \in Int /\ current_process \in Proc
      BY <1>0, <1>2, BoundAssumption DEF SemopP, SyscallEntry, ControlTypes, Addr
    <2>2. QED BY <1>1, <1>2, <2>1 DEF SemopP, SyscallEntry
  <1>3. ASSUME NEW a \in Sem, NEW w \in Weights, SemopV(a, w) PROVE IInv'
    <2>1. a \in Addr /\ w \in Int /\ current_process \in Proc
      BY <1>0, <1>3, BoundAssumption DEF SemopV, SyscallEntry, ControlTypes, Addr
    <2>2. /\ Verhogen(a, w) /\ UNCHANGED <<tree, current_process, pseudoclockflag, tags, device, arg>>
          /\ cpu' = "scheduler" /\ flag' = "LOADCURRENT"
          /\ p_s' = [p_s EXCEPT ![current_process] = "user"]
      BY <1>3 DEF SemopV, SyscallEntry
    <2>3. pcbFree' = pcbFree /\ process_count' = process_count /\ p_parent' = p_parent
      BY <2>2 DEF tree
    <2>4. QueueInv' /\ CountInv' /\ SemTypes'
      BY <2>1, <2>2, <2>3, VerhogenStep DEF IInv
    <2>5. OtherTypes'
      BY <1>0, <2>1, <2>2, <2>3 DEF OtherTypes
    <2>6. ControlTypes'
      BY <1>0, <2>1, <2>2, NullAssumption DEF ControlTypes, CpuStates
    <2>7. TreeInv'
      BY <2>2, TreeFrame DEF IInv
    <2>8. TargetInv'
      BY <2>2 DEF TargetInv
    <2>9. QED BY <2>2, <2>4, <2>5, <2>6, <2>7, <2>8, NextIInvParts
  <1>4. ASSUME WaitClock PROVE IInv'
    <2>1. current_process \in Proc
      BY <1>0, <1>4 DEF WaitClock, SyscallEntry, ControlTypes
    <2>2. QED BY <1>1, <1>4, <2>1, DevAddr DEF WaitClock, SyscallEntry
  <1>5. ASSUME WholeP PROVE IInv'
    <2>1. current_process \in Proc /\ arg \in Dev /\ arg \in Addr
      BY <1>0, <1>5, DevAddr DEF WholeP, ControlTypes
    <2>2. QED BY <1>1, <1>5, <2>1 DEF WholeP
  <1>6. QED BY <1>2, <1>3, <1>4, <1>5

\* terminate_process frees blocked descendants, the process it was given,
\* and never the caller on the way.
LEMMA TerminateStep ==
  ASSUME IInv,
         TerminateCurrent \/ TerminateOther \/ (\E c \in Proc : TerminateChild(c))
  PROVE  IInv'
  <1>0. /\ SemTypes /\ OtherTypes /\ ControlTypes
        /\ TypeOK /\ QueueInv /\ CountInv /\ TreeInv /\ TargetInv
    BY TypeParts DEF IInv
  <1>1. /\ cpu = "terminate" /\ arg \in Live /\ arg \in Proc
        /\ current_process \in Proc /\ current_process \in Live
    BY <1>0 DEF TerminateCurrent, TerminateOther, TerminateChild, ControlTypes, QueueInv, Live
  <1>2. CASE TerminateCurrent
    <2>1. /\ arg = current_process /\ EmptyChild(arg) /\ Free(arg) /\ current_process' = NULL
          /\ flag' = "LOADNEXT" /\ cpu' = "scheduler" /\ arg' = NULL /\ UNCHANGED sems
          /\ readyqueue' = readyqueue /\ pseudoclockflag' = pseudoclockflag
          /\ tags' = tags /\ p_s' = p_s /\ device' = device
      BY <1>2 DEF TerminateCurrent
    <2>2. p_cursem[arg] = NULL
      BY <1>0, <1>1, <2>1, NullAssumption DEF QueueInv
    <2>3. QueueInv' /\ CountInv' /\ SemTypes'
      BY <1>0, <1>1, <2>1, <2>2, FreeUnblocked
    <2>4. /\ TreeInv' /\ pcbFree' \subseteq Proc
          /\ p_parent' \in [Proc -> Proc \cup {NULL}] /\ process_count' \in Int
      BY <1>0, <1>1, <2>1, FreeTree, FreeCount
    <2>5. OtherTypes'
      BY <1>0, <2>1, <2>4 DEF OtherTypes
    <2>6. ControlTypes' /\ TargetInv'
      BY <2>1 DEF ControlTypes, TargetInv, CpuStates, InsideP
    <2>7. QED BY <2>1, <2>3, <2>4, <2>5, <2>6, NextIInvParts
  <1>3. CASE TerminateOther
    <2>1. /\ arg # current_process /\ EmptyChild(arg) /\ Unblock(arg) /\ Free(arg)
          /\ readyqueue' = NotReady(arg)
          /\ cpu' = "scheduler" /\ arg' = NULL /\ p_cursem' = p_cursem /\ res_wait' = res_wait
          /\ current_process' = current_process /\ pseudoclockflag' = pseudoclockflag
          /\ tags' = tags /\ p_s' = p_s /\ device' = device /\ flag' = flag
      BY <1>3 DEF TerminateOther
    <2>2. QueueInv' /\ CountInv' /\ SemTypes'
      <3>1. CASE p_cursem[arg] = NULL
        <4>1. arg \in ToSet(readyqueue)
          BY <3>1, <1>0, <1>1, <2>1 DEF QueueInv
        <4>2. UNCHANGED sems
          BY <3>1, <2>1 DEF Unblock, sems
        <4>3. QED BY <3>1, <4>1, <4>2, <1>0, <1>1, <2>1, FreeUnblocked DEF NotReady
      <3>2. CASE p_cursem[arg] # NULL
        <4>1. arg \notin ToSet(readyqueue)
          BY <3>2, <1>0, <1>1 DEF QueueInv
        <4>2. QED BY <3>2, <4>1, <1>0, <1>1, <2>1, FreeBlocked DEF NotReady
      <3>3. QED BY <3>1, <3>2
    <2>3. /\ TreeInv' /\ pcbFree' \subseteq Proc
          /\ p_parent' \in [Proc -> Proc \cup {NULL}] /\ process_count' \in Int
      BY <1>0, <1>1, <2>1, FreeTree, FreeCount
    <2>4. OtherTypes'
      BY <1>0, <2>1, <2>3 DEF OtherTypes
    <2>5. ControlTypes' /\ TargetInv'
      BY <1>0, <1>1, <2>1, NullAssumption DEF ControlTypes, TargetInv, CpuStates
    <2>6. QED BY <2>1, <2>2, <2>3, <2>4, <2>5, NextIInvParts
  <1>4. ASSUME NEW c \in Proc, TerminateChild(c) PROVE IInv'
    <2>1. /\ c \in Progeny(arg) /\ c # arg /\ EmptyChild(c)
          /\ current_process' = current_process /\ readyqueue' = readyqueue
          /\ pseudoclockflag' = pseudoclockflag /\ tags' = tags /\ p_s' = p_s
          /\ device' = device /\ flag' = flag /\ arg' = arg
      BY <1>4 DEF TerminateChild, sched
    <2>2. c \in Live
      BY <1>0, <1>1, <2>1, ProgenyLive
    <2>3. c # current_process
      BY <1>0, <1>1, <2>1 DEF TargetInv
    <2>4. CASE c \in ToSet(readyqueue)
      <3>1. cpu' = "undefined" /\ UNCHANGED <<tree, sems>>
        BY <1>4, <2>4 DEF TerminateChild
      <3>2. QueueInv' /\ CountInv' /\ TreeInv'
        BY <1>0, <2>1, <3>1, FrameStep
      <3>3. SemTypes' /\ OtherTypes'
        BY <1>0, <2>1, <3>1 DEF SemTypes, OtherTypes, tree, sems
      <3>4. ControlTypes' /\ TargetInv'
        BY <1>0, <2>1, <3>1 DEF ControlTypes, TargetInv, CpuStates, InsideP, Dead
      <3>5. QED BY <3>1, <3>2, <3>3, <3>4, NextIInvParts
    <2>5. CASE c \notin ToSet(readyqueue)
      <3>1. Unblock(c) /\ Free(c) /\ p_cursem' = p_cursem /\ res_wait' = res_wait /\ cpu' = cpu
        BY <1>4, <2>5 DEF TerminateChild
      <3>2. p_cursem[c] # NULL
        BY <1>0, <2>2, <2>3, <2>5 DEF QueueInv
      <3>3. QueueInv' /\ CountInv' /\ SemTypes'
        BY <1>0, <2>1, <2>2, <3>1, <3>2, FreeBlocked
      <3>4. /\ TreeInv' /\ pcbFree' \subseteq Proc /\ Live' = Live \ {c}
            /\ p_parent' \in [Proc -> Proc \cup {NULL}] /\ process_count' \in Int
            /\ Progeny(arg)' \subseteq Progeny(arg)
        <4>1. \A r \in Proc : Progeny(r)' \subseteq Progeny(r)
          BY <1>0, <2>1, <2>2, <3>1, FreeTree
        <4>2. Progeny(arg)' \subseteq Progeny(arg)
          BY <4>1, <1>1, <2>1 DEF Progeny
        <4>3. QED BY <1>0, <2>1, <2>2, <3>1, <4>2, FreeTree, FreeCount
      <3>5. OtherTypes'
        BY <1>0, <2>1, <3>4 DEF OtherTypes
      <3>6. ControlTypes'
        BY <1>0, <1>1, <2>1, <3>1, <3>4 DEF ControlTypes
      <3>7. TargetInv'
        BY <1>0, <1>1, <2>1, <3>1, <3>4 DEF TargetInv
      <3>8. QED BY <1>1, <3>1, <3>3, <3>4, <3>5, <3>6, <3>7, NextIInvParts
    <2>6. QED BY <2>4, <2>5
  <1>5. QED BY <1>2, <1>3, <1>4

\* Interrupt handlers: they touch queues only through V.
LEMMA InterruptStep ==
  ASSUME IInv,
         \/ TimerInterrupt \/ TimerTick \/ TimerTickEnd \/ TermTransm \/ InterruptExit
         \/ \E d \in Plain : DevInterrupt(d)
         \/ \E d \in Transm : TermInterrupt(d)
  PROVE  IInv'
  <1>0. /\ SemTypes /\ OtherTypes /\ ControlTypes
        /\ TypeOK /\ QueueInv /\ CountInv /\ TreeInv
    BY TypeParts DEF IInv
  <1>1. UNCHANGED <<tree, current_process, pseudoclockflag, tags>>
    BY DEF TimerInterrupt, TimerTick, TimerTickEnd, TermTransm, InterruptExit, DevInterrupt,
       TermInterrupt, sched
  <1>2. pcbFree' = pcbFree /\ process_count' = process_count /\ p_parent' = p_parent
    BY <1>1 DEF tree
  <1>3. ASSUME NEW d \in Dev, Serve(d)
        PROVE  /\ QueueInv' /\ CountInv' /\ SemTypes'
               /\ device' \in [Dev -> {"idle", "busy", "done", "error"}]
    <2>1. device' \in [Dev -> {"idle", "busy", "done", "error"}]
      BY <1>0, <1>3 DEF Serve, OtherTypes
    <2>2. CASE semaphore[d] < 1
      BY <1>0, <1>1, <1>2, <1>3, <2>1, <2>2, DevAddr, VerhogenStep DEF Serve
    <2>3. CASE ~(semaphore[d] < 1)
      <3>1. UNCHANGED <<sems, readyqueue>>
        BY <1>3, <2>3 DEF Serve
      <3>2. QED BY <1>0, <1>1, <2>1, <3>1, FrameStep DEF SemTypes, sems
    <2>4. QED BY <2>2, <2>3
  <1>4. /\ QueueInv' /\ CountInv' /\ SemTypes'
        /\ device' \in [Dev -> {"idle", "busy", "done", "error"}]
    <2>1. CASE UNCHANGED <<sems, readyqueue, device>>
      BY <1>0, <1>1, <2>1, FrameStep DEF SemTypes, OtherTypes, sems
    <2>2. CASE TimerTick
      <3>1. QueueInv' /\ CountInv' /\ SemTypes'
        BY <1>0, <1>1, <1>2, <2>2, DevAddr, VerhogenStep DEF TimerTick
      <3>2. QED BY <1>0, <2>2, <3>1 DEF TimerTick, OtherTypes
    <2>3. CASE TermTransm /\ ~UNCHANGED <<sems, readyqueue, device>>
      <3>1. arg \in Dev /\ Serve(arg)
        BY <1>0, <2>3 DEF TermTransm, ControlTypes
      <3>2. QED BY <1>3, <3>1
    <2>4. ASSUME NEW d \in Plain, DevInterrupt(d)
          PROVE  /\ QueueInv' /\ CountInv' /\ SemTypes'
                 /\ device' \in [Dev -> {"idle", "busy", "done", "error"}]
      BY <1>3, <2>4, DevAddr DEF DevInterrupt
    <2>5. ASSUME NEW d \in Transm, TermInterrupt(d), ~UNCHANGED <<sems, readyqueue, device>>
          PROVE  /\ QueueInv' /\ CountInv' /\ SemTypes'
                 /\ device' \in [Dev -> {"idle", "busy", "done", "error"}]
      <3>1. d + NTerm \in Dev /\ Serve(d + NTerm)
        BY <2>5, DevAddr DEF TermInterrupt
      <3>2. QED BY <1>3, <3>1
    <2>6. QED BY <2>1, <2>2, <2>3, <2>4, <2>5
          DEF TimerInterrupt, TimerTickEnd, InterruptExit, sched
  <1>5. p_s' \in [Proc -> {"user"} \cup Windows]
    <2>1. ASSUME InterruptEntry PROVE p_s' \in [Proc -> {"user"} \cup Windows]
      <3>1. current_process # NULL => cpu \in {"user"} \cup Windows
        BY <1>0, <2>1 DEF InterruptEntry, Interruptible, ControlTypes, Windows
      <3>2. QED BY <1>0, <2>1, <3>1 DEF InterruptEntry, OtherTypes, ControlTypes
    <2>2. CASE p_s' = p_s
      BY <1>0, <2>2 DEF OtherTypes
    <2>3. QED BY <2>1, <2>2 DEF TimerInterrupt, TimerTick, TimerTickEnd, TermTransm,
             InterruptExit, DevInterrupt, TermInterrupt
  <1>6. OtherTypes'
    BY <1>0, <1>1, <1>2, <1>4, <1>5 DEF OtherTypes
  <1>7. /\ ControlTypes'
        /\ cpu' \in {"timer", "int_exit", "timer_exit", "term_transm", "scheduler", "undefined"}
    BY <1>0, <1>1, DevAddr DEF ControlTypes, CpuStates, Dead, Windows, Exits, InsideP, Served, TimerInterrupt, TimerTick,
       TimerTickEnd, TermTransm, InterruptExit, DevInterrupt, TermInterrupt, InterruptEntry
  <1>8. TreeInv' /\ TargetInv'
    BY <1>0, <1>1, <1>7, TreeFrame DEF TargetInv
  <1>9. QED BY <1>4, <1>6, <1>7, <1>8, NextIInvParts

\* scheduler(), in each of its modes.
LEMMA SchedulerStep ==
  ASSUME IInv, LoadCurrent \/ LoadNext
  PROVE  IInv'
  <1>0. /\ SemTypes /\ OtherTypes /\ ControlTypes
        /\ TypeOK /\ QueueInv /\ CountInv /\ TreeInv
    BY TypeParts DEF IInv
  <1>1. CASE LoadCurrent
    <2>1. /\ UNCHANGED <<tree, sems, readyqueue, current_process>>
          /\ pseudoclockflag' = pseudoclockflag /\ tags' = tags /\ p_s' = p_s
          /\ device' = device /\ flag' = flag /\ arg' = arg /\ flag = "LOADCURRENT"
          /\ cpu' \in {"user", "int_exit", "undefined"}
      BY <1>1 DEF LoadCurrent, sched, Resume
    <2>2. QueueInv' /\ CountInv' /\ TreeInv'
      BY <1>0, <2>1, FrameStep
    <2>3. SemTypes' /\ OtherTypes'
      BY <1>0, <2>1 DEF SemTypes, OtherTypes, sems, tree
    <2>4. ControlTypes' /\ TargetInv'
      BY <1>0, <2>1 DEF ControlTypes, TargetInv, CpuStates, Windows, Exits, InsideP, Dead
    <2>5. QED BY <2>1, <2>2, <2>3, <2>4, NextIInvParts
  <1>2. CASE LoadNext
    <2>1. /\ UNCHANGED <<tree, tags, p_s, device, flag, arg>> /\ flag # "LOADCURRENT"
      BY <1>2 DEF LoadNext
    <2>2. pseudoclockflag' \in BOOLEAN
      BY <1>2 DEF LoadNext
    <2>3. /\ QueueInv' /\ CountInv' /\ SemTypes'
          /\ current_process' \in Proc \cup {NULL}
          /\ \/ current_process' # NULL /\ cpu' \in {"user", "int_exit", "undefined"}
             \/ current_process' = NULL /\ cpu' \in {"halt", "wait"}
      BY <1>2, LoadNextStep
    <2>4. OtherTypes'
      BY <1>0, <2>1, <2>2 DEF OtherTypes, tree
    <2>5. ControlTypes' /\ TargetInv'
      BY <1>0, <2>1, <2>3 DEF ControlTypes, TargetInv, CpuStates, Windows, Exits, InsideP, Dead
    <2>6. TreeInv'
      BY <1>0, <2>1, TreeFrame
    <2>7. QED BY <2>3, <2>4, <2>5, <2>6, NextIInvParts
  <1>3. QED BY <1>1, <1>2

\* Steps of the machine: a device finishes, or nothing happens.
LEMMA MachineStep ==
  ASSUME IInv, (\E d \in Dev : DeviceDone(d)) \/ UNCHANGED vars
  PROVE  IInv'
  <1>0. /\ SemTypes /\ OtherTypes /\ ControlTypes
        /\ TypeOK /\ QueueInv /\ CountInv /\ TreeInv /\ TargetInv
    BY TypeParts DEF IInv
  <1>1. UNCHANGED <<tree, sems, sched, tags, p_s, flag, cpu, arg>>
    BY DEF DeviceDone, vars
  <1>2. UNCHANGED <<tree, sems, readyqueue, current_process>> /\ pseudoclockflag' = pseudoclockflag
    BY <1>1 DEF sched
  <1>3. device' \in [Dev -> {"idle", "busy", "done", "error"}]
    BY <1>0 DEF DeviceDone, OtherTypes, vars
  <1>4. QueueInv' /\ CountInv' /\ TreeInv'
    BY <1>0, <1>2, FrameStep
  <1>5. SemTypes' /\ OtherTypes'
    BY <1>0, <1>1, <1>2, <1>3 DEF SemTypes, OtherTypes, sems, tree
  <1>6. ControlTypes'
    BY <1>0, <1>1, <1>2 DEF ControlTypes, Live, tree
  <1>7. TargetInv'
    BY <1>0, <1>1, <1>2 DEF TargetInv, Progeny, Closed, tree
  <1>8. cpu' \notin {"panic_semd", "panic_deadlock"}
    BY <1>1 DEF IInv
  <1>9. QED BY <1>4, <1>5, <1>6, <1>7, <1>8, NextIInvParts

\* create_process.
LEMMA CreateKeepsIInv ==
  ASSUME IInv, CreateProcess
  PROVE  IInv'
  <1>0. OtherTypes /\ ControlTypes
    BY TypeParts DEF IInv
  <1>1. /\ QueueInv' /\ CountInv' /\ TreeInv' /\ SemTypes'
        /\ pcbFree' \subseteq Proc /\ p_parent' \in [Proc -> Proc \cup {NULL}]
        /\ tags' \in [Proc -> SUBSET ExcType] /\ process_count' \in Int
    BY CreateStep
  <1>2. /\ cpu = "user"
        /\ \E child \in pcbFree :
             p_s' = [p_s EXCEPT ![current_process] = "user", ![child] = "user"]
        /\ flag' = "LOADCURRENT" /\ cpu' = "scheduler"
        /\ UNCHANGED <<current_process, pseudoclockflag, device, arg>>
    BY DEF CreateProcess
  <1>3. OtherTypes'
    BY <1>0, <1>1, <1>2 DEF OtherTypes, ControlTypes
  <1>4. ControlTypes' /\ TargetInv'
    BY <1>0, <1>2 DEF ControlTypes, TargetInv, CpuStates
  <1>5. QED BY <1>1, <1>2, <1>3, <1>4, NextIInvParts

-----------------------------------------------------------------------------
(* An interrupt inside the P of io_devop *)

\* Without "io_interrupted" io_devop runs its P to the end.
LEMMA IoPWhole ==
  ASSUME "io_interrupted" \notin Hazards, IoP
  PROVE  WholeP
  <1>1. InsideP \cap Interruptible = {}
    BY DEF Interruptible, InsideP, Exits
  <1>2. QED BY <1>1 DEF IoP, WholeP

\* Elements of the two parts of a queue that a V divides.
LEMMA PartsOf ==
  ASSUME NEW q \in Seq(Proc), NEW n \in 0 .. Len(q), NEW r \in Seq(Proc)
  PROVE  /\ SubSeq(q, 1, n) \in Seq(Proc) /\ SubSeq(q, n + 1, Len(q)) \in Seq(Proc)
         /\ r \o SubSeq(q, 1, n) \in Seq(Proc)
         /\ ToSet(q) \cup ToSet(r)
              \subseteq ToSet(SubSeq(q, n + 1, Len(q))) \cup ToSet(r \o SubSeq(q, 1, n))
  <1> DEFINE out == SubSeq(q, 1, n)
             rest == SubSeq(q, n + 1, Len(q))
  <1>1. /\ out \in Seq(Proc) /\ Len(out) = n /\ \A i \in 1 .. n : out[i] = q[i]
        /\ rest \in Seq(Proc) /\ Len(rest) = Len(q) - n
        /\ \A i \in 1 .. Len(q) - n : rest[i] = q[n + i]
    OBVIOUS
  <1> HIDE DEF out, rest
  <1>2. r \o out \in Seq(Proc) /\ ToSet(r \o out) = ToSet(r) \cup ToSet(out)
    BY <1>1, ConcatElements
  <1>3. ASSUME NEW x \in ToSet(q) PROVE x \in ToSet(rest) \cup ToSet(out)
    <2>0. /\ ToSet(q) = {q[i] : i \in 1 .. Len(q)}
          /\ ToSet(out) = {out[i] : i \in 1 .. Len(out)}
          /\ ToSet(rest) = {rest[i] : i \in 1 .. Len(rest)}
      BY <1>1, ElementsOf
    <2>1. PICK i \in 1 .. Len(q) : x = q[i]
      BY <1>3, <2>0
    <2>2. CASE i <= n
      <3>1. i \in 1 .. Len(out) /\ out[i] = x
        BY <1>1, <2>1, <2>2
      <3>2. QED BY <3>1, <2>0
    <2>3. CASE i > n
      <3>1. i - n \in 1 .. Len(rest) /\ rest[i - n] = x
        BY <1>1, <2>1, <2>3
      <3>2. QED BY <3>1, <2>0
    <2>4. QED BY <2>1, <2>2, <2>3
  <1>4. QED BY <1>1, <1>2, <1>3 DEF out, rest

\* A V leaves everybody who is in a queue in one.
LEMMA TornVerhogen ==
  ASSUME SemTypes, NEW a \in Addr, NEW w \in Int, Verhogen(a, w)
  PROVE  /\ SemTypes'
         /\ Blocked \cup ToSet(readyqueue) \subseteq (Blocked \cup ToSet(readyqueue))'
  <1>0. s_procq[a] \in Seq(Proc) /\ readyqueue \in Seq(Proc) /\ s_procq \in [Addr -> Seq(Proc)]
    BY DEF SemTypes
  <1>1. PICK n \in 0 .. Len(s_procq[a]) :
          LET out == SubSeq(s_procq[a], 1, n)
          IN /\ s_procq' = [s_procq EXCEPT ![a] = SubSeq(s_procq[a], n + 1, Len(s_procq[a]))]
             /\ readyqueue' = readyqueue \o out
             /\ p_cursem' = [p \in Proc |-> IF p \in ToSet(out) THEN NULL ELSE p_cursem[p]]
             /\ res_wait' = [p \in Proc |-> IF p \in ToSet(out) THEN 0 ELSE res_wait[p]]
             /\ semaphore' = [semaphore EXCEPT ![a] = semaphore[a] + w]
             /\ soft_block_count' = soft_block_count - n
    BY DEF Verhogen
  <1> DEFINE out == SubSeq(s_procq[a], 1, n)
             rest == SubSeq(s_procq[a], n + 1, Len(s_procq[a]))
  <1>2. /\ rest \in Seq(Proc) /\ readyqueue \o out \in Seq(Proc)
        /\ ToSet(s_procq[a]) \cup ToSet(readyqueue)
             \subseteq ToSet(rest) \cup ToSet(readyqueue \o out)
    BY <1>0, PartsOf
  <1>3. /\ s_procq' = [s_procq EXCEPT ![a] = rest] /\ readyqueue' = readyqueue \o out
        /\ p_cursem' = [p \in Proc |-> IF p \in ToSet(out) THEN NULL ELSE p_cursem[p]]
        /\ res_wait' = [p \in Proc |-> IF p \in ToSet(out) THEN 0 ELSE res_wait[p]]
        /\ semaphore' = [semaphore EXCEPT ![a] = semaphore[a] + w]
        /\ soft_block_count' = soft_block_count - n
    BY <1>1
  <1>4. n \in Int
    BY <1>0, LenProperties
  <1> HIDE DEF out, rest
  <1>5. SemTypes'
    BY <1>2, <1>3, <1>4 DEF SemTypes
  <1>6. ASSUME NEW x \in Blocked PROVE x \in (Blocked \cup ToSet(readyqueue))'
    <2>1. PICK b \in Addr : x \in ToSet(s_procq[b])
      BY DEF Blocked
    <2>2. b = a \/ s_procq'[b] = s_procq[b]
      BY <1>0, <1>3
    <2>3. s_procq'[a] = rest
      BY <1>0, <1>3
    <2>4. QED BY <1>2, <1>3, <2>1, <2>2, <2>3 DEF Blocked
  <1>7. ASSUME NEW x \in ToSet(readyqueue) PROVE x \in (Blocked \cup ToSet(readyqueue))'
    <2>1. s_procq'[a] = rest
      BY <1>0, <1>3
    <2>2. x \in ToSet(s_procq'[a]) \/ x \in ToSet(readyqueue')
      BY <1>2, <1>3, <2>1
    <2>3. QED BY <2>2 DEF Blocked
  <1>8. QED BY <1>5, <1>6, <1>7

\* After the interrupt nothing changes the tree or who is current, until
\* scheduler() puts a process that is in a queue into the ready queue.
LEMMA TornStep ==
  ASSUME Torn, [Next]_vars
  PROVE  Torn' /\ UNCHANGED <<tree, current_process>>
  <1>0. /\ SemTypes /\ OtherTypes /\ ControlTypes /\ TreeInv
        /\ current_process \in Live /\ current_process \in Proc
        /\ current_process \in Blocked \cup ToSet(readyqueue)
    BY TypeParts DEF Torn, Live
  <1>1. CASE UNCHANGED vars
    <2>1. UNCHANGED <<tree, sems, sched, tags, p_s, device, flag, cpu, arg>>
      BY <1>1 DEF vars
    <2>2. TypeOK' /\ TreeInv'
      BY <2>1 DEF Torn, TypeOK, TreeInv, Live, tree, sems, sched
    <2>3. QED BY <2>1, <2>2 DEF Torn, Live, Blocked, tree, sems, sched
  <1>2. CASE \E d \in Dev : DeviceDone(d)
    <2>1. UNCHANGED <<tree, sems, sched, tags, p_s, flag, cpu, arg>>
      BY <1>2 DEF DeviceDone
    <2>2. device' \in [Dev -> {"idle", "busy", "done", "error"}]
      BY <1>0, <1>2 DEF DeviceDone, OtherTypes
    <2>3. TypeOK' /\ TreeInv'
      BY <2>1, <2>2 DEF Torn, TypeOK, TreeInv, Live, tree, sems, sched
    <2>4. QED BY <2>1, <2>3 DEF Torn, Live, Blocked, tree, sems, sched
  <1>3. CASE LoadNext
    <2>1. /\ cpu' = "undefined"
          /\ UNCHANGED <<tree, sems, tags, p_s, device, flag, arg, current_process, readyqueue>>
      BY <1>0, <1>3 DEF LoadNext
    <2>2. pseudoclockflag' \in BOOLEAN
      BY <1>3 DEF LoadNext
    <2>3. TypeOK' /\ TreeInv'
      BY <1>0, <2>1, <2>2, NullAssumption
      DEF Torn, TypeOK, TreeInv, Live, tree, sems, CpuStates, Dead, InsideP
    <2>4. QED BY <2>1, <2>3 DEF Torn, Live, Blocked, tree, sems
  <1>4. ASSUME \/ TimerInterrupt \/ TimerTick \/ TimerTickEnd \/ TermTransm \/ InterruptExit
               \/ \E d \in Plain : DevInterrupt(d)
               \/ \E d \in Transm : TermInterrupt(d)
        PROVE  Torn' /\ UNCHANGED <<tree, current_process>>
    <2>1. UNCHANGED <<tree, current_process, pseudoclockflag, tags>>
      BY <1>4 DEF TimerInterrupt, TimerTick, TimerTickEnd, TermTransm, InterruptExit,
         DevInterrupt, TermInterrupt, sched
    <2>2. ASSUME NEW d \in Dev, Serve(d)
          PROVE  /\ SemTypes'
                 /\ Blocked \cup ToSet(readyqueue) \subseteq (Blocked \cup ToSet(readyqueue))'
                 /\ device' \in [Dev -> {"idle", "busy", "done", "error"}]
      <3>1. device' \in [Dev -> {"idle", "busy", "done", "error"}]
        BY <1>0, <2>2 DEF Serve, OtherTypes
      <3>2. CASE UNCHANGED <<sems, readyqueue>>
        BY <1>0, <3>1, <3>2 DEF SemTypes, Blocked, sems
      <3>3. CASE Verhogen(d, 1)
        BY <1>0, <3>1, <3>3, DevAddr, TornVerhogen
      <3>4. QED BY <2>2, <3>2, <3>3 DEF Serve
    <2>3. /\ SemTypes'
          /\ Blocked \cup ToSet(readyqueue) \subseteq (Blocked \cup ToSet(readyqueue))'
          /\ device' \in [Dev -> {"idle", "busy", "done", "error"}]
      <3>1. CASE UNCHANGED <<sems, readyqueue, device>>
        BY <1>0, <3>1 DEF SemTypes, OtherTypes, Blocked, sems
      <3>2. CASE TimerTick
        BY <1>0, <3>2, DevAddr, TornVerhogen DEF TimerTick, OtherTypes
      <3>3. CASE TermTransm /\ ~UNCHANGED <<sems, readyqueue, device>>
        <4>1. arg \in Dev /\ Serve(arg)
          BY <1>0, <3>3 DEF TermTransm, ControlTypes
        <4>2. QED BY <2>2, <4>1
      <3>4. ASSUME NEW d \in Plain, DevInterrupt(d)
            PROVE  d \in Dev /\ Serve(d)
        BY <3>4, DevAddr DEF DevInterrupt
      <3>5. ASSUME NEW d \in Transm, TermInterrupt(d), ~UNCHANGED <<sems, readyqueue, device>>
            PROVE  d + NTerm \in Dev /\ Serve(d + NTerm)
        BY <3>5, DevAddr DEF TermInterrupt
      <3>6. QED BY <1>4, <2>2, <3>1, <3>2, <3>3, <3>4, <3>5
            DEF TimerInterrupt, TimerTickEnd, InterruptExit, sched
    <2>4. p_s' \in [Proc -> {"user"} \cup Windows]
      <3>1. ASSUME InterruptEntry PROVE p_s' \in [Proc -> {"user"} \cup Windows]
        <4>1. cpu \in {"user"} \cup Windows
          BY <1>0, <3>1, NullAssumption DEF InterruptEntry, Interruptible, ControlTypes, Windows
        <4>2. QED BY <1>0, <3>1, <4>1 DEF InterruptEntry, OtherTypes
      <3>2. CASE p_s' = p_s
        BY <1>0, <3>2 DEF OtherTypes
      <3>3. QED BY <1>4, <3>1, <3>2 DEF TimerInterrupt, TimerTick, TimerTickEnd, TermTransm,
               InterruptExit, DevInterrupt, TermInterrupt
    <2>5. OtherTypes'
      BY <1>0, <2>1, <2>3, <2>4 DEF OtherTypes, tree
    <2>6. /\ ControlTypes'
          /\ \/ cpu' = "undefined"
             \/ cpu' \in {"timer", "term_transm", "int_exit", "timer_exit", "scheduler"}
                /\ flag' # "LOADCURRENT"
      BY <1>0, <1>4, <2>1, NullAssumption, DevAddr
      DEF Torn, ControlTypes, CpuStates, Dead, Windows, Exits, InsideP, Served, TimerInterrupt,
          TimerTick, TimerTickEnd, TermTransm, InterruptExit, DevInterrupt, TermInterrupt,
          InterruptEntry
    <2>7. TypeOK' /\ TreeInv'
      BY <1>0, <2>1, <2>3, <2>5, <2>6, TypeParts, TreeFrame
      DEF TypeOK, SemTypes, OtherTypes, ControlTypes
    <2>8. QED BY <1>0, <2>1, <2>3, <2>6, <2>7 DEF Torn, Live, tree
  <1>5. CASE Syscall
    <2>1. cpu \in {"user", "io_entry"}
      BY <1>5 DEF Syscall, CreateProcess, QuerySyscall, ExitTrap, TerminateUnknown, SemopZero,
         SemopNull, WaitClock, TerminateProcess, SemopP, SemopV, Specify, Exception, IoDevop,
         SyscallEntry
    <2>2. QED BY <2>1 DEF Torn
  <1>6. CASE Kernel /\ ~LoadNext
    <2>1. \/ TimerTick \/ TimerTickEnd \/ TermTransm \/ InterruptExit
          \/ cpu \in {"io_entry", "io_command", "io_issued", "terminate"}
          \/ cpu = "scheduler" /\ flag = "LOADCURRENT"
      BY <1>6 DEF Kernel, IoP, IoCommand, IoReturn, TerminateCurrent, TerminateOther,
         TerminateChild, LoadCurrent
    <2>2. QED BY <2>1, <1>4 DEF Torn
  <1>7. QED BY <1>1, <1>2, <1>3, <1>4, <1>5, <1>6 DEF Next, Stopped, Interrupt

\* An interrupt before the caller is in the queue leaves the invariant as it
\* is; a later one tears it.
LEMMA CutStep ==
  ASSUME IInv, IoP, ~WholeP
  PROVE  IInv' \/ Torn'
  <1>0. /\ SemTypes /\ OtherTypes /\ ControlTypes
        /\ TypeOK /\ QueueInv /\ CountInv /\ TreeInv
    BY TypeParts DEF IInv
  <1>1. PICK stop \in InsideP : PUpTo(arg, stop)
    BY DEF IoP, WholeP
  <1>2. /\ cpu = "io_entry" /\ cpu' = stop /\ current_process' = current_process
        /\ flag' = flag /\ arg \in Addr
        /\ UNCHANGED <<tree, readyqueue, pseudoclockflag, tags, p_s, device, arg>>
    BY <1>0, <1>1, DevAddr DEF IoP, PUpTo, ControlTypes
  <1>3. current_process \in Proc /\ current_process \in Live
    BY <1>0, <1>2 DEF ControlTypes, QueueInv, Live
  <1>4. /\ semaphore' = [semaphore EXCEPT ![arg] = semaphore[arg] - 1]
        /\ res_wait' = [res_wait EXCEPT ![current_process] = -1]
        /\ soft_block_count' = soft_block_count + (IF stop = "io_counted" THEN 1 ELSE 0)
    BY <1>1 DEF PUpTo
  <1>5. OtherTypes' /\ TreeInv' /\ TargetInv'
    BY <1>0, <1>1, <1>2, TreeFrame DEF OtherTypes, TargetInv, InsideP, tree
  <1>6. ControlTypes' /\ cpu' \notin {"panic_semd", "panic_deadlock"}
    BY <1>0, <1>1, <1>2 DEF ControlTypes, CpuStates, Windows, IoWindows, InsideP
  <1>7. CASE stop = "io_charged"
    <2>1. s_procq' = s_procq /\ p_cursem' = p_cursem /\ soft_block_count' = soft_block_count
      BY <1>0, <1>1, <1>4, <1>7 DEF PUpTo, SemTypes
    <2>2. SemTypes'
      BY <1>0, <1>2, <1>3, <1>4, <2>1 DEF SemTypes
    <2>3. QueueInv' /\ CountInv'
      BY <1>0, <1>2, <2>1 DEF QueueInv, CountInv, Waiting, Live, tree
    <2>4. QED BY <1>5, <1>6, <2>2, <2>3, NextIInvParts
  <1>8. CASE stop # "io_charged"
    <2>1. /\ s_procq' = [s_procq EXCEPT ![arg] = Append(s_procq[arg], current_process)]
          /\ p_cursem' = [p_cursem EXCEPT ![current_process] = arg]
      BY <1>1, <1>8 DEF PUpTo
    <2>2. s_procq[arg] \in Seq(Proc)
      BY <1>0, <1>2 DEF SemTypes
    <2>3. /\ Append(s_procq[arg], current_process) \in Seq(Proc)
          /\ current_process \in ToSet(Append(s_procq[arg], current_process))
      <3> DEFINE q == Append(s_procq[arg], current_process)
      <3>1. q \in Seq(Proc) /\ Len(q) \in 1 .. Len(q) /\ q[Len(q)] = current_process
        BY <1>3, <2>2
      <3> HIDE DEF q
      <3>2. current_process \in ToSet(q)
        BY <3>1, ElementsOf
      <3>3. QED BY <3>1, <3>2 DEF q
    <2>4. SemTypes'
      BY <1>0, <1>2, <1>3, <1>4, <2>1, <2>3 DEF SemTypes
    <2>5. s_procq'[arg] = Append(s_procq[arg], current_process)
      BY <1>0, <1>2, <2>1 DEF SemTypes
    <2>6. current_process' \in Blocked'
      BY <1>2, <2>3, <2>5 DEF Blocked
    <2>7. TypeOK'
      BY <1>5, <1>6, <2>4 DEF TypeOK, SemTypes, OtherTypes, ControlTypes
    <2>8. cpu' \in {"io_queued", "io_counted"}
      BY <1>1, <1>2, <1>8 DEF InsideP
    <2>9. QED BY <1>2, <1>3, <1>5, <2>6, <2>7, <2>8 DEF Torn, Live, tree
  <1>9. QED BY <1>7, <1>8

\* Every step of the nucleus and of the machine but an interrupted P keeps
\* the invariant.
LEMMA StepIInv ==
  ASSUME IInv, [Next]_vars, IoP => WholeP
  PROVE  IInv'
  <1>1. CASE Syscall
    BY <1>1, CreateKeepsIInv, PlainSyscall, KillingSyscall, SemopStep DEF Syscall
  <1>2. CASE Interrupt
    BY <1>2, InterruptStep DEF Interrupt
  <1>3. CASE Kernel
    BY <1>3, SemopStep, PlainSyscall, TerminateStep, InterruptStep, SchedulerStep DEF Kernel
  <1>4. CASE (\E d \in Dev : DeviceDone(d)) \/ UNCHANGED vars
    BY <1>4, MachineStep
  <1>5. QED BY <1>1, <1>2, <1>3, <1>4 DEF Next, Stopped

LEMMA NextIInv ==
  ASSUME "io_interrupted" \notin Hazards
  PROVE  IInv /\ [Next]_vars => IInv'
  BY StepIInv, IoPWhole

\* With every hazard: the invariant holds, or an interrupt has torn the P.
LEMMA NextTorn == (IInv \/ Torn) /\ [Next]_vars => (IInv \/ Torn)'
  BY StepIInv, CutStep, TornStep

-----------------------------------------------------------------------------
(* Theorems *)

\* Where every process is, what the counters count and what the tree is, in
\* every behaviour without an interrupt in io_devop.
THEOREM InvariantHolds ==
  ASSUME "io_interrupted" \notin Hazards
  PROVE  Spec => []IInv
  BY InitIInv, NextIInv, PTL DEF Spec

\* With every hazard: the same, or an interrupt has found the current process
\* between syscall.c:192 and 199.  Then it is so for ever: the tree stays as it
\* is, no process is loaded (see Torn), and the next scheduler() requeues a
\* process that is in a queue already.
THEOREM InvariantOrTorn ==
  Spec => /\ [](IInv \/ Torn)
          /\ [][Torn => Torn' /\ UNCHANGED <<tree, current_process>>]_vars
  <1>1. Torn /\ [Next]_vars => Torn' /\ UNCHANGED <<tree, current_process>>
    BY TornStep
  <1>2. QED BY <1>1, InitIInv, NextTorn, PTL DEF Spec

\* The variables keep their types and the nucleus never uses a NULL
\* current_process, whatever processes and devices do.
THEOREM TypeCorrect == Spec => []TypeOK
  <1>1. IInv \/ Torn => TypeOK
    BY DEF IInv, Torn
  <1>2. QED BY <1>1, InvariantOrTorn, PTL

\* Every living process is in exactly one place, once, unless an interrupt
\* comes inside the P of io_devop.
THEOREM PlacementHolds ==
  ASSUME "io_interrupted" \notin Hazards
  PROVE  Spec => []Placement
  <1>1. IInv => Placement
    BY PlacementFollows DEF IInv
  <1>2. QED BY <1>1, InvariantHolds, PTL

\* process_count and soft_block_count are exact, under the same hypothesis.
THEOREM CountsHold ==
  ASSUME "io_interrupted" \notin Hazards
  PROVE  Spec => []CountsAgree
  <1>1. IInv => CountsAgree
    BY PlacementFollows DEF IInv
  <1>2. QED BY <1>1, InvariantHolds, PTL

-----------------------------------------------------------------------------
(***************************************************************************)
(* The values of the semaphores: the unit semaphores of the devices and of  *)
(* the pseudo-clock with every hazard, those of the processes as long as a  *)
(* P asks for one resource.  Everything rests on one number, the value of a *)
(* semaphore plus the length of its queue, and on every waiter having asked *)
(* for one resource (WaitersInv), which makes the sums of the V loop        *)
(* lengths.                                                                 *)
(***************************************************************************)

\* A P of the processes asks for a single resource; a V may give several.
UnitRequests == \A w \in Weights : w >= -1

\* Value plus waiters: what is left once the waiters are served, if each
\* asks for one resource.
Balance(a) == semaphore[a] + Len(s_procq[a])

\* Every waiter asks for one resource.
WaitersInv(A) == \A a \in A : \A p \in ToSet(s_procq[a]) : res_wait[p] = -1

\* The pseudo-clock's value is never above minus the number of waiters, and
\* right after a tick both are 0.
ClockInv ==
  /\ Balance(CLOCK) <= 0
  /\ flag = "RESET" => s_procq[CLOCK] = <<>> /\ semaphore[CLOCK] = 0

\* A semaphore with waiters has exactly their demand missing.
SemInv ==
  \A a \in Sem : /\ Balance(a) >= 0
                 /\ s_procq[a] # <<>> => Balance(a) = 0

\* The semaphore of a device is down exactly while an operation is under way,
\* with at most the requester in its queue; io_devop starts on an idle device.
Engaged(d) == device[d] # "idle" \/ (cpu = "io_command" /\ arg = d)

DeviceInv ==
  /\ \A d \in Dev : IF Engaged(d) THEN semaphore[d] = -1 /\ Len(s_procq[d]) <= 1
                    ELSE semaphore[d] = 0 /\ s_procq[d] = <<>>
  /\ cpu = "io_entry" => ~Engaged(arg)

\* There is at most one process without a parent.
RootInv == \A p, q \in Live : p_parent[p] = NULL /\ p_parent[q] = NULL => p = q

-----------------------------------------------------------------------------
(* What P, V and a termination do to one semaphore *)

\* The elements of a queue live, and p_cursem says where they are.
LEMMA WaiterLives ==
  ASSUME IInv, NEW a \in Addr, NEW p \in ToSet(s_procq[a])
  PROVE  p \in Live /\ p \in Proc /\ p_cursem[p] = a
  <1>1. s_procq[a] \in Seq(Proc)
    BY DEF IInv, TypeOK
  <1>2. p \in Proc
    BY <1>1, ElementsOf
  <1>3. QED BY <1>2 DEF IInv, QueueInv

\* Lengths and elements of the queues.
LEMMA QueueFacts ==
  ASSUME IInv, NEW a \in Addr
  PROVE  /\ s_procq[a] \in Seq(Proc) /\ IsInjective(s_procq[a])
         /\ Len(s_procq[a]) \in Nat /\ semaphore[a] \in Int
         /\ s_procq[a] = <<>> <=> Len(s_procq[a]) = 0
         /\ ToSet(s_procq[a]) \subseteq Proc
  <1>1. s_procq[a] \in Seq(Proc) /\ IsInjective(s_procq[a]) /\ semaphore[a] \in Int
    BY DEF IInv, TypeOK, QueueInv
  <1>2. QED BY <1>1, LenProperties, EmptySeq, ElementsOf

\* A P that passes takes the resources, one that does not queues the caller.
LEMMA PEffect ==
  ASSUME IInv, NEW a \in Addr, NEW w \in Int, NEW next, Passeren(a, w, next),
         current_process # NULL
  PROVE  /\ \A b \in Addr \ {a} : semaphore'[b] = semaphore[b] /\ s_procq'[b] = s_procq[b]
         /\ semaphore'[a] = semaphore[a] + w
         /\ cpu' = next
         /\ \/ /\ semaphore[a] + w >= 0
               /\ s_procq' = s_procq /\ res_wait' = res_wait
               /\ flag' = "LOADCURRENT"
            \/ /\ semaphore[a] + w < 0
               /\ Len(s_procq'[a]) = Len(s_procq[a]) + 1
               /\ ToSet(s_procq'[a]) = ToSet(s_procq[a]) \cup {current_process}
               /\ current_process \in Live /\ p_cursem[current_process] = NULL
               /\ res_wait' = [res_wait EXCEPT ![current_process] = w]
               /\ flag' = "LOADNEXT"
  <1>0. /\ current_process \in Proc /\ current_process \in Live /\ p_cursem[current_process] = NULL
        /\ s_procq \in [Addr -> Seq(Proc)] /\ semaphore \in [Addr -> Int]
    BY DEF IInv, TypeOK, QueueInv
  <1>1. semaphore' = [semaphore EXCEPT ![a] = semaphore[a] + w]
    BY DEF Passeren
  <1>2. CASE semaphore[a] + w >= 0
    BY <1>0, <1>1, <1>2 DEF Passeren
  <1>3. CASE ~(semaphore[a] + w >= 0)
    <2>1. ~NoSemd(a)
      BY SemdLeft DEF IInv
    <2>2. /\ s_procq' = [s_procq EXCEPT ![a] = Append(s_procq[a], current_process)]
          /\ res_wait' = [res_wait EXCEPT ![current_process] = w]
          /\ flag' = "LOADNEXT" /\ cpu' = next
      BY <1>3, <2>1 DEF Passeren, Block
    <2>3. /\ Len(Append(s_procq[a], current_process)) = Len(s_procq[a]) + 1
          /\ ToSet(Append(s_procq[a], current_process)) = ToSet(s_procq[a]) \cup {current_process}
      <3>1. s_procq[a] \in Seq(Proc)
        BY <1>0
      <3>2. QED BY <1>0, <3>1, AppendElements, AppendProperties
    <2>4. semaphore[a] + w < 0
      BY <1>0, <1>3
    <2>5. QED BY <1>0, <1>1, <2>2, <2>3, <2>4
  <1>4. QED BY <1>2, <1>3

\* Resources the first k waiters of a queue of one-resource waiters ask for.
LEMMA DemandUnits ==
  ASSUME IInv, NEW a \in Addr, \A p \in ToSet(s_procq[a]) : res_wait[p] = -1,
         NEW k \in 0 .. Len(s_procq[a])
  PROVE  Demand(s_procq[a], k) = k
  <1> DEFINE q == s_procq[a]
             s == SubSeq(q, 1, k)
  <1>1. q \in Seq(Proc) /\ IsInjective(q) /\ Len(q) \in Nat
    BY QueueFacts
  <1> HIDE DEF q
  <1>2. s \in Seq(Proc) /\ IsInjective(s) /\ ToSet(s) \subseteq ToSet(q)
        /\ Cardinality(ToSet(s)) = k
    BY <1>1, SplitElements DEF q
  <1>3. Demand(q, k) = Owed(res_wait, s)
    BY DEF Demand, Owed
  <1> HIDE DEF s
  <1>4. Len(s) = k
    BY <1>2, DistinctLength
  <1>5. \A i \in 1 .. Len(s) : s[i] \in ToSet(s)
    BY <1>2, ElementsOf
  <1>6. \A i \in 1 .. Len(s) : res_wait[s[i]] = -1
    BY <1>2, <1>5 DEF q
  <1>7. Owed(res_wait, s) = Len(s)
    BY <1>2, <1>6, OwedUnits
  <1>8. QED BY <1>3, <1>4, <1>7 DEF q

\* A V on a queue of one-resource waiters serves as many as there are resources
\* for: if some still wait nothing is left, and no more than that is spent.
LEMMA VEffect ==
  ASSUME IInv, NEW a \in Addr, NEW w \in Int, Verhogen(a, w),
         \A p \in ToSet(s_procq[a]) : res_wait[p] = -1
  PROVE  /\ \A b \in Addr \ {a} : semaphore'[b] = semaphore[b] /\ s_procq'[b] = s_procq[b]
         /\ semaphore'[a] = semaphore[a] + w
         /\ Len(s_procq'[a]) \in 0 .. Len(s_procq[a])
         /\ s_procq'[a] = <<>> <=> Len(s_procq'[a]) = 0
         /\ Len(s_procq'[a]) > 0 => semaphore[a] + w + Len(s_procq'[a]) <= 0
         /\ Len(s_procq'[a]) < Len(s_procq[a]) => semaphore[a] + w + Len(s_procq'[a]) >= 0
         /\ ToSet(s_procq'[a]) \subseteq ToSet(s_procq[a])
         /\ \A p \in Proc : p_cursem[p] # a \/ p \in ToSet(s_procq'[a]) => res_wait'[p] = res_wait[p]
  <1> DEFINE q == s_procq[a]
             value == semaphore[a] + w
             L == Len(q)
  <1>0. /\ s_procq \in [Addr -> Seq(Proc)] /\ semaphore \in [Addr -> Int]
        /\ q \in Seq(Proc) /\ IsInjective(q) /\ L \in Nat /\ value \in Int
    BY QueueFacts DEF IInv, TypeOK
  <1>1. PICK n \in 0 .. L :
          /\ \A k \in 0 .. n - 1 : ReleasesNext(a, value, k)
          /\ ~ReleasesNext(a, value, n)
          /\ LET out == SubSeq(q, 1, n)
             IN /\ s_procq' = [s_procq EXCEPT ![a] = SubSeq(q, n + 1, L)]
                /\ res_wait' = [p \in Proc |-> IF p \in ToSet(out) THEN 0 ELSE res_wait[p]]
          /\ semaphore' = [semaphore EXCEPT ![a] = value]
    BY DEF Verhogen
  <1> DEFINE out == SubSeq(q, 1, n)
             rest == SubSeq(q, n + 1, L)
  <1>2. /\ rest \in Seq(Proc) /\ ToSet(out) \cup ToSet(rest) = ToSet(q)
        /\ ToSet(out) \cap ToSet(rest) = {}
    BY <1>0, SplitElements
  <1>3. Len(rest) = L - n
    <2>1. \A i \in n + 1 .. L : q[i] \in Proc
      BY <1>0, ElementOfSeq
    <2>2. Len(rest) = IF n + 1 <= L THEN L - (n + 1) + 1 ELSE 0
      BY <2>1, <1>0, SubSeqProperties
    <2>3. QED BY <2>2, <1>0
  <1>4. s_procq'[a] = rest /\ semaphore'[a] = value
    BY <1>0, <1>1
  <1>5. \A b \in Addr \ {a} : semaphore'[b] = semaphore[b] /\ s_procq'[b] = s_procq[b]
    BY <1>0, <1>1
  <1>6. ASSUME NEW p \in Proc, p_cursem[p] # a \/ p \in ToSet(rest)
        PROVE  res_wait'[p] = res_wait[p]
    <2>1. p \notin ToSet(out)
      BY <1>2, <1>6, WaiterLives
    <2>2. QED BY <1>1, <2>1
  <1>7. \A k \in 0 .. L : Left(a, value, k) = value + L - k
    <2>1. \A k \in 0 .. L : Demand(q, k) = k
      BY DemandUnits
    <2>2. L \in 0 .. L
      BY <1>0
    <2>3. QED BY <2>1, <2>2 DEF Left
  <1>8. \A k \in 0 .. L - 1 : res_wait[q[k + 1]] = -1
    <2>1. ASSUME NEW k \in 0 .. L - 1 PROVE res_wait[q[k + 1]] = -1
      <3>1. k + 1 \in 1 .. Len(q)
        BY <1>0
      <3>2. q[k + 1] \in ToSet(q)
        BY <1>0, <3>1, ElementsOf
      <3>3. QED BY <3>2
    <2>2. QED BY <2>1
  <1> HIDE DEF q, value, out, rest
  <1>9. n < L => value + L - n <= 0
    <2>1. SUFFICES ASSUME n < L PROVE value + L - n <= 0
      OBVIOUS
    <2>2. n \in 0 .. L - 1 /\ n \in 0 .. L
      BY <1>0, <2>1
    <2>3. ~(-1 >= -(value + L - n)) \/ value + L - n = 0
      BY <1>1, <1>7, <1>8, <2>1, <2>2 DEF ReleasesNext, q
    <2>4. QED BY <1>0, <2>2, <2>3
  <1>10. n > 0 => value + L - n >= 0
    <2>1. SUFFICES ASSUME n > 0 PROVE value + L - n >= 0
      OBVIOUS
    <2>2. n - 1 \in 0 .. n - 1 /\ n - 1 \in 0 .. L - 1 /\ n - 1 \in 0 .. L
      BY <1>0, <2>1
    <2>3. -1 >= -(value + L - (n - 1))
      BY <1>1, <1>7, <1>8, <2>2 DEF ReleasesNext, q
    <2>4. QED BY <1>0, <2>2, <2>3
  <1>11. Len(rest) \in 0 .. L /\ (rest = <<>> <=> Len(rest) = 0)
    BY <1>0, <1>2, <1>3, EmptySeq
  <1>12. Len(rest) > 0 => value + Len(rest) <= 0
    BY <1>0, <1>3, <1>9
  <1>13. Len(rest) < L => value + Len(rest) >= 0
    BY <1>0, <1>3, <1>10
  <1>14. QED BY <1>2, <1>4, <1>5, <1>6, <1>11, <1>12, <1>13 DEF q, value

\* A blocked process that is terminated leaves its queue; the value is given
\* back, unless the semaphore is a device's.
LEMMA KEffect ==
  ASSUME IInv, NEW c \in Live, p_cursem[c] # NULL, Unblock(c)
  PROVE  \E a \in Addr :
           /\ \A b \in Addr \ {a} : semaphore'[b] = semaphore[b] /\ s_procq'[b] = s_procq[b]
           /\ c \in ToSet(s_procq[a])
           /\ semaphore'[a] = IF a \in DevSem THEN semaphore[a] ELSE semaphore[a] - res_wait[c]
           /\ Len(s_procq'[a]) = Len(s_procq[a]) - 1
           /\ ToSet(s_procq'[a]) \subseteq ToSet(s_procq[a])
           /\ s_procq'[a] = <<>> <=> Len(s_procq'[a]) = 0
  <1> DEFINE a == p_cursem[c]
             t == Without(s_procq[a], c)
  <1>1. /\ a \in Addr /\ c \in Proc
        /\ s_procq \in [Addr -> Seq(Proc)] /\ semaphore \in [Addr -> Int]
    BY DEF IInv, TypeOK, Live
  <1>2. c \in ToSet(s_procq[a]) /\ s_procq[a] \in Seq(Proc) /\ IsInjective(s_procq[a])
    BY <1>1, QueueFacts DEF IInv, QueueInv
  <1>3. t \in Seq(Proc) /\ IsInjective(t) /\ ToSet(t) = ToSet(s_procq[a]) \ {c}
    BY <1>2, WithoutElements
  <1>4. Len(t) = Len(s_procq[a]) - 1 /\ (t = <<>> <=> Len(t) = 0)
    BY <1>2, <1>3, RemoveLength, EmptySeq
  <1>5. /\ s_procq' = [s_procq EXCEPT ![a] = t]
        /\ semaphore' = [semaphore EXCEPT ![a] =
                           IF a \in DevSem THEN semaphore[a] ELSE semaphore[a] - res_wait[c]]
    BY DEF Unblock
  <1> HIDE DEF a, t
  <1>6. s_procq'[a] = t
    BY <1>1, <1>5
  <1>7. semaphore'[a] = IF a \in DevSem THEN semaphore[a] ELSE semaphore[a] - res_wait[c]
    BY <1>1, <1>5
  <1>8. \A b \in Addr \ {a} : semaphore'[b] = semaphore[b] /\ s_procq'[b] = s_procq[b]
    BY <1>1, <1>5
  <1>9. QED BY <1>1, <1>2, <1>3, <1>4, <1>6, <1>7, <1>8

-----------------------------------------------------------------------------
(* Every step, by what it does to semaphores *)

\* A step that touches no value, no queue and no request of a living process.
SemFrame ==
  /\ semaphore' = semaphore /\ s_procq' = s_procq
  /\ \A p \in Live : res_wait'[p] = res_wait[p]

\* A P by the caller of SYS3, SYS9 or SYS10.
SomeP ==
  /\ current_process # NULL
  /\ \/ \E a \in Sem, w \in Weights : w < 0 /\ Passeren(a, w, "scheduler")
     \/ Passeren(CLOCK, -1, "scheduler")
     \/ arg \in Dev /\ Passeren(arg, -1, "io_command")

\* A V by SYS3, by the tick, or by a device's handler.
SomeV ==
  \/ \E a \in Sem, w \in Weights : w > 0 /\ flag' = "LOADCURRENT" /\ Verhogen(a, w)
  \/ semaphore[CLOCK] < 0 /\ flag' = flag /\ Verhogen(CLOCK, 1)
  \/ \E d \in Dev : flag' \in {flag, "LOADNEXT"} /\ Verhogen(d, 1)

\* The termination of a blocked process.
SomeKill ==
  /\ \E c \in Live : p_cursem[c] # NULL /\ Unblock(c)
  /\ res_wait' = res_wait
  /\ flag' = flag

\* flag becomes RESET only when the V loop of the tick is over.
ResetOnlyAfterTick == flag' = "RESET" => flag = "RESET" \/ semaphore[CLOCK] >= 0

LEMMA SemSteps ==
  ASSUME IInv, [Next]_vars, "io_interrupted" \notin Hazards
  PROVE  \/ SemFrame /\ ResetOnlyAfterTick
         \/ SomeP
         \/ SomeV
         \/ SomeKill
  <1>0. /\ current_process \in Proc \cup {NULL}
        /\ cpu \in {"user", "io_entry", "terminate"} => current_process # NULL
        /\ cpu \in {"io_entry", "io_command", "term_transm"} => arg \in Dev
        /\ flag \in {"START", "RESET", "LOADNEXT", "LOADCURRENT"}
    BY DEF IInv, TypeOK
  <1>1. ASSUME UNCHANGED sems, flag' \in {flag, "LOADNEXT", "LOADCURRENT"}
        PROVE  SemFrame /\ ResetOnlyAfterTick
    BY <1>1 DEF SemFrame, ResetOnlyAfterTick, sems
  <1>2. ASSUME NEW d \in Dev, Serve(d), flag' \in {flag, "LOADNEXT"}
        PROVE  (SemFrame /\ ResetOnlyAfterTick) \/ SomeV
    BY <1>1, <1>2 DEF Serve, SomeV
  <1>3. CASE Syscall
    <2>1. CASE CreateProcess
      <3>1. PICK child \in pcbFree : res_wait' = [res_wait EXCEPT ![child] = 0]
        BY <2>1 DEF CreateProcess
      <3>2. semaphore' = semaphore /\ s_procq' = s_procq /\ flag' = "LOADCURRENT"
        BY <2>1 DEF CreateProcess
      <3>3. res_wait \in [Proc -> Int]
        BY DEF IInv, TypeOK
      <3>4. \A p \in Live : res_wait'[p] = res_wait[p]
        BY <3>1, <3>3 DEF Live
      <3>5. QED BY <3>2, <3>4 DEF SemFrame, ResetOnlyAfterTick
    <2>2. CASE \/ QuerySyscall \/ ExitTrap \/ TerminateUnknown \/ SemopZero \/ SemopNull
               \/ \E t \in Proc : TerminateProcess(t)
               \/ \E t \in ExcType : Specify(t) \/ Exception(t)
               \/ \E d \in Dev : IoDevop(d)
      BY <2>2, <1>1 DEF QuerySyscall, ExitTrap, TerminateUnknown, SemopZero, SemopNull,
         TerminateProcess, Specify, Exception, IoDevop, TerminateBegin
    <2>3. CASE WaitClock
      BY <2>3, <1>0 DEF WaitClock, SyscallEntry, SomeP
    <2>4. CASE \E a \in Sem, w \in Weights : SemopP(a, w)
      BY <2>4, <1>0 DEF SemopP, SyscallEntry, SomeP
    <2>5. CASE \E a \in Sem, w \in Weights : SemopV(a, w)
      BY <2>5 DEF SemopV, SomeV
    <2>6. QED BY <1>3, <2>1, <2>2, <2>3, <2>4, <2>5 DEF Syscall
  <1>4. CASE Interrupt
    <2>1. CASE TimerInterrupt
      BY <2>1, <1>1 DEF TimerInterrupt, InterruptEntry
    <2>2. CASE \E d \in Plain : DevInterrupt(d)
      BY <2>2, <1>2, DevAddr DEF DevInterrupt, InterruptEntry
    <2>3. ASSUME NEW d \in Transm, TermInterrupt(d)
          PROVE  (SemFrame /\ ResetOnlyAfterTick) \/ SomeV
      <3>1. d + NTerm \in Dev /\ flag' = "LOADNEXT"
        BY <2>3, DevAddr DEF TermInterrupt, InterruptEntry
      <3>2. Serve(d + NTerm) \/ UNCHANGED sems
        BY <2>3 DEF TermInterrupt
      <3>3. QED BY <3>1, <3>2, <1>1, <1>2
    <2>4. QED BY <1>4, <2>1, <2>2, <2>3 DEF Interrupt
  <1>5. CASE Kernel
    <2>1. CASE IoP
      BY <2>1, <1>0, IoPWhole DEF WholeP, SomeP
    <2>2. CASE \/ IoCommand \/ IoReturn \/ TerminateCurrent \/ InterruptExit \/ LoadCurrent
               \/ LoadNext
      BY <2>2, <1>1 DEF IoCommand, IoReturn, TerminateCurrent, InterruptExit, LoadCurrent, LoadNext
    <2>3. CASE TerminateOther
      <3>1. arg \in Live /\ Unblock(arg) /\ res_wait' = res_wait /\ flag' = flag
        BY <2>3 DEF TerminateOther, IInv, TypeOK
      <3>2. CASE p_cursem[arg] = NULL
        BY <3>1, <3>2 DEF Unblock, SemFrame, ResetOnlyAfterTick
      <3>3. CASE p_cursem[arg] # NULL
        BY <3>1, <3>3 DEF SomeKill
      <3>4. QED BY <3>2, <3>3
    <2>4. ASSUME NEW c \in Proc, TerminateChild(c)
          PROVE  (SemFrame /\ ResetOnlyAfterTick) \/ SomeKill
      <3>1. /\ c \in Progeny(arg) /\ arg \in Live /\ flag' = flag
        BY <2>4 DEF TerminateChild, IInv, TypeOK
      <3>2. c \in Live
        BY <3>1, ProgenyLive DEF IInv
      <3>3. UNCHANGED sems \/ (Unblock(c) /\ res_wait' = res_wait)
        BY <2>4 DEF TerminateChild
      <3>4. CASE Unblock(c) /\ res_wait' = res_wait /\ p_cursem[c] = NULL
        BY <3>1, <3>4 DEF Unblock, SemFrame, ResetOnlyAfterTick
      <3>5. CASE Unblock(c) /\ res_wait' = res_wait /\ p_cursem[c] # NULL
        BY <3>1, <3>2, <3>5 DEF SomeKill
      <3>6. QED BY <3>1, <3>3, <3>4, <3>5, <1>1
    <2>5. CASE TimerTick
      BY <2>5 DEF TimerTick, SomeV
    <2>6. CASE TimerTickEnd
      BY <2>6 DEF TimerTickEnd, SemFrame, ResetOnlyAfterTick, sems
    <2>7. CASE TermTransm
      <3>1. arg \in Dev /\ flag' = flag /\ (Serve(arg) \/ UNCHANGED sems)
        BY <2>7, <1>0 DEF TermTransm
      <3>2. QED BY <3>1, <1>1, <1>2
    <2>8. QED BY <1>5, <2>1, <2>2, <2>3, <2>4, <2>5, <2>6, <2>7 DEF Kernel
  <1>6. CASE (\E d \in Dev : DeviceDone(d)) \/ UNCHANGED vars
    BY <1>6, <1>1 DEF DeviceDone, vars
  <1>7. QED BY <1>3, <1>4, <1>5, <1>6 DEF Next, Stopped

-----------------------------------------------------------------------------
(* Every waiter asks for one resource *)

\* It stays so on a set of semaphores on which all P ask for one.
LEMMA WaitersStep ==
  ASSUME IInv, [Next]_vars, "io_interrupted" \notin Hazards,
         NEW A \in SUBSET Addr, A \cap Sem = {} \/ UnitRequests, WaitersInv(A)
  PROVE  WaitersInv(A)'
  <1>0. res_wait \in [Proc -> Int] /\ s_procq \in [Addr -> Seq(Proc)]
    BY DEF IInv, TypeOK
  <1>1. SUFFICES ASSUME NEW a \in A, NEW p \in ToSet(s_procq'[a])
                 PROVE  res_wait'[p] = -1
    BY DEF WaitersInv
  <1>2. \A q \in ToSet(s_procq[a]) : res_wait[q] = -1 /\ q \in Live /\ q \in Proc /\ p_cursem[q] = a
    BY WaiterLives DEF WaitersInv
  <1>3. CASE SemFrame
    BY <1>1, <1>2, <1>3 DEF SemFrame
  <1>4. ASSUME NEW b \in Addr, NEW w \in Int, NEW next, Passeren(b, w, next),
               current_process # NULL, b \in A => w = -1
        PROVE  res_wait'[p] = -1
    <2>1. CASE p \in ToSet(s_procq[a])
      <3>1. res_wait' = res_wait \/ (res_wait' = [res_wait EXCEPT ![current_process] = w]
                                     /\ p_cursem[current_process] = NULL)
        BY <1>4, PEffect
      <3>2. QED BY <3>1, <2>1, <1>0, <1>2, NullAssumption
    <2>2. CASE p \notin ToSet(s_procq[a])
      <3>1. s_procq'[a] # s_procq[a]
        BY <2>2, <1>1
      <3>2. /\ a = b /\ ToSet(s_procq'[a]) = ToSet(s_procq[a]) \cup {current_process}
            /\ current_process \in Live
            /\ res_wait' = [res_wait EXCEPT ![current_process] = w]
        BY <1>4, <3>1, PEffect
      <3>3. QED BY <3>2, <2>2, <1>0, <1>1, <1>4 DEF Live
    <2>3. QED BY <2>1, <2>2
  <1>5. CASE SomeP
    <2>1. CASE \E b \in Sem, w \in Weights : w < 0 /\ Passeren(b, w, "scheduler")
      <3>1. PICK b \in Sem, w \in Weights : w < 0 /\ Passeren(b, w, "scheduler")
        BY <2>1
      <3>2. b \in Addr /\ w \in Int /\ (UnitRequests => w = -1)
        BY <3>1, BoundAssumption DEF Addr, UnitRequests
      <3>3. QED BY <3>1, <3>2, <1>4, <1>5 DEF SomeP
    <2>2. CASE Passeren(CLOCK, -1, "scheduler")
      BY <2>2, <1>4, <1>5, DevAddr DEF SomeP
    <2>3. CASE arg \in Dev /\ Passeren(arg, -1, "io_command")
      BY <2>3, <1>4, <1>5, DevAddr DEF SomeP
    <2>4. QED BY <1>5, <2>1, <2>2, <2>3 DEF SomeP
  <1>6. ASSUME NEW b \in Addr, NEW w \in Int, Verhogen(b, w)
        PROVE  res_wait'[p] = -1
    <2>1. CASE b = a
      <3>1. \A q \in ToSet(s_procq[b]) : res_wait[q] = -1
        BY <1>2, <2>1
      <3>2. /\ ToSet(s_procq'[b]) \subseteq ToSet(s_procq[b])
            /\ \A q \in Proc : p_cursem[q] # b \/ q \in ToSet(s_procq'[b])
                                 => res_wait'[q] = res_wait[q]
        BY <3>1, <1>6, VEffect
      <3>3. QED BY <3>2, <2>1, <1>1, <1>2
    <2>2. CASE b # a
      <3>1. PICK n \in 0 .. Len(s_procq[b]) :
              /\ s_procq' = [s_procq EXCEPT ![b] = SubSeq(s_procq[b], n + 1, Len(s_procq[b]))]
              /\ res_wait' = [q \in Proc |-> IF q \in ToSet(SubSeq(s_procq[b], 1, n)) THEN 0
                                             ELSE res_wait[q]]
        BY <1>6 DEF Verhogen
      <3>2. p \in ToSet(s_procq[a])
        BY <3>1, <2>2, <1>0, <1>1
      <3>3. ToSet(SubSeq(s_procq[b], 1, n)) \subseteq ToSet(s_procq[b])
        BY QueueFacts, SplitElements
      <3>4. p \notin ToSet(s_procq[b])
        BY <3>2, <2>2, <1>2, WaiterLives
      <3>5. QED BY <3>1, <3>2, <3>3, <3>4, <1>2
    <2>3. QED BY <2>1, <2>2
  <1>7. CASE SomeV
    BY <1>6, <1>7, DevAddr, BoundAssumption DEF SomeV, Addr
  <1>8. CASE SomeKill
    <2>1. PICK c \in Live : p_cursem[c] # NULL /\ Unblock(c)
      BY <1>8 DEF SomeKill
    <2>2. PICK b \in Addr : /\ \A e \in Addr \ {b} : s_procq'[e] = s_procq[e]
                            /\ ToSet(s_procq'[b]) \subseteq ToSet(s_procq[b])
      BY <2>1, KEffect
    <2>3. p \in ToSet(s_procq[a])
      BY <2>2, <1>1
    <2>4. QED BY <2>3, <1>2, <1>8 DEF SomeKill
  <1>9. QED BY <1>3, <1>5, <1>7, <1>8, SemSteps

-----------------------------------------------------------------------------
(* The pseudo-clock *)

LEMMA ClockStep ==
  ASSUME IInv, [Next]_vars, "io_interrupted" \notin Hazards, WaitersInv(DevSem), ClockInv
  PROVE  ClockInv'
  <1> DEFINE L == Len(s_procq[CLOCK])
             v == semaphore[CLOCK]
             M == Len(s_procq'[CLOCK])
             u == semaphore'[CLOCK]
  <1>0. /\ CLOCK \in Addr /\ CLOCK \in DevSem /\ CLOCK \notin Sem /\ CLOCK \notin Dev
        /\ L \in Nat /\ v \in Int /\ (s_procq[CLOCK] = <<>> <=> L = 0)
    <2>1. CLOCK \in Addr /\ CLOCK \in DevSem /\ CLOCK \notin Sem /\ CLOCK \notin Dev
      BY DevAddr, AddrAssumption, DeviceAssumption DEF CLOCK, DevSem, Dev, Plain, Transm, Recv
    <2>2. QED BY <2>1, QueueFacts
  <1>1. v + L <= 0 /\ (flag = "RESET" => L = 0 /\ v = 0)
    BY <1>0 DEF ClockInv, Balance
  <1>2. \A p \in ToSet(s_procq[CLOCK]) : res_wait[p] = -1
    BY <1>0 DEF WaitersInv
  <1>3. ASSUME s_procq'[CLOCK] = s_procq[CLOCK], u = v,
               flag' = "RESET" => flag = "RESET" \/ v >= 0
        PROVE  ClockInv'
    <2>1. flag' = "RESET" => L = 0 /\ v = 0
      BY <1>0, <1>1, <1>3
    <2>2. QED BY <2>1, <1>0, <1>1, <1>3 DEF ClockInv, Balance
  <1>4. ASSUME NEW b \in Addr \ {CLOCK}, NEW w \in Int, NEW next, Passeren(b, w, next),
               current_process # NULL
        PROVE  ClockInv'
    BY <1>0, <1>3, <1>4, PEffect
  <1>5. CASE SomeP
    <2>1. CASE Passeren(CLOCK, -1, "scheduler")
      <3>1. /\ u = v + (-1) /\ flag' # "RESET"
            /\ s_procq' = s_procq \/ M = L + 1
        BY <1>0, <1>5, <2>1, PEffect DEF SomeP
      <3>2. M = L \/ M = L + 1
        BY <3>1
      <3> HIDE DEF L, v, M, u
      <3>3. u + M <= 0
        BY <3>1, <3>2, <1>0, <1>1
      <3>4. QED BY <3>1, <3>3 DEF ClockInv, Balance, u, M
    <2>2. QED BY <1>0, <1>4, <1>5, <2>1, DevAddr, BoundAssumption DEF SomeP, Addr
  <1>6. ASSUME NEW b \in Addr \ {CLOCK}, NEW w \in Int, Verhogen(b, w),
               flag' \in {flag, "LOADNEXT", "LOADCURRENT"}
        PROVE  ClockInv'
    <2>1. \E n \in 0 .. Len(s_procq[b]) :
            /\ s_procq' = [s_procq EXCEPT ![b] = SubSeq(s_procq[b], n + 1, Len(s_procq[b]))]
            /\ semaphore' = [semaphore EXCEPT ![b] = semaphore[b] + w]
      BY <1>6 DEF Verhogen
    <2>2. s_procq'[CLOCK] = s_procq[CLOCK] /\ u = v
      BY <2>1, <1>0 DEF IInv, TypeOK
    <2>3. QED BY <2>2, <1>3, <1>6
  <1>7. CASE SomeV
    <2>1. CASE v < 0 /\ flag' = flag /\ Verhogen(CLOCK, 1)
      <3>1. /\ u = v + 1 /\ M \in 0 .. L
            /\ M > 0 => v + 1 + M <= 0
        BY <1>0, <1>2, <2>1, VEffect
      <3> HIDE DEF L, v, M, u
      <3>2. u + M <= 0
        BY <3>1, <2>1, <1>0
      <3>3. flag' # "RESET"
        BY <2>1, <1>1
      <3>4. QED BY <3>2, <3>3 DEF ClockInv, Balance, u, M
    <2>2. QED BY <1>0, <1>6, <1>7, <2>1, DevAddr, BoundAssumption DEF SomeV, Addr
  <1>8. CASE SomeKill
    <2>1. PICK c \in Live : p_cursem[c] # NULL /\ Unblock(c)
      BY <1>8 DEF SomeKill
    <2>2. PICK b \in Addr :
            /\ \A e \in Addr \ {b} : semaphore'[e] = semaphore[e] /\ s_procq'[e] = s_procq[e]
            /\ b \in DevSem => semaphore'[b] = semaphore[b]
            /\ Len(s_procq'[b]) = Len(s_procq[b]) - 1
            /\ c \in ToSet(s_procq[b])
      BY <2>1, KEffect
    <2>3. flag' = flag
      BY <1>8 DEF SomeKill
    <2>4. CASE b = CLOCK
      <3>1. u = v /\ M = L - 1 /\ L # 0
        <4>1. s_procq[CLOCK] # <<>>
          BY <2>2, <2>4, ElementsOf, QueueFacts
        <4>2. QED BY <4>1, <2>2, <2>4, <1>0
      <3> HIDE DEF L, v, M, u
      <3>2. u + M <= 0 /\ flag' # "RESET"
        BY <3>1, <2>3, <1>0, <1>1
      <3>3. QED BY <3>2 DEF ClockInv, Balance, u, M
    <2>5. CASE b # CLOCK
      BY <2>2, <2>3, <2>5, <1>0, <1>3
    <2>6. QED BY <2>4, <2>5
  <1>9. CASE SemFrame /\ ResetOnlyAfterTick
    BY <1>3, <1>9 DEF SemFrame, ResetOnlyAfterTick
  <1>10. QED BY <1>5, <1>7, <1>8, <1>9, SemSteps

-----------------------------------------------------------------------------
(* The semaphores of the processes *)

LEMMA SemInvStep ==
  ASSUME IInv, [Next]_vars, "io_interrupted" \notin Hazards, UnitRequests, WaitersInv(Addr),
         SemInv
  PROVE  SemInv'
  <1> SUFFICES ASSUME NEW a \in Sem
               PROVE  /\ semaphore'[a] + Len(s_procq'[a]) >= 0
                      /\ s_procq'[a] # <<>> => semaphore'[a] + Len(s_procq'[a]) = 0
    BY DEF SemInv, Balance
  <1> DEFINE L == Len(s_procq[a])
             v == semaphore[a]
             M == Len(s_procq'[a])
             u == semaphore'[a]
  <1>0. /\ a \in Addr /\ a \notin DevSem /\ a # CLOCK /\ a \notin Dev
        /\ L \in Nat /\ v \in Int /\ (s_procq[a] = <<>> <=> L = 0)
    <2>1. a \in Addr /\ a \notin DevSem /\ a # CLOCK /\ a \notin Dev
      BY AddrAssumption, DeviceAssumption
         DEF Addr, CLOCK, DevSem, Dev, Plain, Transm, Recv
    <2>2. QED BY <2>1, QueueFacts
  <1>1. v + L >= 0 /\ (L > 0 => v + L = 0)
    BY <1>0 DEF SemInv, Balance
  <1>2. \A b \in Addr : \A p \in ToSet(s_procq[b]) : res_wait[p] = -1
    BY DEF WaitersInv
  <1>3. ASSUME s_procq'[a] = s_procq[a], u = v
        PROVE  u + M >= 0 /\ (s_procq'[a] # <<>> => u + M = 0)
    BY <1>0, <1>1, <1>3
  <1>4. CASE SomeP
    <2>1. ASSUME NEW b \in Addr \ {a}, NEW w \in Int, NEW next, Passeren(b, w, next)
          PROVE  s_procq'[a] = s_procq[a] /\ u = v
      BY <1>0, <1>4, <2>1, PEffect DEF SomeP
    <2>2. ASSUME NEW w \in Weights, w < 0, Passeren(a, w, "scheduler")
          PROVE  u + M >= 0 /\ (s_procq'[a] # <<>> => u + M = 0)
      <3>1. w \in Int /\ w = -1
        BY <2>2, BoundAssumption DEF UnitRequests
      <3>2. /\ u = v + w
            /\ \/ v + w >= 0 /\ s_procq' = s_procq
               \/ v + w < 0 /\ M = L + 1
        BY <1>0, <1>4, <2>2, <3>1, PEffect DEF SomeP
      <3>3. CASE v + w >= 0 /\ s_procq' = s_procq
        <4>1. M = L /\ (s_procq'[a] = <<>> <=> L = 0)
          BY <3>3, <1>0
        <4> HIDE DEF L, v, M, u
        <4>2. L = 0 /\ u + M >= 0
          BY <4>1, <3>1, <3>2, <3>3, <1>0, <1>1
        <4>3. QED BY <4>1, <4>2
      <3>4. CASE v + w < 0 /\ M = L + 1
        <4> HIDE DEF L, v, M, u
        <4>1. u + M = 0
          BY <3>1, <3>2, <3>4, <1>0, <1>1
        <4>2. QED BY <4>1
      <3>5. QED BY <3>2, <3>3, <3>4
    <2>3. QED BY <1>0, <1>3, <1>4, <2>1, <2>2, DevAddr, BoundAssumption DEF SomeP, Addr
  <1>5. CASE SomeV
    <2>1. ASSUME NEW b \in Addr \ {a}, NEW w \in Int, Verhogen(b, w)
          PROVE  s_procq'[a] = s_procq[a] /\ u = v
      BY <1>0, <1>2, <2>1, VEffect
    <2>2. ASSUME NEW w \in Weights, w > 0, Verhogen(a, w)
          PROVE  u + M >= 0 /\ (s_procq'[a] # <<>> => u + M = 0)
      <3>1. w \in Int
        BY BoundAssumption
      <3>2. /\ u = v + w /\ M \in 0 .. L /\ (s_procq'[a] = <<>> <=> M = 0)
            /\ M > 0 => v + w + M <= 0
            /\ M < L => v + w + M >= 0
        BY <1>0, <1>2, <2>2, <3>1, VEffect
      <3> HIDE DEF L, v, M, u
      <3>3. u + M >= 0 /\ (M # 0 => u + M = 0)
        BY <3>1, <3>2, <2>2, <1>0, <1>1
      <3>4. QED BY <3>2, <3>3
    <2>3. QED BY <1>0, <1>3, <1>5, <2>1, <2>2, DevAddr, BoundAssumption DEF SomeV, Addr
  <1>6. CASE SomeKill
    <2>1. PICK c \in Live : p_cursem[c] # NULL /\ Unblock(c)
      BY <1>6 DEF SomeKill
    <2>2. PICK b \in Addr :
            /\ \A e \in Addr \ {b} : semaphore'[e] = semaphore[e] /\ s_procq'[e] = s_procq[e]
            /\ c \in ToSet(s_procq[b])
            /\ semaphore'[b] = IF b \in DevSem THEN semaphore[b] ELSE semaphore[b] - res_wait[c]
            /\ Len(s_procq'[b]) = Len(s_procq[b]) - 1
            /\ s_procq'[b] = <<>> <=> Len(s_procq'[b]) = 0
      BY <2>1, KEffect
    <2>3. CASE b = a
      <3>1. res_wait[c] = -1 /\ s_procq[a] # <<>>
        BY <2>2, <2>3, <1>2, ElementsOf, QueueFacts
      <3>2. u = v - (-1) /\ M = L - 1 /\ L > 0 /\ (s_procq'[a] = <<>> <=> M = 0)
        BY <2>2, <2>3, <3>1, <1>0
      <3> HIDE DEF L, v, M, u
      <3>3. u + M = 0
        BY <3>2, <1>0, <1>1
      <3>4. QED BY <3>3 DEF u, M
    <2>4. CASE b # a
      BY <2>2, <2>4, <1>0, <1>3
    <2>5. QED BY <2>3, <2>4
  <1>7. CASE SemFrame
    BY <1>3, <1>7 DEF SemFrame
  <1>8. QED BY <1>4, <1>5, <1>6, <1>7, SemSteps

\* With one-resource waiters the balance is what is Available.
LEMMA SoundFollows ==
  ASSUME IInv, WaitersInv(Addr), SemInv
  PROVE  SemaphoreSound
  <1>1. SUFFICES ASSUME NEW a \in Sem
                 PROVE  /\ Available(a) >= 0
                        /\ s_procq[a] # <<>> => /\ Available(a) < -res_wait[Head(s_procq[a])]
                                                /\ semaphore[a] < 0
    BY DEF SemaphoreSound
  <1> DEFINE q == s_procq[a]
             L == Len(q)
             v == semaphore[a]
  <1>2. /\ a \in Addr /\ q \in Seq(Proc) /\ IsInjective(q) /\ L \in Nat /\ v \in Int
        /\ q = <<>> <=> L = 0
    BY QueueFacts DEF Addr
  <1>3. \A p \in ToSet(q) : res_wait[p] = -1
    BY <1>2 DEF WaitersInv
  <1>4. Demand(q, L) = L /\ Demand(q, 0) = 0
    <2>1. L \in 0 .. L /\ 0 \in 0 .. L
      BY <1>2
    <2>2. QED BY <2>1, <1>2, <1>3, DemandUnits
  <1>5. Available(a) = v + L
    BY <1>2, <1>4 DEF Available, Left
  <1>6. v + L >= 0 /\ (q # <<>> => v + L = 0)
    BY DEF SemInv, Balance
  <1>7. q # <<>> => res_wait[Head(q)] = -1
    BY <1>2, <1>3, TailElements
  <1> HIDE DEF q, L, v
  <1>8. Available(a) >= 0
    BY <1>5, <1>6
  <1>9. ASSUME q # <<>> PROVE Available(a) < -res_wait[Head(q)] /\ v < 0
    BY <1>2, <1>5, <1>6, <1>7, <1>9
  <1>10. QED BY <1>8, <1>9 DEF q, v

-----------------------------------------------------------------------------
(* The semaphores of the devices *)

\* Interrupts are not admitted inside io_devop, which is not called for a
\* device in use.
Disciplined == {"io_interrupted", "io_overlap"} \cap Hazards = {}

\* What DeviceInv says of one device, whose value and queue length are v and L.
DeviceRule(engaged, v, L) == IF engaged THEN v = -1 /\ L <= 1 ELSE v = 0 /\ L = 0

LEMMA DeviceRuleOf ==
  ASSUME IInv, NEW d \in Dev
  PROVE  /\ d \in Addr /\ d \in DevSem /\ d # CLOCK /\ d \notin Sem
         /\ Len(s_procq[d]) \in Nat /\ semaphore[d] \in Int
         /\ DeviceInv => DeviceRule(Engaged(d), semaphore[d], Len(s_procq[d]))
  <1>1. d \in Addr /\ d \in DevSem /\ d # CLOCK /\ d \notin Sem
    BY AddrAssumption, DeviceAssumption DEF Addr, CLOCK, DevSem, Dev, Plain, Transm, Recv
  <1>2. Len(s_procq[d]) \in Nat /\ semaphore[d] \in Int /\ (s_procq[d] = <<>> <=> Len(s_procq[d]) = 0)
    BY <1>1, QueueFacts
  <1>3. QED BY <1>1, <1>2 DEF DeviceInv, DeviceRule

\* The rule for each device and the entry condition make up DeviceInv again.
LEMMA DeviceInvParts ==
  ASSUME IInv',
         \A d \in Dev : DeviceRule(Engaged(d)', semaphore'[d], Len(s_procq'[d])),
         cpu' = "io_entry" => device'[arg'] = "idle"
  PROVE  DeviceInv'
  <1>1. \A d \in Dev : s_procq'[d] = <<>> <=> Len(s_procq'[d]) = 0
    <2>1. s_procq' \in [Addr -> Seq(Proc)]
      BY DEF IInv, TypeOK
    <2>2. \A d \in Dev : s_procq'[d] \in Seq(Proc)
      BY <2>1, DevAddr
    <2>3. QED BY <2>2, EmptySeq
  <1>2. \A d \in Dev : IF Engaged(d)' THEN semaphore'[d] = -1 /\ Len(s_procq'[d]) <= 1
                       ELSE semaphore'[d] = 0 /\ s_procq'[d] = <<>>
    BY <1>1 DEF DeviceRule
  <1>3. QED BY <1>2 DEF DeviceInv, Engaged

\* A step that leaves the semaphores of the devices alone and no device changes
\* between idle and engaged.
LEMMA DeviceFrame ==
  ASSUME IInv, IInv', DeviceInv,
         \A d \in Dev : /\ semaphore'[d] = semaphore[d] /\ s_procq'[d] = s_procq[d]
                        /\ Engaged(d)' <=> Engaged(d),
         cpu' = "io_entry" => device'[arg'] = "idle"
  PROVE  DeviceInv'
  <1>1. ASSUME NEW d \in Dev
        PROVE  DeviceRule(Engaged(d)', semaphore'[d], Len(s_procq'[d]))
    BY DeviceRuleOf DEF DeviceRule
  <1>2. QED BY <1>1, DeviceInvParts

\* Steps of processes, of the scheduler and of the pseudo-clock.
LEMMA DeviceQuietStep ==
  ASSUME IInv, IInv', DeviceInv, Disciplined, WaitersInv(DevSem),
         cpu \notin {"io_entry", "io_command"}, cpu' \notin {"io_entry", "io_command"},
         device' = device,
         \/ UNCHANGED <<semaphore, s_procq>>
         \/ \E a \in Addr \ Dev, w \in Int :
              \/ current_process # NULL /\ Passeren(a, w, "scheduler")
              \/ Verhogen(a, w)
  PROVE  DeviceInv'
  <1>1. \A d \in Dev : Engaged(d)' <=> Engaged(d)
    BY DEF Engaged
  <1>2. ASSUME NEW d \in Dev PROVE semaphore'[d] = semaphore[d] /\ s_procq'[d] = s_procq[d]
    <2>1. CASE UNCHANGED <<semaphore, s_procq>>
      BY <2>1
    <2>2. ASSUME NEW a \in Addr \ Dev, NEW w \in Int, current_process # NULL,
                 Passeren(a, w, "scheduler")
          PROVE  semaphore'[d] = semaphore[d] /\ s_procq'[d] = s_procq[d]
      BY <2>2, PEffect, DevAddr
    <2>3. ASSUME NEW a \in Addr \ Dev, NEW w \in Int, Verhogen(a, w)
          PROVE  semaphore'[d] = semaphore[d] /\ s_procq'[d] = s_procq[d]
      <3>1. \E n \in 0 .. Len(s_procq[a]) :
              /\ s_procq' = [s_procq EXCEPT ![a] = SubSeq(s_procq[a], n + 1, Len(s_procq[a]))]
              /\ semaphore' = [semaphore EXCEPT ![a] = semaphore[a] + w]
        BY <2>3 DEF Verhogen
      <3>2. QED BY <3>1, DevAddr DEF IInv, TypeOK
    <2>4. QED BY <2>1, <2>2, <2>3
  <1>3. QED BY <1>1, <1>2, DeviceFrame

\* The V of an interrupt handler on the semaphore of a device that has ended.
LEMMA ServeStep ==
  ASSUME IInv, IInv', DeviceInv, WaitersInv(DevSem), NEW d \in Dev, device[d] # "idle",
         Serve(d), cpu \notin {"io_entry", "io_command"},
         cpu' \notin {"io_entry", "io_command"}
  PROVE  DeviceInv'
  <1>1. /\ d \in Addr /\ d \in DevSem /\ semaphore[d] = -1
        /\ Len(s_procq[d]) \in Nat
    BY DeviceRuleOf DEF DeviceRule, Engaged
  <1>2. Verhogen(d, 1) /\ device' = [device EXCEPT ![d] = "idle"]
    BY <1>1 DEF Serve
  <1>3. \A p \in ToSet(s_procq[d]) : res_wait[p] = -1
    BY <1>1 DEF WaitersInv
  <1>4. /\ \A b \in Addr \ {d} : semaphore'[b] = semaphore[b] /\ s_procq'[b] = s_procq[b]
        /\ semaphore'[d] = semaphore[d] + 1
        /\ Len(s_procq'[d]) \in 0 .. Len(s_procq[d])
        /\ Len(s_procq'[d]) > 0 => semaphore[d] + 1 + Len(s_procq'[d]) <= 0
    BY <1>1, <1>2, <1>3, VEffect
  <1>5. semaphore'[d] = 0 /\ Len(s_procq'[d]) = 0
    BY <1>1, <1>4
  <1>6. device'[d] = "idle" /\ \A e \in Dev \ {d} : device'[e] = device[e]
    BY <1>2 DEF IInv, TypeOK
  <1>7. ASSUME NEW e \in Dev
        PROVE  DeviceRule(Engaged(e)', semaphore'[e], Len(s_procq'[e]))
    <2>1. CASE e = d
      BY <2>1, <1>5, <1>6 DEF DeviceRule, Engaged
    <2>2. CASE e # d
      <3>1. e \in Addr \ {d} /\ (Engaged(e)' <=> Engaged(e))
        BY <2>2, <1>6, DevAddr DEF Engaged
      <3>2. QED BY <3>1, <1>4, DeviceRuleOf DEF DeviceRule
    <2>3. QED BY <2>1, <2>2
  <1>8. QED BY <1>7, DeviceInvParts

\* The termination of a process that may wait for a device.
LEMMA UnblockDevice ==
  ASSUME IInv, IInv', DeviceInv, NEW c \in Live, Unblock(c), device' = device,
         cpu = "terminate", cpu' \in {"terminate", "scheduler"}
  PROVE  DeviceInv'
  <1>1. \A d \in Dev : Engaged(d)' <=> Engaged(d)
    BY DEF Engaged
  <1>2. CASE p_cursem[c] = NULL
    BY <1>1, <1>2, DeviceFrame DEF Unblock
  <1>3. CASE p_cursem[c] # NULL
    <2>1. PICK b \in Addr :
            /\ \A e \in Addr \ {b} : semaphore'[e] = semaphore[e] /\ s_procq'[e] = s_procq[e]
            /\ c \in ToSet(s_procq[b])
            /\ b \in DevSem => semaphore'[b] = semaphore[b]
            /\ Len(s_procq'[b]) = Len(s_procq[b]) - 1
      BY <1>3, KEffect
    <2>2. ASSUME NEW d \in Dev
          PROVE  DeviceRule(Engaged(d)', semaphore'[d], Len(s_procq'[d]))
      <3>1. /\ d \in Addr /\ d \in DevSem /\ Len(s_procq[d]) \in Nat
            /\ DeviceRule(Engaged(d), semaphore[d], Len(s_procq[d]))
        BY DeviceRuleOf
      <3>2. CASE b = d
        <4>1. Len(s_procq[d]) # 0
          BY <2>1, <3>1, <3>2, QueueFacts, ElementsOf
        <4>2. Engaged(d)
          BY <3>1, <4>1 DEF DeviceRule
        <4>3. QED BY <2>1, <3>1, <3>2, <4>2, <1>1 DEF DeviceRule
      <3>3. CASE b # d
        BY <2>1, <3>1, <3>3, <1>1 DEF DeviceRule
      <3>4. QED BY <3>2, <3>3
    <2>3. QED BY <2>2, DeviceInvParts
  <1>4. QED BY <1>2, <1>3

\* io_devop, from its call to the command, and the machine.
LEMMA DevopStep ==
  ASSUME IInv, IInv', DeviceInv, Disciplined,
         \/ \E d \in Dev : IoDevop(d) \/ DeviceDone(d)
         \/ WholeP \/ IoCommand \/ IoReturn
  PROVE  DeviceInv'
  <1>0. /\ device \in [Dev -> {"idle", "busy", "done", "error"}]
        /\ cpu \in {"io_entry", "io_command"} => arg \in Dev
        /\ cpu = "io_entry" => current_process # NULL
        /\ cpu = "io_entry" => device[arg] = "idle"
    BY DEF IInv, TypeOK, DeviceInv, Engaged
  <1>1. ASSUME NEW d \in Dev, IoDevop(d) PROVE DeviceInv'
    <2>1. /\ cpu = "user" /\ cpu' = "io_entry" /\ arg' = d /\ device[d] = "idle"
          /\ UNCHANGED <<semaphore, s_procq, device>>
      BY <1>1 DEF IoDevop, SyscallEntry, MayUse, Disciplined, sems
    <2>2. \A e \in Dev : Engaged(e)' <=> Engaged(e)
      BY <2>1 DEF Engaged
    <2>3. QED BY <2>1, <2>2, DeviceFrame
  <1>2. ASSUME NEW d \in Dev, DeviceDone(d) PROVE DeviceInv'
    <2>1. /\ UNCHANGED <<semaphore, s_procq, cpu, arg>> /\ device[d] = "busy"
          /\ \E result \in {"done", "error"} : device' = [device EXCEPT ![d] = result]
      BY <1>2 DEF DeviceDone, sems
    <2>2. \A e \in Dev : device'[e] = "idle" <=> device[e] = "idle"
      BY <2>1, <1>0
    <2>3. \A e \in Dev : Engaged(e)' <=> Engaged(e)
      BY <2>1, <2>2 DEF Engaged
    <2>4. cpu' = "io_entry" => device'[arg'] = "idle"
      BY <2>1, <2>2, <1>0
    <2>5. QED BY <2>1, <2>3, <2>4, DeviceFrame
  <1>3. CASE WholeP
    <2>1. /\ cpu = "io_entry" /\ Passeren(arg, -1, "io_command") /\ device' = device
          /\ arg' = arg /\ arg \in Dev /\ current_process # NULL
      BY <1>0, <1>3 DEF WholeP
    <2>2. PICK d \in Dev : d = arg
      BY <2>1
    <2>3. /\ d \in Addr /\ semaphore[d] = 0 /\ Len(s_procq[d]) = 0
      <3>1. ~Engaged(d)
        BY <1>0, <2>1, <2>2 DEF Engaged
      <3>2. QED BY <3>1, DeviceRuleOf DEF DeviceRule
    <2>4. /\ \A b \in Addr \ {d} : semaphore'[b] = semaphore[b] /\ s_procq'[b] = s_procq[b]
          /\ semaphore'[d] = -1 /\ Len(s_procq'[d]) = 1 /\ cpu' = "io_command"
      <3>1. Passeren(d, -1, "io_command") /\ -1 \in Int /\ semaphore[d] + (-1) < 0
        BY <2>1, <2>2, <2>3
      <3>2. /\ \A b \in Addr \ {d} : semaphore'[b] = semaphore[b] /\ s_procq'[b] = s_procq[b]
            /\ semaphore'[d] = semaphore[d] + (-1) /\ cpu' = "io_command"
            /\ \/ semaphore[d] + (-1) >= 0
               \/ Len(s_procq'[d]) = Len(s_procq[d]) + 1
        BY <2>1, <2>3, <3>1, PEffect
      <3>3. QED BY <2>3, <3>1, <3>2
    <2>5. ASSUME NEW e \in Dev
          PROVE  DeviceRule(Engaged(e)', semaphore'[e], Len(s_procq'[e]))
      <3>1. CASE e = d
        BY <3>1, <2>1, <2>2, <2>4 DEF DeviceRule, Engaged
      <3>2. CASE e # d
        <4>1. e \in Addr \ {d} /\ (Engaged(e)' <=> Engaged(e))
          BY <3>2, <2>1, <2>2, <2>4, DevAddr DEF Engaged
        <4>2. QED BY <4>1, <2>4, DeviceRuleOf DEF DeviceRule
      <3>3. QED BY <3>1, <3>2
    <2>6. QED BY <2>4, <2>5, DeviceInvParts
  <1>4. CASE IoCommand
    <2>1. /\ cpu = "io_command" /\ cpu' = "io_issued" /\ arg \in Dev
          /\ device' = [device EXCEPT ![arg] = "busy"]
          /\ UNCHANGED <<semaphore, s_procq>>
      BY <1>0, <1>4 DEF IoCommand, sems
    <2>2. \A e \in Dev : Engaged(e)' <=> Engaged(e)
      BY <1>0, <2>1 DEF Engaged
    <2>3. QED BY <2>1, <2>2, DeviceFrame
  <1>5. CASE IoReturn
    <2>1. /\ cpu = "io_issued" /\ cpu' = "scheduler" /\ device' = device
          /\ UNCHANGED <<semaphore, s_procq>>
      BY <1>5 DEF IoReturn, sems
    <2>2. \A e \in Dev : Engaged(e)' <=> Engaged(e)
      BY <2>1 DEF Engaged
    <2>3. QED BY <2>1, <2>2, DeviceFrame
  <1>6. QED BY <1>1, <1>2, <1>3, <1>4, <1>5

\* Interrupts: only a device that has ended is served.
LEMMA DeviceInterruptStep ==
  ASSUME IInv, IInv', DeviceInv, Disciplined, WaitersInv(DevSem), Interrupt \/ TermTransm
  PROVE  DeviceInv'
  <1>1. /\ cpu \notin {"io_entry", "io_command"}
        /\ cpu = "term_transm" => arg \in Dev
    BY DEF Interrupt, TimerInterrupt, DevInterrupt, TermInterrupt, InterruptEntry, TermTransm,
       Interruptible, Exits, Disciplined, IInv, TypeOK
  <1>2. ASSUME UNCHANGED <<sems, readyqueue, device>>, cpu' \notin {"io_entry", "io_command"}
        PROVE  DeviceInv'
    <2>1. UNCHANGED <<semaphore, s_procq>> /\ device' = device
      BY <1>2 DEF sems
    <2>2. QED BY <2>1, <1>1, <1>2, DeviceQuietStep
  <1>3. CASE TimerInterrupt
    BY <1>3, <1>2 DEF TimerInterrupt, sched
  <1>4. ASSUME NEW d \in Plain, DevInterrupt(d) PROVE DeviceInv'
    <2>1. /\ d \in Dev /\ Serve(d) /\ device[d] # "idle" /\ cpu' \notin {"io_entry", "io_command"}
      BY <1>4, DevAddr DEF DevInterrupt, Pending, Served
    <2>2. QED BY <2>1, <1>1, ServeStep
  <1>5. ASSUME NEW d \in Transm, TermInterrupt(d) PROVE DeviceInv'
    <2>1. cpu' \notin {"io_entry", "io_command"} /\ d + NTerm \in Dev
      BY <1>5, DevAddr DEF TermInterrupt, Served
    <2>2. \/ device[d + NTerm] = "done" /\ Serve(d + NTerm)
          \/ UNCHANGED <<sems, readyqueue, device>>
      BY <1>5 DEF TermInterrupt
    <2>3. device[d + NTerm] = "done" => device[d + NTerm] # "idle"
      OBVIOUS
    <2>4. QED BY <2>1, <2>2, <2>3, <1>1, <1>2, ServeStep
  <1>6. CASE TermTransm
    <2>1. cpu' \notin {"io_entry", "io_command"} /\ arg \in Dev
      BY <1>6, <1>1 DEF TermTransm, Served
    <2>2. \/ device[arg] = "done" /\ Serve(arg)
          \/ UNCHANGED <<sems, readyqueue, device>>
      BY <1>6 DEF TermTransm
    <2>3. PICK d \in Dev : d = arg
      BY <2>1
    <2>4. \/ device[d] # "idle" /\ Serve(d)
          \/ UNCHANGED <<sems, readyqueue, device>>
      BY <2>2, <2>3
    <2>5. QED BY <2>1, <2>4, <1>1, <1>2, ServeStep
  <1>7. QED BY <1>3, <1>4, <1>5, <1>6 DEF Interrupt

LEMMA DeviceStep ==
  ASSUME IInv, IInv', [Next]_vars, Disciplined, WaitersInv(DevSem), DeviceInv
  PROVE  DeviceInv'
  <1>0. /\ current_process \in Proc \cup {NULL}
        /\ cpu \in {"user", "io_entry", "terminate"} => current_process # NULL
        /\ cpu = "terminate" => arg \in Live
    BY DEF IInv, TypeOK
  <1>1. CASE \/ CreateProcess \/ QuerySyscall \/ ExitTrap \/ TerminateUnknown \/ SemopZero
             \/ SemopNull \/ \E t \in Proc : TerminateProcess(t)
             \/ \E t \in ExcType : Specify(t) \/ Exception(t)
    <2>1. /\ cpu = "user" /\ cpu' \in {"user", "scheduler", "terminate", "panic_pid", "panic_null"}
          /\ UNCHANGED <<semaphore, s_procq>> /\ device' = device
      BY <1>1 DEF CreateProcess, QuerySyscall, ExitTrap, TerminateUnknown, SemopZero, SemopNull,
         TerminateProcess, Specify, Exception, TerminateBegin, SyscallEntry, sems
    <2>2. QED BY <2>1, DeviceQuietStep
  <1>2. CASE \/ TerminateCurrent \/ TimerTickEnd \/ InterruptExit \/ LoadCurrent \/ LoadNext
    <2>1. /\ cpu \in {"terminate", "timer", "int_exit", "timer_exit", "scheduler"}
          /\ cpu' \in {"scheduler", "int_exit", "timer_exit", "user", "undefined", "halt",
                       "panic_deadlock", "wait"}
          /\ UNCHANGED <<semaphore, s_procq>> /\ device' = device
      BY <1>2 DEF TerminateCurrent, TimerTickEnd, InterruptExit, Exits, LoadCurrent, LoadNext,
         Resume, Idle, sems
    <2>2. QED BY <2>1, DeviceQuietStep
  <1>3. ASSUME NEW a \in Addr \ Dev, NEW w \in Int, Verhogen(a, w), device' = device,
               cpu \in {"user", "timer"}, cpu' \in {"scheduler", "timer"}
        PROVE  DeviceInv'
    BY <1>3, DeviceQuietStep
  <1>4. ASSUME NEW a \in Addr \ Dev, NEW w \in Int, Passeren(a, w, "scheduler"), device' = device,
               cpu = "user"
        PROVE  DeviceInv'
    <2>1. cpu' = "scheduler" /\ current_process # NULL
      BY <1>0, <1>4, PEffect
    <2>2. QED BY <2>1, <1>4, DeviceQuietStep
  <1>5. CLOCK \in Addr \ Dev /\ \A a \in Sem : a \in Addr \ Dev
    BY DevAddr, AddrAssumption, DeviceAssumption
       DEF Addr, CLOCK, DevSem, Dev, Plain, Transm, Recv
  <1>6. CASE WaitClock
    BY <1>4, <1>5, <1>6 DEF WaitClock, SyscallEntry
  <1>7. CASE TimerTick
    BY <1>3, <1>5, <1>7 DEF TimerTick
  <1>8. ASSUME NEW a \in Sem, NEW w \in Weights, SemopP(a, w) \/ SemopV(a, w)
        PROVE  DeviceInv'
    <2>1. w \in Int /\ a \in Addr \ Dev
      BY <1>5, BoundAssumption
    <2>2. QED BY <2>1, <1>3, <1>4, <1>8 DEF SemopP, SemopV, SyscallEntry
  <1>9. CASE TerminateOther
    <2>1. arg \in Live /\ Unblock(arg) /\ device' = device /\ cpu = "terminate" /\ cpu' = "scheduler"
      BY <1>0, <1>9 DEF TerminateOther
    <2>2. QED BY <2>1, UnblockDevice
  <1>10. ASSUME NEW c \in Proc, TerminateChild(c) PROVE DeviceInv'
    <2>1. /\ c \in Progeny(arg) /\ arg \in Live /\ device' = device /\ cpu = "terminate"
          /\ \/ cpu' = "undefined" /\ UNCHANGED <<semaphore, s_procq>>
             \/ cpu' = "terminate" /\ Unblock(c)
      BY <1>0, <1>10 DEF TerminateChild, sems
    <2>2. c \in Live
      BY <2>1, ProgenyLive DEF IInv
    <2>3. CASE cpu' = "undefined" /\ UNCHANGED <<semaphore, s_procq>>
      BY <2>1, <2>3, DeviceQuietStep
    <2>4. QED BY <2>1, <2>2, <2>3, UnblockDevice
  <1>11. CASE UNCHANGED vars
    BY <1>11 DEF DeviceInv, Engaged, vars, sems
  <1>12. CASE IoP
    <2>1. WholeP
      BY <1>12, IoPWhole DEF Disciplined
    <2>2. QED BY <2>1, DevopStep
  <1>13. QED BY <1>1, <1>2, <1>6, <1>7, <1>8, <1>9, <1>10, <1>11, <1>12, DevopStep,
             DeviceInterruptStep
         DEF Next, Syscall, Kernel, Stopped

-----------------------------------------------------------------------------
(* The process tree has one root *)

LEMMA RootStep ==
  ASSUME IInv, [Next]_vars, RootInv
  PROVE  RootInv'
  <1>0. /\ p_parent \in [Proc -> Proc \cup {NULL}] /\ pcbFree \subseteq Proc
        /\ current_process \in Proc \cup {NULL}
        /\ cpu \in {"user", "terminate"} => current_process # NULL
        /\ cpu = "terminate" => arg \in Live
    BY DEF IInv, TypeOK
  <1>1. CASE UNCHANGED <<pcbFree, p_parent>>
    BY <1>1 DEF RootInv, Live
  <1>2. CASE CreateProcess
    <2>1. PICK child \in pcbFree : /\ pcbFree' = pcbFree \ {child}
                                   /\ p_parent' = [p_parent EXCEPT ![child] = current_process]
      BY <1>2 DEF CreateProcess
    <2>2. current_process # NULL
      BY <1>0, <1>2 DEF CreateProcess
    <2>3. p_parent'[child] # NULL /\ \A p \in Live : p_parent'[p] = p_parent[p]
      BY <1>0, <2>1, <2>2 DEF Live
    <2>4. Live' \subseteq Live \cup {child}
      BY <2>1 DEF Live
    <2>5. QED BY <2>3, <2>4 DEF RootInv
  <1>3. ASSUME NEW c \in Live, Free(c), EmptyChild(c) PROVE RootInv'
    <2>1. /\ p_parent' = [p_parent EXCEPT ![c] = NULL] /\ Live' = Live \ {c}
      BY <1>3 DEF Free, Live
    <2>2. \A p \in Live' : p \in Live /\ p_parent'[p] = p_parent[p]
      BY <1>0, <2>1 DEF Live
    <2>3. QED BY <2>2 DEF RootInv
  <1>4. CASE TerminateCurrent \/ TerminateOther
    BY <1>0, <1>3, <1>4 DEF TerminateCurrent, TerminateOther
  <1>5. ASSUME NEW c \in Proc, TerminateChild(c) PROVE RootInv'
    <2>1. /\ c \in Progeny(arg) /\ arg \in Live /\ EmptyChild(c)
          /\ UNCHANGED tree \/ Free(c)
      BY <1>0, <1>5 DEF TerminateChild
    <2>2. c \in Live
      BY <2>1, ProgenyLive DEF IInv
    <2>3. UNCHANGED tree => UNCHANGED <<pcbFree, p_parent>>
      BY DEF tree
    <2>4. QED BY <2>1, <2>2, <2>3, <1>1, <1>3
  <1>6. CASE \/ Interrupt \/ TermTransm \/ TimerTick \/ TimerTickEnd \/ InterruptExit
             \/ LoadCurrent \/ LoadNext \/ IoP \/ IoCommand \/ IoReturn
             \/ \E d \in Dev : DeviceDone(d)
    <2>1. UNCHANGED tree
      BY <1>6 DEF Interrupt, TimerInterrupt, DevInterrupt, TermInterrupt, TermTransm, TimerTick,
         TimerTickEnd, InterruptExit, LoadCurrent, LoadNext, IoP, IoCommand, IoReturn, DeviceDone
    <2>2. QED BY <2>1, <1>1 DEF tree
  <1>7. CASE Syscall /\ ~CreateProcess
    <2>1. UNCHANGED tree
      BY <1>7 DEF Syscall, QuerySyscall, ExitTrap, TerminateUnknown, SemopZero, SemopNull, WaitClock,
         TerminateProcess, SemopP, SemopV, Specify, Exception, IoDevop, TerminateBegin
    <2>2. QED BY <2>1, <1>1 DEF tree
  <1>8. CASE UNCHANGED vars
    BY <1>1, <1>8 DEF vars, tree
  <1>9. QED BY <1>2, <1>4, <1>5, <1>6, <1>7, <1>8 DEF Next, Kernel, Stopped

\* Whoever lives and is not a descendant of r has a parent like that, unless
\* it has none; as the tree has no cycle, somebody there has none, and he is r.
LEMMA TreeFollows ==
  ASSUME TypeOK, TreeInv, RootInv
  PROVE  NoOrphans
  <1>0. /\ p_parent \in [Proc -> Proc \cup {NULL}] /\ Live \in SUBSET Proc
        /\ \A S \in SUBSET Proc : S # {} => \E p \in S : p_parent[p] \notin S
        /\ \A p \in Proc : p_parent[p] # NULL => p_parent[p] \in Live
    BY DEF TypeOK, TreeInv, Live
  <1>1. SUFFICES ASSUME Live # {} PROVE \E root \in Live : Live = Progeny(root)
    BY DEF NoOrphans
  <1>2. PICK root \in Live : p_parent[root] \notin Live
    BY <1>0, <1>1
  <1>3. p_parent[root] = NULL /\ root \in Proc
    BY <1>0, <1>2
  <1>4. Progeny(root) \subseteq Live
    BY <1>2, ProgenyLive
  <1>5. Closed(Progeny(root)) /\ root \in Progeny(root)
    BY <1>3 DEF Progeny, Closed
  <1>6. Live \subseteq Progeny(root)
    <2> DEFINE S == Live \ Progeny(root)
    <2>1. SUFFICES ASSUME S # {} PROVE FALSE
      OBVIOUS
    <2>2. PICK p \in S : p_parent[p] \notin S
      BY <1>0, <2>1
    <2>3. p_parent[p] \notin Progeny(root)
      BY <1>0, <1>5, <2>2 DEF Closed
    <2>4. p_parent[p] = NULL
      BY <1>0, <2>2, <2>3
    <2>5. p = root
      BY <1>2, <1>3, <2>2, <2>4 DEF RootInv
    <2>6. QED BY <1>5, <2>2, <2>5
  <1>7. QED BY <1>2, <1>4, <1>6

-----------------------------------------------------------------------------
(* Theorems *)

\* main establishes what the theorems below need.
LEMMA InitSems ==
  ASSUME Init
  PROVE  /\ WaitersInv(DevSem) /\ WaitersInv(Addr) /\ ClockInv /\ SemInv
         /\ DeviceInv /\ RootInv
  <1>1. PICK first \in Proc, initial \in [Sem -> 0 .. MaxSem] :
          /\ pcbFree = Proc \ {first}
          /\ semaphore = [a \in Addr |-> IF a \in DevSem THEN 0 ELSE initial[a]]
    BY DEF Init
  <1>2. /\ s_procq = [a \in Addr |-> <<>>] /\ device = [d \in Dev |-> "idle"]
        /\ cpu = "scheduler" /\ flag = "START"
    BY DEF Init
  <1>3. Len(<<>>) = 0 /\ ToSet(<<>>) = {}
    BY EmptySeq DEF ToSet
  <1>4. WaitersInv(DevSem) /\ WaitersInv(Addr)
    BY <1>2, <1>3 DEF WaitersInv, Addr
  <1>5. CLOCK \in DevSem /\ CLOCK \in Addr /\ \A d \in Dev : d \in DevSem /\ d \in Addr
    BY DevAddr, DeviceAssumption DEF CLOCK, DevSem, Dev, Plain, Transm, Recv
  <1>6. ClockInv
    BY <1>1, <1>2, <1>3, <1>5 DEF ClockInv, Balance
  <1>7. SemInv
    <2>1. ASSUME NEW a \in Sem PROVE semaphore[a] + Len(s_procq[a]) >= 0
      <3>1. semaphore[a] \in Nat
        BY <1>1, AddrAssumption, BoundAssumption DEF Addr
      <3>2. QED BY <3>1, <1>2, <1>3 DEF Addr
    <2>2. QED BY <2>1, <1>2 DEF SemInv, Balance, Addr
  <1>8. DeviceInv
    BY <1>1, <1>2, <1>5 DEF DeviceInv, Engaged
  <1>9. RootInv
    BY <1>1 DEF RootInv, Live
  <1>10. QED BY <1>4, <1>6, <1>7, <1>8, <1>9

\* Termination leaves no orphan: the living processes are one tree.
THEOREM OneTree == Spec => []NoOrphans
  <1>1. Init => RootInv
    BY InitSems
  <1>2. (IInv \/ Torn) /\ RootInv /\ [Next]_vars => RootInv'
    BY RootStep, TornStep DEF RootInv, Live, tree
  <1>3. (IInv \/ Torn) /\ RootInv => NoOrphans
    BY TreeFollows DEF IInv, Torn
  <1>4. QED BY <1>1, <1>2, <1>3, InvariantOrTorn, PTL DEF Spec

\* A pseudo-clock tick releases every process that waits for it, whatever
\* processes were terminated while they waited and whatever interrupts come
\* at the end of interrupt_handler.
THEOREM TickReleases ==
  ASSUME "io_interrupted" \notin Hazards
  PROVE  Spec => []TickReleasesAll
  <1>1. Init => WaitersInv(DevSem) /\ ClockInv
    BY InitSems
  <1>2. IInv /\ WaitersInv(DevSem) /\ ClockInv /\ [Next]_vars => (WaitersInv(DevSem) /\ ClockInv)'
    <2>1. DevSem \in SUBSET Addr /\ DevSem \cap Sem = {}
      BY AddrAssumption DEF Addr
    <2>2. QED BY <2>1, WaitersStep, ClockStep
  <1>3. ClockInv => TickReleasesAll
    BY DEF ClockInv, TickReleasesAll
  <1>4. QED BY <1>1, <1>2, <1>3, InvariantHolds, PTL DEF Spec

\* No lost wakeup and no overtaking on the semaphores of the processes, as
\* long as a P asks for one resource (with larger requests the termination of
\* a waiter may leave a second one asleep that could be served).
THEOREM SemaphoresSound ==
  ASSUME UnitRequests, "io_interrupted" \notin Hazards
  PROVE  Spec => []SemaphoreSound
  <1>1. Init => WaitersInv(Addr) /\ SemInv
    BY InitSems
  <1>2. IInv /\ WaitersInv(Addr) /\ SemInv /\ [Next]_vars => (WaitersInv(Addr) /\ SemInv)'
    BY UnitRequests, WaitersStep, SemInvStep
  <1>3. IInv /\ WaitersInv(Addr) /\ SemInv => SemaphoreSound
    BY SoundFollows
  <1>4. QED BY <1>1, <1>2, <1>3, InvariantHolds, PTL DEF Spec

\* An idle device has nobody waiting for it and its semaphore is back at 0,
\* also when requesters are terminated or terminals report errors.
THEOREM DevicesQuiet ==
  ASSUME Disciplined
  PROVE  Spec => []DeviceQuiet
  <1>1. Init => WaitersInv(DevSem) /\ DeviceInv
    BY InitSems
  <1>2. IInv /\ WaitersInv(DevSem) /\ DeviceInv /\ [Next]_vars => (WaitersInv(DevSem) /\ DeviceInv)'
    <2>1. DevSem \in SUBSET Addr /\ DevSem \cap Sem = {}
      BY AddrAssumption DEF Addr
    <2>2. "io_interrupted" \notin Hazards
      BY DEF Disciplined
    <2>3. IInv /\ [Next]_vars => IInv'
      BY <2>2, NextIInv
    <2>4. QED BY Disciplined, <2>1, <2>2, <2>3, WaitersStep, DeviceStep
  <1>3. DeviceInv => DeviceQuiet
    BY DEF DeviceInv, DeviceQuiet, Engaged
  <1>4. "io_interrupted" \notin Hazards
    BY DEF Disciplined
  <1>5. Spec => []IInv
    BY <1>4, InvariantHolds
  <1>6. QED BY <1>1, <1>2, <1>3, <1>5, PTL DEF Spec

-----------------------------------------------------------------------------
(* The machine stops, or idles, for the right reason *)

\* When the processor idles or has halted nobody is on the ready queue.
StopInv ==
  cpu \in {"wait", "halt"} => /\ readyqueue = <<>>
                              /\ cpu = "halt" <=> Live = {}

\* loadnext finds nobody: everybody alive is blocked, and process_count says
\* whether somebody is.
LEMMA IdleStep ==
  ASSUME IInv, LoadNext, cpu' \in {"wait", "halt"}
  PROVE  StopInv'
  <1>1. /\ Requeued = <<>> /\ readyqueue' = <<>> /\ cpu' = Idle /\ pcbFree' = pcbFree
    BY LoadNextBody DEF LoadNext, Resume, tree
  <1>2. Live' = Live /\ process_count = Cardinality(Live) /\ IsFiniteSet(Live)
        /\ Cardinality(Live) \in Nat
    BY <1>1, LiveFinite DEF Live, IInv, CountInv
  <1>3. Live = {} <=> process_count = 0
    BY <1>2, FS_EmptySet
  <1>4. cpu' = "halt" <=> process_count = 0
    BY <1>1 DEF Idle
  <1>5. QED BY <1>1, <1>2, <1>3, <1>4 DEF StopInv

LEMMA StopStep ==
  ASSUME IInv, StopInv, [Next]_vars
  PROVE  StopInv'
  <1>1. CASE UNCHANGED <<pcbFree, readyqueue, cpu>>
    BY <1>1 DEF StopInv, Live
  <1>2. CASE cpu' \notin {"wait", "halt"}
    BY <1>2 DEF StopInv
  <1>3. CASE Syscall
    <2>1. cpu' \notin {"wait", "halt"}
      <3>1. CASE \/ CreateProcess \/ QuerySyscall \/ ExitTrap \/ TerminateUnknown
                 \/ SemopZero \/ SemopNull
                 \/ \E t \in Proc : TerminateProcess(t)
                 \/ \E t \in ExcType : Specify(t) \/ Exception(t)
                 \/ \E d \in Dev : IoDevop(d)
        BY <3>1 DEF CreateProcess, QuerySyscall, ExitTrap, TerminateUnknown, SemopZero, SemopNull,
           TerminateProcess, Specify, Exception, IoDevop, TerminateBegin, SyscallEntry
      <3>2. CASE WaitClock \/ \E a \in Sem, w \in Weights : SemopP(a, w) \/ SemopV(a, w)
        BY <3>2 DEF WaitClock, SemopP, SemopV, Passeren
      <3>3. QED BY <1>3, <3>1, <3>2 DEF Syscall
    <2>2. QED BY <2>1, <1>2
  <1>4. CASE Interrupt
    BY <1>2, <1>4 DEF Interrupt, TimerInterrupt, DevInterrupt, TermInterrupt, Served
  <1>5. CASE LoadNext
    BY <1>2, <1>5, IdleStep
  <1>6. CASE Kernel /\ ~LoadNext
    <2>1. \/ cpu' \in {"io_command", "io_issued", "scheduler", "panic_semd", "undefined", "terminate",
                       "timer", "int_exit", "timer_exit", "user"} \cup InsideP
      BY <1>6 DEF Kernel, IoP, PUpTo, Passeren, IoCommand, IoReturn, TerminateCurrent, TerminateOther,
         TerminateChild, TimerTick, TimerTickEnd, TermTransm, Served, InterruptExit, LoadCurrent,
         Resume
    <2>2. QED BY <2>1, <1>2 DEF InsideP
  <1>7. CASE (\E d \in Dev : DeviceDone(d)) \/ UNCHANGED vars
    BY <1>1, <1>7 DEF DeviceDone, vars, tree, sched
  <1>8. QED BY <1>3, <1>4, <1>5, <1>6, <1>7 DEF Next, Stopped

\* With nobody ready and nobody running, the living are the blocked.
LEMMA StopFollows ==
  ASSUME IInv, StopInv
  PROVE  StopsRightly
  <1>1. Placement
    BY PlacementFollows DEF IInv
  <1>2. cpu \in {"wait", "halt"} => current_process = NULL
    BY DEF IInv, TypeOK
  <1>3. ToSet(<<>>) = {}
    BY DEF ToSet
  <1>4. cpu = "wait" => Live = Blocked
    BY <1>1, <1>2, <1>3 DEF StopInv, Placement
  <1>5. QED BY <1>4 DEF StopInv, StopsRightly, IInv

\* The machine halts only when every process has ended, it idles only when
\* every living process is blocked, and the PANIC of deadlock_detection is
\* dead code, whatever processes, devices and interrupts do.
THEOREM StopsForAReason == Spec => []StopsRightly
  <1>1. Init => StopInv
    BY DEF Init, StopInv
  <1>2. IInv /\ StopInv /\ [Next]_vars => StopInv'
    BY StopStep
  <1>3. Torn => StopInv /\ StopsRightly
    BY DEF Torn, StopInv, StopsRightly
  <1>4. (IInv \/ Torn) /\ StopInv /\ [Next]_vars => StopInv'
    BY <1>2, TornStep DEF Torn, StopInv
  <1>5. (IInv \/ Torn) /\ StopInv => StopsRightly
    BY <1>3, StopFollows
  <1>6. QED BY <1>1, <1>4, <1>5, InvariantOrTorn, PTL DEF Spec

-----------------------------------------------------------------------------
(* First come, first served *)

\* InTurn by positions: what the lemmas below reason about.
LEMMA AheadIs ==
  ASSUME NEW S, NEW s \in Seq(S), NEW p, NEW q
  PROVE  /\ Ahead(s, p, q) <=> \E i, j \in 1 .. Len(s) : i < j /\ s[i] = p /\ s[j] = q
         /\ Ahead(s, p, q) => p \in ToSet(s) /\ q \in ToSet(s)
  <1>1. DOMAIN s = 1 .. Len(s) /\ ToSet(s) = {s[i] : i \in 1 .. Len(s)}
    BY LenProperties, ElementsOf
  <1>2. QED BY <1>1 DEF Ahead

\* Nobody moves in a queue that does not change.
LEMMA TurnSame ==
  ASSUME NEW s \in Seq(Proc)
  PROVE  InTurn(s, s)
  BY AheadIs DEF InTurn

\* New elements behind the old ones.
LEMMA TurnConcat ==
  ASSUME NEW s \in Seq(Proc), NEW u \in Seq(Proc), ToSet(s) \cap ToSet(u) = {}
  PROVE  /\ InTurn(s, s \o u)
         /\ \A p, q \in Proc : Ahead(s, p, q) => Ahead(s \o u, p, q)
         /\ \A p \in ToSet(s), q \in Proc : Ahead(s \o u, q, p) => Ahead(s, q, p)
  <1> DEFINE t == s \o u
  <1>1. /\ t \in Seq(Proc) /\ Len(t) = Len(s) + Len(u) /\ Len(s) \in Nat /\ Len(u) \in Nat
        /\ \A i \in 1 .. Len(s) + Len(u) : t[i] = IF i <= Len(s) THEN s[i] ELSE u[i - Len(s)]
        /\ ToSet(t) = ToSet(s) \cup ToSet(u)
    BY ConcatElements, ConcatProperties, LenProperties
  <1> HIDE DEF t
  <1>2. \A i \in 1 .. Len(u) : u[i] \in ToSet(u)
    BY ElementsOf
  <1>3. ASSUME NEW p, NEW q, Ahead(s, p, q) PROVE Ahead(t, p, q)
    <2>1. PICK i, j \in 1 .. Len(s) : i < j /\ s[i] = p /\ s[j] = q
      BY <1>3, AheadIs
    <2>2. i \in 1 .. Len(t) /\ j \in 1 .. Len(t) /\ t[i] = p /\ t[j] = q
      BY <1>1, <2>1
    <2>3. \E k, l \in 1 .. Len(t) : k < l /\ t[k] = p /\ t[l] = q
      BY <2>1, <2>2
    <2>4. QED BY <1>1, <2>3, AheadIs
  <1>4. ASSUME NEW p \in ToSet(s), NEW q, Ahead(t, q, p) PROVE Ahead(s, q, p)
    <2>1. PICK i, j \in 1 .. Len(t) : i < j /\ t[i] = q /\ t[j] = p
      BY <1>1, <1>4, AheadIs
    <2>2. j \in 1 .. Len(s)
      <3>1. SUFFICES ASSUME j > Len(s) PROVE FALSE
        BY <1>1, <2>1
      <3>2. j - Len(s) \in 1 .. Len(u) /\ t[j] = u[j - Len(s)]
        BY <1>1, <2>1, <3>1
      <3>3. QED BY <1>2, <1>4, <2>1, <3>2
    <2>3. i \in 1 .. Len(s) /\ s[i] = q /\ s[j] = p
      BY <1>1, <2>1, <2>2
    <2>4. QED BY <2>1, <2>2, <2>3, AheadIs
  <1>5. ASSUME NEW p, NEW q, Ahead(s, p, q) PROVE q \in ToSet(t)
    BY <1>1, <1>5, AheadIs
  <1>6. InTurn(s, t)
    BY <1>4, <1>5 DEF InTurn
  <1>7. QED BY <1>3, <1>4, <1>6 DEF t

LEMMA TurnAppend ==
  ASSUME NEW s \in Seq(Proc), NEW e \in Proc, e \notin ToSet(s)
  PROVE  /\ InTurn(s, Append(s, e))
         /\ \A p, q \in Proc : Ahead(s, p, q) => Ahead(Append(s, e), p, q)
         /\ \A p \in ToSet(s), q \in Proc : Ahead(Append(s, e), q, p) => Ahead(s, q, p)
  <1>0. <<e>> \in Seq(Proc)
    OBVIOUS
  <1>1. PICK u \in Seq(Proc) : u = <<e>>
    BY <1>0
  <1>2. ToSet(s) \cap ToSet(u) = {}
    BY <1>1 DEF ToSet
  <1>3. Append(s, e) = s \o u
    BY <1>1
  <1>4. QED BY <1>2, <1>3, TurnConcat

\* The first n go.
LEMMA TurnSuffix ==
  ASSUME NEW s \in Seq(Proc), IsInjective(s), NEW n \in 0 .. Len(s)
  PROVE  LET t == SubSeq(s, n + 1, Len(s))
         IN /\ InTurn(s, t)
            /\ \A p, q \in Proc : Ahead(t, p, q) => Ahead(s, p, q)
            /\ \A p \in ToSet(t), q \in Proc : Ahead(s, p, q) => q \in ToSet(t)
  <1> DEFINE t == SubSeq(s, n + 1, Len(s))
  <1>0. Len(s) \in Nat /\ n \in Nat /\ n <= Len(s) /\ DOMAIN s = 1 .. Len(s)
    BY LenProperties
  <1>1. /\ t \in Seq(Proc) /\ Len(t) = Len(s) - n
        /\ \A i \in 1 .. Len(s) - n : t[i] = s[i + n]
    <2>1. \A i \in n + 1 .. Len(s) : s[i] \in Proc
      BY <1>0, ElementOfSeq
    <2>2. /\ t \in Seq(Proc)
          /\ Len(t) = IF n + 1 <= Len(s) THEN Len(s) - (n + 1) + 1 ELSE 0
          /\ \A i \in 1 .. Len(s) - (n + 1) + 1 : t[i] = s[n + 1 + i - 1]
      BY <2>1, <1>0, SubSeqProperties
    <2>3. Len(t) = Len(s) - n
      <3>1. Len(t) = IF n + 1 <= Len(s) THEN Len(s) - (n + 1) + 1 ELSE 0
        BY <2>2
      <3>2. \A k, m \in Nat : m <= k => (IF m + 1 <= k THEN k - (m + 1) + 1 ELSE 0) = k - m
        OBVIOUS
      <3>3. QED BY <1>0, <3>1, <3>2, Zenon
    <2>4. ASSUME NEW i \in 1 .. Len(s) - n PROVE t[i] = s[i + n]
      <3>1. i \in 1 .. Len(s) - (n + 1) + 1 /\ n + 1 + i - 1 = i + n
        BY <1>0
      <3>2. QED BY <2>2, <3>1
    <2>5. QED BY <2>2, <2>3, <2>4
  <1> HIDE DEF t
  <1>2. ToSet(t) = {t[i] : i \in 1 .. Len(t)}
    BY <1>1, ElementsOf
  <1>3. ASSUME NEW p, NEW q, Ahead(t, p, q) PROVE Ahead(s, p, q)
    <2>1. PICK i, j \in 1 .. Len(t) : i < j /\ t[i] = p /\ t[j] = q
      BY <1>1, <1>3, AheadIs
    <2>2. /\ i + n \in 1 .. Len(s) /\ j + n \in 1 .. Len(s) /\ i + n < j + n
          /\ s[i + n] = p /\ s[j + n] = q
      BY <1>0, <1>1, <2>1
    <2>3. QED BY <2>2, AheadIs
  <1>4. ASSUME NEW p \in ToSet(t), NEW q, Ahead(s, p, q) PROVE q \in ToSet(t)
    <2>1. PICK i, j \in 1 .. Len(s) : i < j /\ s[i] = p /\ s[j] = q
      BY <1>4, AheadIs
    <2>2. PICK k \in 1 .. Len(t) : t[k] = p
      BY <1>2
    <2>3. k + n \in 1 .. Len(s) /\ s[k + n] = p
      BY <1>0, <1>1, <2>2
    <2>4. i = k + n
      BY <1>0, <2>1, <2>3 DEF IsInjective
    <2>5. j - n \in 1 .. Len(t) /\ t[j - n] = q
      BY <1>0, <1>1, <2>1, <2>4
    <2>6. QED BY <1>2, <2>5
  <1>5. InTurn(s, t)
    BY <1>3, <1>4 DEF InTurn
  <1>6. QED BY <1>3, <1>4, <1>5 DEF t

\* An element that is terminated goes.
LEMMA TurnWithout ==
  ASSUME NEW s \in Seq(Proc), IsInjective(s), NEW c \in ToSet(s), c \in pcbFree'
  PROVE  InTurn(s, Without(s, c))
  <1> DEFINE i == CHOOSE j \in 1 .. Len(s) : s[j] = c
  <1>1. \E j \in 1 .. Len(s) : s[j] = c
    BY ElementsOf
  <1>2. i \in 1 .. Len(s) /\ s[i] = c
    BY <1>1
  <1>3. Without(s, c) = RemoveAt(s, i)
    BY DEF Without
  <1> HIDE DEF i
  <1> DEFINE t == Without(s, c)
  <1>4. /\ t \in Seq(Proc) /\ Len(t) = Len(s) - 1 /\ Len(s) \in Nat
        /\ \A j \in 1 .. Len(s) - 1 : t[j] = IF j < i THEN s[j] ELSE s[j + 1]
    <2>1. Len(s) \in Nat
      BY LenProperties
    <2>2. QED BY <1>2, <1>3, <2>1, RemovePoints
  <1>5. ToSet(t) = ToSet(s) \ {c}
    BY WithoutElements
  <1> HIDE DEF t
  <1>6. ASSUME NEW p, NEW q, Ahead(t, q, p) PROVE Ahead(s, q, p)
    <2>1. PICK k, l \in 1 .. Len(t) : k < l /\ t[k] = q /\ t[l] = p
      BY <1>4, <1>6, AheadIs
    <2> DEFINE up(m) == IF m < i THEN m ELSE m + 1
    <2>2. up(k) \in 1 .. Len(s) /\ up(l) \in 1 .. Len(s) /\ up(k) < up(l)
      BY <1>2, <1>4, <2>1
    <2>3. s[up(k)] = q /\ s[up(l)] = p
      BY <1>2, <1>4, <2>1
    <2>4. QED BY <2>2, <2>3, AheadIs
  <1>7. ASSUME NEW p, NEW q, Ahead(s, p, q) PROVE q \in ToSet(t) \cup pcbFree'
    BY <1>5, <1>7, AheadIs
  <1>8. QED BY <1>6, <1>7 DEF InTurn, t

\* loadnext: the preempted process behind the others, the first of them runs.
LEMMA TurnRotate ==
  ASSUME NEW s \in Seq(Proc), IsInjective(s), NEW e \in Proc, e \notin ToSet(s)
  PROVE  InTurn(s, Tail(Append(s, e)))
  <1> DEFINE m == Append(s, e)
  <1>1. m \in Seq(Proc) /\ IsInjective(m) /\ m # <<>> /\ ToSet(m) = ToSet(s) \cup {e}
    BY AppendElements
  <1>2. /\ \A p, q \in Proc : Ahead(s, p, q) => Ahead(m, p, q)
        /\ \A p \in ToSet(s), q \in Proc : Ahead(m, q, p) => Ahead(s, q, p)
    BY TurnAppend
  <1> HIDE DEF m
  <1>3. Tail(m) = SubSeq(m, 1 + 1, Len(m)) /\ 1 \in 0 .. Len(m)
    BY <1>1, LenProperties, EmptySeq, TailIsSubSeq
  <1>4. /\ \A p, q \in Proc : Ahead(Tail(m), p, q) => Ahead(m, p, q)
        /\ \A p \in ToSet(Tail(m)), q \in Proc : Ahead(m, p, q) => q \in ToSet(Tail(m))
    <2> DEFINE t(n) == SubSeq(m, n + 1, Len(m))
    <2>1. /\ \A p, q \in Proc : Ahead(t(1), p, q) => Ahead(m, p, q)
          /\ \A p \in ToSet(t(1)), q \in Proc : Ahead(m, p, q) => q \in ToSet(t(1))
      BY <1>1, <1>3, TurnSuffix
    <2>2. t(1) = Tail(m)
      BY <1>3
    <2> HIDE DEF t
    <2>3. QED BY <2>1, <2>2
  <1>5. ToSet(s) \subseteq Proc
    BY ElementsOf
  <1>6. QED BY <1>2, <1>4, <1>5 DEF InTurn, m

LEMMA TurnTail ==
  ASSUME NEW s \in Seq(Proc), IsInjective(s), s # <<>>
  PROVE  InTurn(s, Tail(s))
  <1>1. Tail(s) = SubSeq(s, 1 + 1, Len(s)) /\ 1 \in 0 .. Len(s)
    BY LenProperties, EmptySeq, TailIsSubSeq
  <1>2. QED BY <1>1, TurnSuffix

-----------------------------------------------------------------------------
(* What every step does to the queues *)

\* Everybody stays where he is.
QueuesStay == readyqueue' = readyqueue /\ s_procq' = s_procq

\* The caller of SYS3, SYS9 or SYS10 waits on a.
Queued(a) ==
  /\ current_process \in Proc
  /\ readyqueue' = readyqueue
  /\ s_procq' = [s_procq EXCEPT ![a] = Append(s_procq[a], current_process)]

\* The first n waiters on a become ready.
Released(a, n) ==
  /\ readyqueue' = readyqueue \o SubSeq(s_procq[a], 1, n)
  /\ s_procq' = [s_procq EXCEPT ![a] = SubSeq(s_procq[a], n + 1, Len(s_procq[a]))]

\* c is terminated where it waits.
TakenOff(c) ==
  /\ c \in pcbFree'
  /\ \/ /\ p_cursem[c] # NULL
        /\ readyqueue' = readyqueue
        /\ s_procq' = [s_procq EXCEPT ![p_cursem[c]] = Without(s_procq[p_cursem[c]], c)]
     \/ /\ c \in ToSet(readyqueue)
        /\ readyqueue' = Without(readyqueue, c)
        /\ s_procq' = s_procq

LEMMA QueueSteps ==
  ASSUME IInv, [Next]_vars, "io_interrupted" \notin Hazards
  PROVE  \/ QueuesStay
         \/ CreateProcess
         \/ \E a \in Addr : Queued(a)
         \/ \E a \in Addr : \E n \in 0 .. Len(s_procq[a]) : Released(a, n)
         \/ \E c \in Live : TakenOff(c)
         \/ LoadNext
  <1>0. /\ current_process \in Proc \cup {NULL}
        /\ cpu \in {"user", "io_entry", "terminate"} => current_process \in Proc
        /\ cpu \in {"io_entry", "io_command", "term_transm"} => arg \in Dev
        /\ cpu = "terminate" => arg \in Live
    BY DEF IInv, TypeOK
  <1> DEFINE ByP == \E a \in Addr : Queued(a)
             ByV == \E a \in Addr : \E n \in 0 .. Len(s_procq[a]) : Released(a, n)
             ByKill == \E c \in Live : TakenOff(c)
  <1>1. ASSUME UNCHANGED <<s_procq, readyqueue>> PROVE QueuesStay
    BY <1>1 DEF QueuesStay
  <1>2. ASSUME NEW a \in Addr, NEW w \in Int, NEW next, Passeren(a, w, next), current_process \in Proc,
               readyqueue' = readyqueue
        PROVE  QueuesStay \/ ByP
    <2>1. s_procq' = s_procq \/ Block(a)
      BY <1>2 DEF Passeren
    <2>2. QED BY <1>2, <2>1 DEF QueuesStay, Queued, Block
  <1>3. ASSUME NEW a \in Addr, NEW w \in Int, Verhogen(a, w)
        PROVE  ByV
    BY <1>3 DEF Verhogen, Released
  <1>4. ASSUME NEW d \in Dev, Serve(d) PROVE QueuesStay \/ ByV
    <2>1. Verhogen(d, 1) \/ UNCHANGED <<sems, readyqueue>>
      BY <1>4 DEF Serve
    <2>2. QED BY <2>1, <1>3, DevAddr DEF QueuesStay, sems
  <1> HIDE DEF ByP, ByV, ByKill
  <1>5. CASE Syscall /\ ~CreateProcess
    <2>1. CASE \/ QuerySyscall \/ ExitTrap \/ TerminateUnknown \/ SemopZero \/ SemopNull
               \/ \E t \in Proc : TerminateProcess(t)
               \/ \E t \in ExcType : Specify(t) \/ Exception(t)
               \/ \E d \in Dev : IoDevop(d)
      BY <2>1, <1>1 DEF QuerySyscall, ExitTrap, TerminateUnknown, SemopZero, SemopNull,
         TerminateProcess, Specify, Exception, IoDevop, TerminateBegin, sems, sched
    <2>2. CASE WaitClock
      BY <2>2, <1>0, <1>2, DevAddr DEF WaitClock, SyscallEntry, ByP
    <2>3. ASSUME NEW a \in Sem, NEW w \in Weights, SemopP(a, w) PROVE QueuesStay \/ ByP
      BY <2>3, <1>0, <1>2, BoundAssumption DEF SemopP, SyscallEntry, Addr
    <2>4. ASSUME NEW a \in Sem, NEW w \in Weights, SemopV(a, w) PROVE ByV
      BY <2>4, <1>3, BoundAssumption DEF SemopV, Addr
    <2>5. QED BY <1>5, <2>1, <2>2, <2>3, <2>4 DEF Syscall, ByP, ByV
  <1>6. CASE Interrupt
    <2>1. CASE TimerInterrupt
      BY <2>1, <1>1 DEF TimerInterrupt, sems, sched
    <2>2. ASSUME NEW d \in Plain, DevInterrupt(d) PROVE QueuesStay \/ ByV
      BY <2>2, <1>4, DevAddr DEF DevInterrupt
    <2>3. ASSUME NEW d \in Transm, TermInterrupt(d) PROVE QueuesStay \/ ByV
      BY <2>3, <1>1, <1>4, DevAddr DEF TermInterrupt, sems
    <2>4. QED BY <1>6, <2>1, <2>2, <2>3 DEF Interrupt, ByV
  <1>7. ASSUME NEW c \in Live, Unblock(c), Free(c),
               readyqueue' = IF p_cursem[c] = NULL THEN NotReady(c) ELSE readyqueue
        PROVE  QueuesStay \/ ByKill
    <2>1. c \in pcbFree'
      BY <1>7 DEF Free
    <2>2. CASE p_cursem[c] # NULL
      BY <1>7, <2>1, <2>2 DEF Unblock, TakenOff, ByKill
    <2>3. CASE p_cursem[c] = NULL
      BY <1>7, <2>1, <2>3 DEF Unblock, TakenOff, NotReady, QueuesStay, ByKill
    <2>4. QED BY <2>2, <2>3
  <1>8. CASE TerminateOther
    <2>1. arg \in Live /\ arg \in Proc /\ Unblock(arg) /\ Free(arg) /\ readyqueue' = NotReady(arg)
      BY <1>0, <1>8 DEF TerminateOther, Live
    <2>2. p_cursem[arg] # NULL => arg \notin ToSet(readyqueue)
      BY <2>1 DEF IInv, QueueInv
    <2>3. readyqueue' = IF p_cursem[arg] = NULL THEN NotReady(arg) ELSE readyqueue
      BY <2>1, <2>2 DEF NotReady
    <2>4. QED BY <2>1, <2>3, <1>7 DEF ByKill
  <1>9. ASSUME NEW c \in Proc, TerminateChild(c) PROVE QueuesStay \/ ByKill
    <2>1. c \in Progeny(arg) /\ arg \in Live /\ readyqueue' = readyqueue
      BY <1>0, <1>9 DEF TerminateChild, sched
    <2>2. c \in Live
      BY <2>1, ProgenyLive DEF IInv
    <2>3. CASE c \in ToSet(readyqueue)
      BY <2>1, <2>3, <1>1, <1>9 DEF TerminateChild, sems
    <2>4. CASE c \notin ToSet(readyqueue)
      BY <2>1, <2>2, <2>4, <1>7, <1>9 DEF TerminateChild, NotReady
    <2>5. QED BY <2>3, <2>4
  <1>10. CASE Kernel /\ ~LoadNext
    <2>1. CASE IoP
      <3>1. arg \in Addr /\ Passeren(arg, -1, "io_command") /\ readyqueue' = readyqueue
        BY <2>1, <1>0, IoPWhole, DevAddr DEF WholeP
      <3>2. current_process \in Proc
        BY <2>1, <1>0 DEF IoP
      <3>3. QED BY <3>1, <3>2, <1>2 DEF ByP
    <2>2. CASE IoCommand \/ IoReturn \/ TerminateCurrent \/ TimerTickEnd \/ InterruptExit \/ LoadCurrent
      BY <2>2, <1>1 DEF IoCommand, IoReturn, TerminateCurrent, TimerTickEnd, InterruptExit,
         LoadCurrent, sems, sched
    <2>3. CASE TimerTick
      BY <2>3, <1>3, DevAddr DEF TimerTick, ByV
    <2>4. CASE TermTransm
      <3>1. PICK d \in Dev : d = arg
        BY <2>4, <1>0 DEF TermTransm
      <3>2. Serve(d) \/ UNCHANGED <<s_procq, readyqueue>>
        BY <2>4, <3>1 DEF TermTransm, sems
      <3>3. QED BY <3>2, <1>1, <1>4 DEF ByV
    <2>5. QED BY <1>8, <1>9, <1>10, <2>1, <2>2, <2>3, <2>4 DEF Kernel, ByP, ByV, ByKill
  <1>11. CASE (\E d \in Dev : DeviceDone(d)) \/ UNCHANGED vars
    BY <1>11, <1>1 DEF DeviceDone, vars, sems, sched
  <1>12. QED BY <1>5, <1>6, <1>10, <1>11 DEF Next, Stopped, Syscall, Kernel, ByP, ByV, ByKill

\* Each of them lets the queues be served in turn.
LEMMA TurnStep ==
  ASSUME IInv, [Next]_vars, "io_interrupted" \notin Hazards
  PROVE  ServedInTurn
  <1>0. /\ readyqueue \in Seq(Proc) /\ IsInjective(readyqueue)
        /\ s_procq \in [Addr -> Seq(Proc)]
        /\ \A a \in Addr : IsInjective(s_procq[a]) /\ s_procq[a] \in Seq(Proc)
    BY DEF IInv, TypeOK, QueueInv
  <1>1. InTurn(readyqueue, readyqueue) /\ \A a \in Addr : InTurn(s_procq[a], s_procq[a])
    BY <1>0, TurnSame
  <1>2. ASSUME NEW a \in Addr, NEW q, s_procq' = [s_procq EXCEPT ![a] = q], InTurn(s_procq[a], q)
        PROVE  \A b \in Addr : InTurn(s_procq[b], s_procq'[b])
    <2>1. ASSUME NEW b \in Addr PROVE InTurn(s_procq[b], s_procq'[b])
      <3>1. s_procq'[b] = IF b = a THEN q ELSE s_procq[b]
        BY <1>0, <1>2
      <3>2. QED BY <3>1, <1>1, <1>2
    <2>2. QED BY <2>1
  <1>3. CASE QueuesStay
    BY <1>1, <1>3 DEF QueuesStay, ServedInTurn
  <1>4. CASE CreateProcess
    <2>1. PICK c \in pcbFree : readyqueue' = Append(readyqueue, c) /\ s_procq' = s_procq
      BY <1>4 DEF CreateProcess
    <2>2. c \in Proc /\ c \notin ToSet(readyqueue)
      BY DEF IInv, TypeOK, QueueInv, Live
    <2>3. InTurn(readyqueue, Append(readyqueue, c))
      BY <1>0, <2>2, TurnAppend
    <2>4. QED BY <1>1, <2>1, <2>3 DEF ServedInTurn
  <1>5. ASSUME NEW a \in Addr, Queued(a) PROVE ServedInTurn
    <2>1. /\ current_process \in Proc /\ readyqueue' = readyqueue
          /\ s_procq' = [s_procq EXCEPT ![a] = Append(s_procq[a], current_process)]
      BY <1>5 DEF Queued
    <2>2. current_process \notin ToSet(s_procq[a])
      BY <2>1, NullAssumption DEF IInv, QueueInv
    <2>3. InTurn(s_procq[a], Append(s_procq[a], current_process))
      BY <1>0, <2>1, <2>2, TurnAppend
    <2>4. \A b \in Addr : InTurn(s_procq[b], s_procq'[b])
      BY <1>2, <2>1, <2>3
    <2>5. QED BY <1>1, <2>1, <2>4 DEF ServedInTurn
  <1>6. ASSUME NEW a \in Addr, NEW n \in 0 .. Len(s_procq[a]), Released(a, n) PROVE ServedInTurn
    <2> DEFINE out == SubSeq(s_procq[a], 1, n)
               rest == SubSeq(s_procq[a], n + 1, Len(s_procq[a]))
    <2>1. readyqueue' = readyqueue \o out /\ s_procq' = [s_procq EXCEPT ![a] = rest]
      BY <1>6 DEF Released
    <2>2. out \in Seq(Proc) /\ ToSet(out) \subseteq ToSet(s_procq[a])
      BY <1>0, SplitElements
    <2>3. \A p \in ToSet(s_procq[a]) : p \notin ToSet(readyqueue)
      BY WaiterLives, NullAssumption DEF IInv, QueueInv
    <2>4. InTurn(s_procq[a], rest)
      BY <1>0, TurnSuffix
    <2> HIDE DEF out, rest
    <2>5. InTurn(readyqueue, readyqueue \o out)
      BY <1>0, <2>2, <2>3, TurnConcat
    <2>6. \A b \in Addr : InTurn(s_procq[b], s_procq'[b])
      BY <1>2, <2>1, <2>4
    <2>7. QED BY <2>1, <2>5, <2>6 DEF ServedInTurn
  <1>7. ASSUME NEW c \in Live, TakenOff(c) PROVE ServedInTurn
    <2>1. CASE /\ p_cursem[c] # NULL /\ readyqueue' = readyqueue
               /\ s_procq' = [s_procq EXCEPT ![p_cursem[c]] = Without(s_procq[p_cursem[c]], c)]
      <3>1. PICK a \in Addr : a = p_cursem[c]
        BY <2>1 DEF IInv, TypeOK, Live
      <3>2. c \in ToSet(s_procq[a]) /\ c \in pcbFree'
        BY <1>7, <3>1 DEF IInv, QueueInv, TakenOff, Live
      <3>3. InTurn(s_procq[a], Without(s_procq[a], c))
        BY <1>0, <3>2, TurnWithout
      <3>4. \A b \in Addr : InTurn(s_procq[b], s_procq'[b])
        BY <1>2, <2>1, <3>1, <3>3
      <3>5. QED BY <1>1, <2>1, <3>4 DEF ServedInTurn
    <2>2. CASE /\ c \in ToSet(readyqueue) /\ readyqueue' = Without(readyqueue, c)
               /\ s_procq' = s_procq
      <3>1. InTurn(readyqueue, Without(readyqueue, c))
        BY <1>0, <1>7, <2>2, TurnWithout DEF TakenOff
      <3>2. QED BY <1>1, <2>2, <3>1 DEF ServedInTurn
    <2>3. QED BY <1>7, <2>1, <2>2 DEF TakenOff
  <1>8. CASE LoadNext
    <2>1. s_procq' = s_procq
      BY <1>8 DEF LoadNext, sems
    <2>2. readyqueue' = IF Requeued = <<>> THEN <<>> ELSE Tail(Requeued)
      BY <1>8, LoadNextBody
    <2>3. CASE current_process = NULL
      <3>1. Requeued = readyqueue
        BY <2>3 DEF Requeued
      <3>2. CASE readyqueue = <<>>
        BY <2>1, <2>2, <3>1, <3>2, <1>1 DEF ServedInTurn
      <3>3. CASE readyqueue # <<>>
        <4>1. InTurn(readyqueue, Tail(readyqueue))
          BY <1>0, <3>3, TurnTail
        <4>2. QED BY <2>1, <2>2, <3>1, <3>3, <4>1, <1>1 DEF ServedInTurn
      <3>4. QED BY <3>2, <3>3
    <2>4. CASE current_process # NULL
      <3>1. current_process \in Proc /\ current_process \notin ToSet(readyqueue)
        BY <2>4 DEF IInv, TypeOK, QueueInv
      <3>2. Requeued = Append(readyqueue, current_process) /\ Requeued # <<>>
        BY <2>4, <3>1, <1>0, AppendElements DEF Requeued
      <3>3. InTurn(readyqueue, Tail(Append(readyqueue, current_process)))
        BY <1>0, <3>1, TurnRotate
      <3>4. QED BY <2>1, <2>2, <3>2, <3>3, <1>1 DEF ServedInTurn
    <2>5. QED BY <2>3, <2>4
  <1>9. QED BY <1>3, <1>4, <1>5, <1>6, <1>7, <1>8, QueueSteps

\* First come, first served, on the ready queue and on every semaphore: in no
\* step, of whatever process, handler or termination, does anybody get ahead
\* of, or out of a queue before, somebody who was there first.  (In a P that an
\* interrupt tears, two queues run through one link.)
THEOREM NobodyOvertakes ==
  ASSUME "io_interrupted" \notin Hazards
  PROVE  Spec => NoOvertaking
  <1>1. IInv /\ [Next]_vars => [ServedInTurn]_vars
    BY TurnStep
  <1>2. QED BY <1>1, InvariantHolds, PTL DEF Spec, NoOvertaking

-----------------------------------------------------------------------------
(***************************************************************************)
(* Without the hazards of WellBehaved what the C code leaves undefined      *)
(* never comes to pass.                                                     *)
(***************************************************************************)

\* No interrupt inside io_devop or at the end of interrupt_handler, no use of a
\* device in use, and no termination of a process that is ready (but for the
\* target itself) or waits for a device.  Terminals may report errors.
WellBehaved ==
  {"kill_ready", "kill_io", "nested", "io_interrupted", "io_overlap"} \cap Hazards = {}

\* What is saved for a process is the point where its own code stopped.
SavedInv == \A p \in Proc : p_s[p] = "user"

\* Those who hang below the process to terminate are not ready, ...
VictimInv ==
  cpu = "terminate" => \A q \in Progeny(arg) : q # arg => q \notin ToSet(readyqueue)

\* ... and nobody to terminate waits for a device.
VictimIoInv ==
  cpu = "terminate" => \A q \in Progeny(arg), d \in Dev : q \notin ToSet(s_procq[d])

\* A device under way has its requester in its queue.
WaiterInv == \A d \in Dev : Engaged(d) => s_procq[d] # <<>>

\* Only interrupt handlers and system calls save a state; without nesting they
\* find the process in its own code.
LEMMA SavedStep ==
  ASSUME IInv, {"nested", "io_interrupted"} \cap Hazards = {}, SavedInv, [Next]_vars
  PROVE  SavedInv'
  <1>0. /\ p_s \in [Proc -> {"user"} \cup Windows] /\ current_process \in Proc \cup {NULL}
        /\ cpu \in {"wait", "halt"} => current_process = NULL
    BY DEF IInv, TypeOK
  <1>1. CASE p_s' = p_s
    BY <1>1 DEF SavedInv
  <1>2. CASE p_s' = [p_s EXCEPT ![current_process] = "user"]
    BY <1>0, <1>2 DEF SavedInv
  <1>3. CASE InterruptEntry
    <2>1. cpu \in {"user", "wait"}
      BY <1>3 DEF InterruptEntry, Interruptible
    <2>2. CASE current_process = NULL
      BY <1>1, <1>3, <2>2 DEF InterruptEntry
    <2>3. CASE current_process # NULL
      BY <1>0, <1>2, <1>3, <2>1, <2>3 DEF InterruptEntry
    <2>4. QED BY <2>2, <2>3
  <1>4. CASE CreateProcess
    <2>1. PICK child \in Proc :
            p_s' = [p_s EXCEPT ![current_process] = "user", ![child] = "user"]
      BY <1>4 DEF CreateProcess, IInv, TypeOK
    <2>2. QED BY <1>0, <2>1 DEF SavedInv
  <1>5. CASE Syscall /\ ~CreateProcess
    <2>1. CASE \E t \in ExcType : Exception(t)
      BY <2>1, <1>1, <1>2 DEF Exception
    <2>2. SyscallEntry \/ \E t \in ExcType : Exception(t)
      BY <1>5 DEF Syscall, QuerySyscall, ExitTrap, TerminateUnknown, SemopZero, SemopNull, WaitClock,
         TerminateProcess, SemopP, SemopV, Specify, IoDevop
    <2>3. QED BY <2>1, <2>2, <1>2 DEF SyscallEntry
  <1>6. CASE Interrupt
    BY <1>3, <1>6 DEF Interrupt, TimerInterrupt, DevInterrupt, TermInterrupt
  <1>7. CASE Kernel
    BY <1>1, <1>7 DEF Kernel, IoP, IoCommand, IoReturn, TerminateCurrent, TerminateOther,
       TerminateChild, TimerTick, TimerTickEnd, TermTransm, InterruptExit, LoadCurrent, LoadNext
  <1>8. CASE (\E d \in Dev : DeviceDone(d)) \/ UNCHANGED vars
    BY <1>1, <1>8 DEF DeviceDone, vars
  <1>9. QED BY <1>4, <1>5, <1>6, <1>7, <1>8 DEF Next, Stopped

\* How a termination comes about and goes on.
Condemned ==
  /\ cpu = "user" /\ arg' \in Progeny(current_process) /\ MayKill(arg')
  /\ UNCHANGED <<tree, sems, readyqueue, current_process>>

Executed(c) ==
  /\ cpu = "terminate"
  /\ c \in Progeny(arg) /\ c # arg /\ c \in Live /\ EmptyChild(c) /\ c \notin ToSet(readyqueue)
  /\ Unblock(c) /\ Free(c)
  /\ UNCHANGED <<readyqueue, current_process, arg, p_cursem, res_wait>>

LEMMA TerminationSteps ==
  ASSUME IInv, [Next]_vars, cpu' = "terminate"
  PROVE  \/ UNCHANGED <<tree, sems, readyqueue, current_process, cpu, arg>>
         \/ Condemned
         \/ \E c \in Proc : Executed(c)
  <1>0. /\ current_process \in Proc \cup {NULL}
        /\ cpu \in {"user", "io_entry", "terminate"} => current_process \in Proc
        /\ cpu = "terminate" => arg \in Live
    BY DEF IInv, TypeOK
  <1>1. ASSUME NEW t \in Progeny(current_process), cpu = "user", TerminateBegin(t), MayKill(t)
        PROVE  Condemned
    BY <1>1 DEF TerminateBegin, Condemned, sched
  <1>2. CASE Syscall
    <2>1. CASE \/ CreateProcess \/ QuerySyscall \/ ExitTrap \/ TerminateUnknown \/ SemopNull
               \/ \E d \in Dev : IoDevop(d)
      BY <2>1 DEF CreateProcess, QuerySyscall, ExitTrap, TerminateUnknown, SemopNull, IoDevop,
         SyscallEntry
    <2>2. CASE WaitClock \/ \E a \in Sem, w \in Weights : SemopP(a, w) \/ SemopV(a, w)
      BY <2>2 DEF WaitClock, SemopP, SemopV, Passeren
    <2>3. CASE SemopZero
      BY <2>3, <1>0, <1>1, ProgenySelf DEF SemopZero, SyscallEntry
    <2>4. ASSUME NEW t \in Proc, TerminateProcess(t) PROVE Condemned
      BY <2>4, <1>1 DEF TerminateProcess, SyscallEntry
    <2>5. ASSUME NEW t \in ExcType, Specify(t) PROVE Condemned
      BY <2>5, <1>0, <1>1, ProgenySelf DEF Specify, SyscallEntry
    <2>6. ASSUME NEW t \in ExcType, Exception(t) PROVE Condemned
      <3>1. t \notin tags[current_process] /\ cpu = "user"
        BY <2>6 DEF Exception
      <3>2. MayKill(current_process) /\ TerminateBegin(current_process)
        BY <2>6, <3>1 DEF Exception
      <3>3. QED BY <3>1, <3>2, <1>0, <1>1, ProgenySelf
    <2>7. QED BY <1>2, <2>1, <2>2, <2>3, <2>4, <2>5, <2>6 DEF Syscall
  <1>3. CASE Interrupt
    BY <1>3 DEF Interrupt, TimerInterrupt, DevInterrupt, TermInterrupt, Served
  <1>4. ASSUME NEW c \in Proc, TerminateChild(c) PROVE Executed(c)
    <2>1. /\ cpu = "terminate" /\ c \in Progeny(arg) /\ c # arg /\ EmptyChild(c) /\ arg \in Live
          /\ UNCHANGED <<readyqueue, current_process, arg>>
      BY <1>0, <1>4 DEF TerminateChild, sched
    <2>2. c \in Live
      BY <2>1, ProgenyLive DEF IInv
    <2>3. c \notin ToSet(readyqueue) /\ Unblock(c) /\ Free(c) /\ UNCHANGED <<p_cursem, res_wait>>
      BY <1>4 DEF TerminateChild
    <2>4. QED BY <2>1, <2>2, <2>3 DEF Executed
  <1>5. CASE Kernel
    <2>1. CASE \/ IoP \/ IoCommand \/ IoReturn \/ TerminateCurrent \/ TerminateOther \/ TimerTick
               \/ TimerTickEnd \/ TermTransm \/ InterruptExit \/ LoadCurrent \/ LoadNext
      BY <2>1 DEF IoP, PUpTo, InsideP, Passeren, IoCommand, IoReturn, TerminateCurrent,
         TerminateOther, TimerTick, TimerTickEnd, TermTransm, Served, InterruptExit, LoadCurrent, LoadNext, Resume, Idle
    <2>2. QED BY <1>4, <1>5, <2>1 DEF Kernel
  <1>6. CASE (\E d \in Dev : DeviceDone(d)) \/ UNCHANGED vars
    BY <1>6 DEF DeviceDone, vars, sched
  <1>7. QED BY <1>2, <1>3, <1>5, <1>6 DEF Next, Stopped

\* A descendant that goes takes nobody else's place.
LEMMA ExecutedQueues ==
  ASSUME IInv, NEW c \in Proc, Executed(c)
  PROVE  /\ Progeny(arg)' \subseteq Progeny(arg)
         /\ \A a \in Addr : ToSet(s_procq'[a]) \subseteq ToSet(s_procq[a])
         /\ \A a \in Addr : c \notin ToSet(s_procq[a]) => s_procq'[a] = s_procq[a]
         /\ pcbFree' = pcbFree \cup {c}
  <1>1. /\ cpu = "terminate" /\ arg \in Live /\ arg \in Proc /\ arg' = arg /\ c \in Live
        /\ s_procq \in [Addr -> Seq(Proc)] /\ p_cursem[c] \in Addr \cup {NULL}
        /\ \A a \in Addr : IsInjective(s_procq[a]) /\ s_procq[a] \in Seq(Proc)
    BY DEF Executed, IInv, TypeOK, Live, QueueInv
  <1>2. \A r \in Proc : Progeny(r)' \subseteq Progeny(r)
    BY <1>1, FreeTree DEF Executed, IInv
  <1>3. Progeny(arg)' \subseteq Progeny(arg)
    BY <1>1, <1>2 DEF Progeny
  <1>4. CASE p_cursem[c] = NULL
    BY <1>3, <1>4 DEF Executed, Unblock, Free
  <1>5. CASE p_cursem[c] # NULL
    <2>1. PICK b \in Addr : b = p_cursem[c]
      BY <1>1, <1>5
    <2>2. s_procq' = [s_procq EXCEPT ![b] = Without(s_procq[b], c)]
      BY <1>5, <2>1 DEF Executed, Unblock
    <2>3. c \in ToSet(s_procq[b])
      BY <1>1, <2>1 DEF IInv, QueueInv
    <2>4. ToSet(Without(s_procq[b], c)) \subseteq ToSet(s_procq[b])
      BY <1>1, <2>3, WithoutElements
    <2>5. \A a \in Addr : s_procq'[a] = IF a = b THEN Without(s_procq[b], c) ELSE s_procq[a]
      BY <1>1, <2>2
    <2>6. QED BY <1>3, <2>3, <2>4, <2>5 DEF Executed, Free
  <1>6. QED BY <1>4, <1>5

LEMMA VictimStep ==
  ASSUME IInv, [Next]_vars
  PROVE  /\ "kill_ready" \notin Hazards /\ VictimInv => VictimInv'
         /\ "kill_io" \notin Hazards /\ VictimIoInv => VictimIoInv'
  <1>1. SUFFICES ASSUME cpu' = "terminate" PROVE
               /\ "kill_ready" \notin Hazards /\ VictimInv
                    => \A q \in Progeny(arg)' : q # arg' => q \notin ToSet(readyqueue')
               /\ "kill_io" \notin Hazards /\ VictimIoInv
                    => \A q \in Progeny(arg)', d \in Dev : q \notin ToSet(s_procq'[d])
    BY DEF VictimInv, VictimIoInv
  <1>2. CASE UNCHANGED <<tree, sems, readyqueue, current_process, cpu, arg>>
    <2>1. Progeny(arg)' = Progeny(arg)
      BY <1>2 DEF Progeny, Closed, tree
    <2>2. QED BY <1>1, <1>2, <2>1 DEF VictimInv, VictimIoInv, sems
  <1>3. CASE Condemned
    <2>1. PICK t : t = arg'
      OBVIOUS
    <2>2. Progeny(arg)' = Progeny(t)
      BY <1>3, <2>1 DEF Condemned, Progeny, Closed, tree
    <2>3. MayKill(t) /\ UNCHANGED <<readyqueue, s_procq>>
      BY <1>3, <2>1 DEF Condemned, sems
    <2>4. QED BY <2>1, <2>2, <2>3 DEF MayKill
  <1>4. ASSUME NEW c \in Proc, Executed(c) PROVE
               /\ VictimInv => \A q \in Progeny(arg)' : q # arg' => q \notin ToSet(readyqueue')
               /\ VictimIoInv
                    => \A q \in Progeny(arg)', d \in Dev : q \notin ToSet(s_procq'[d])
    BY <1>4, ExecutedQueues, DevAddr DEF Executed, VictimInv, VictimIoInv
  <1>5. QED BY <1>1, <1>2, <1>3, <1>4, TerminationSteps

-----------------------------------------------------------------------------
(* Who waits for a device *)

\* P and V leave the other queues alone.
LEMMA OtherQueues ==
  ASSUME IInv, NEW a \in Addr, NEW w \in Int,
         \/ \E next : Passeren(a, w, next) /\ current_process # NULL
         \/ Verhogen(a, w)
  PROVE  \A b \in Addr \ {a} : s_procq'[b] = s_procq[b]
  <1>1. s_procq \in [Addr -> Seq(Proc)]
    BY DEF IInv, TypeOK
  <1>2. CASE \E next : Passeren(a, w, next) /\ current_process # NULL
    BY <1>1, <1>2 DEF Passeren, Block
  <1>3. CASE Verhogen(a, w)
    <2>1. \E n \in 0 .. Len(s_procq[a]) :
            s_procq' = [s_procq EXCEPT ![a] = SubSeq(s_procq[a], n + 1, Len(s_procq[a]))]
      BY <1>3 DEF Verhogen
    <2>2. QED BY <1>1, <2>1
  <1>4. QED BY <1>2, <1>3

\* A step that leaves the queue of d alone and does not start an operation.
LEMMA WaiterFrame ==
  ASSUME WaiterInv, NEW d \in Dev, Engaged(d)', s_procq'[d] = s_procq[d], device'[d] = device[d],
         cpu' # "io_command" \/ (cpu' = cpu /\ arg' = arg)
  PROVE  s_procq'[d] # <<>>
  BY DEF WaiterInv, Engaged

\* Serving a device ends its operation and concerns no other queue.
LEMMA WaiterServe ==
  ASSUME IInv, WaiterInv, NEW e \in Dev, Serve(e), cpu' # "io_command", NEW d \in Dev, Engaged(d)'
  PROVE  s_procq'[d] # <<>>
  <1>1. device' = [device EXCEPT ![e] = "idle"] /\ device \in [Dev -> {"idle", "busy", "done", "error"}]
    BY DEF Serve, IInv, TypeOK
  <1>2. d # e /\ device'[d] = device[d]
    BY <1>1 DEF Engaged
  <1>3. s_procq'[d] = s_procq[d]
    <2>1. CASE Verhogen(e, 1)
      BY <1>2, <2>1, OtherQueues, DevAddr
    <2>2. CASE UNCHANGED sems
      BY <2>2 DEF sems
    <2>3. QED BY <2>1, <2>2 DEF Serve
  <1>4. QED BY <1>2, <1>3, WaiterFrame

LEMMA WaiterStep ==
  ASSUME IInv, WellBehaved, DeviceInv, VictimIoInv, WaiterInv, [Next]_vars
  PROVE  WaiterInv'
  <1>0. /\ current_process \in Proc \cup {NULL}
        /\ cpu \in {"user", "io_entry", "terminate"} => current_process # NULL
        /\ cpu \in {"io_entry", "io_command", "term_transm"} => arg \in Dev
        /\ cpu = "terminate" => arg \in Live
        /\ s_procq \in [Addr -> Seq(Proc)]
    BY DEF IInv, TypeOK
  <1>1. SUFFICES ASSUME NEW d \in Dev, Engaged(d)' PROVE s_procq'[d] # <<>>
    BY DEF WaiterInv
  <1>2. CASE /\ UNCHANGED <<s_procq, device>>
             /\ cpu' # "io_command" \/ (cpu' = cpu /\ arg' = arg)
    BY <1>1, <1>2, WaiterFrame
  <1>3. ASSUME NEW a \in Addr, a # d, NEW w \in Int, UNCHANGED device, cpu' # "io_command",
               \/ \E next : Passeren(a, w, next) /\ current_process # NULL
               \/ Verhogen(a, w)
        PROVE  s_procq'[d] # <<>>
    BY <1>1, <1>3, OtherQueues, DevAddr, WaiterFrame
  <1>4. CLOCK # d /\ CLOCK \in Addr /\ d \in Addr /\ \A a \in Sem : a \in Addr /\ a # d
    BY DevAddr, AddrAssumption, DeviceAssumption
       DEF Addr, CLOCK, DevSem, Dev, Plain, Transm, Recv
  <1>5. CASE Syscall
    <2>1. CASE \/ CreateProcess \/ QuerySyscall \/ ExitTrap \/ TerminateUnknown \/ SemopZero
               \/ SemopNull \/ \E t \in Proc : TerminateProcess(t)
               \/ \E t \in ExcType : Specify(t) \/ Exception(t)
               \/ \E e \in Dev : IoDevop(e)
      <3>1. UNCHANGED <<s_procq, device>> /\ cpu' # "io_command"
        BY <2>1 DEF CreateProcess, QuerySyscall, ExitTrap, TerminateUnknown, SemopZero, SemopNull,
           TerminateProcess, Specify, Exception, TerminateBegin, SyscallEntry, IoDevop, sems
      <3>2. QED BY <1>2, <3>1
    <2>2. CASE WaitClock
      <3>1. /\ Passeren(CLOCK, -1, "scheduler") /\ current_process # NULL /\ UNCHANGED device
            /\ cpu' # "io_command"
        BY <2>2, <1>0 DEF WaitClock, SyscallEntry, Passeren
      <3>2. QED BY <3>1, <1>3, <1>4
    <2>3. ASSUME NEW a \in Sem, NEW w \in Weights, SemopP(a, w) \/ SemopV(a, w)
          PROVE  s_procq'[d] # <<>>
      <3>1. w \in Int /\ UNCHANGED device /\ cpu' # "io_command" /\ current_process # NULL
        BY <2>3, <1>0, BoundAssumption DEF SemopP, SemopV, SyscallEntry, Passeren
      <3>2. Passeren(a, w, "scheduler") \/ Verhogen(a, w)
        BY <2>3 DEF SemopP, SemopV
      <3>3. QED BY <3>1, <3>2, <1>3, <1>4
    <2>4. QED BY <1>5, <2>1, <2>2, <2>3 DEF Syscall
  <1>6. CASE Interrupt
    <2>1. CASE TimerInterrupt
      BY <1>2, <2>1 DEF TimerInterrupt, sems
    <2>2. ASSUME NEW e \in Plain, DevInterrupt(e) PROVE s_procq'[d] # <<>>
      <3>1. e \in Dev /\ Serve(e) /\ cpu' # "io_command"
        BY <2>2, DevAddr DEF DevInterrupt, Served
      <3>2. QED BY <3>1, <1>1, WaiterServe
    <2>3. ASSUME NEW e \in Transm, TermInterrupt(e) PROVE s_procq'[d] # <<>>
      <3>1. /\ e + NTerm \in Dev /\ cpu' # "io_command"
            /\ Serve(e + NTerm) \/ UNCHANGED <<s_procq, device>>
        BY <2>3, DevAddr DEF TermInterrupt, Served, sems
      <3>2. QED BY <3>1, <1>1, <1>2, WaiterServe
    <2>4. QED BY <1>6, <2>1, <2>2, <2>3 DEF Interrupt
  <1>7. CASE IoP
    <2>0. WholeP
      BY <1>7, IoPWhole DEF WellBehaved
    <2>1. /\ Passeren(arg, -1, "io_command") /\ arg \in Dev /\ arg' = arg /\ device' = device
          /\ cpu = "io_entry" /\ current_process # NULL
      BY <1>0, <2>0 DEF WholeP
    <2>2. PICK e \in Dev : e = arg
      BY <2>1
    <2>3. CASE e = d
      <3>1. ~Engaged(d)
        BY <2>1, <2>2, <2>3 DEF DeviceInv
      <3>2. semaphore[d] = 0
        BY <3>1 DEF DeviceInv
      <3>3. ~(semaphore[d] + (-1) >= 0)
        BY <3>2
      <3>4. Len(s_procq'[d]) = Len(s_procq[d]) + 1 /\ Len(s_procq[d]) \in Nat
        <4>1. \/ semaphore[d] + (-1) >= 0
              \/ Len(s_procq'[d]) = Len(s_procq[d]) + 1
          BY <2>1, <2>2, <2>3, <1>4, PEffect
        <4>2. QED BY <4>1, <3>3, <1>4, QueueFacts
      <3>5. QED BY <3>4, EmptySeq
    <2>4. CASE e # d
      <3>1. s_procq'[d] = s_procq[d]
        BY <2>1, <2>2, <2>4, <1>4, OtherQueues, DevAddr
      <3>2. Engaged(d)
        BY <1>1, <2>1, <2>2, <2>4 DEF Engaged
      <3>3. QED BY <3>1, <3>2 DEF WaiterInv
    <2>5. QED BY <2>3, <2>4
  <1>8. CASE IoCommand
    <2>1. /\ cpu = "io_command" /\ arg \in Dev /\ device' = [device EXCEPT ![arg] = "busy"]
          /\ cpu' = "io_issued" /\ s_procq' = s_procq
      BY <1>0, <1>8 DEF IoCommand, sems
    <2>2. Engaged(d)
      BY <1>1, <2>1 DEF Engaged, IInv, TypeOK
    <2>3. QED BY <2>1, <2>2 DEF WaiterInv
  <1>9. CASE \/ IoReturn \/ TerminateCurrent \/ TimerTickEnd \/ InterruptExit \/ LoadCurrent \/ LoadNext
    <2>1. UNCHANGED <<s_procq, device>> /\ cpu' # "io_command"
      BY <1>9 DEF IoReturn, TerminateCurrent, TimerTickEnd, InterruptExit, LoadCurrent, LoadNext,
         Resume, Idle, sems
    <2>2. QED BY <1>2, <2>1
  <1>10. CASE TimerTick
    <2>1. Verhogen(CLOCK, 1) /\ UNCHANGED device /\ cpu' # "io_command"
      BY <1>10 DEF TimerTick
    <2>2. QED BY <2>1, <1>3, <1>4
  <1>11. CASE TermTransm
    <2>1. PICK e \in Dev : e = arg
      BY <1>0, <1>11 DEF TermTransm
    <2>2. cpu' # "io_command" /\ (Serve(e) \/ UNCHANGED <<s_procq, device>>)
      BY <1>11, <2>1 DEF TermTransm, Served, sems
    <2>3. QED BY <2>2, <1>1, <1>2, WaiterServe
  <1>12. ASSUME NEW c \in Live, Unblock(c), p_cursem[c] # d, device' = device, cpu' # "io_command"
         PROVE  s_procq'[d] # <<>>
    <2>1. s_procq'[d] = s_procq[d]
      BY <1>0, <1>4, <1>12 DEF Unblock
    <2>2. QED BY <1>1, <1>12, <2>1, WaiterFrame
  <1>13. CASE TerminateOther
    <2>1. /\ arg \in Live /\ arg \in Proc /\ Unblock(arg) /\ device' = device /\ cpu' # "io_command"
          /\ cpu = "terminate"
      BY <1>0, <1>13 DEF TerminateOther, Live
    <2>2. arg \in Progeny(arg)
      BY <2>1, ProgenySelf
    <2>3. p_cursem[arg] # d
      BY <1>4, <2>1, <2>2 DEF VictimIoInv, IInv, QueueInv
    <2>4. QED BY <2>1, <2>3, <1>12
  <1>14. ASSUME NEW c \in Proc, TerminateChild(c) PROVE s_procq'[d] # <<>>
    <2>1. /\ c \in Progeny(arg) /\ arg \in Live /\ device' = device /\ cpu = "terminate"
          /\ cpu' # "io_command" /\ (Unblock(c) \/ UNCHANGED <<s_procq, device>>)
      BY <1>0, <1>14 DEF TerminateChild, sems
    <2>2. c \in Live
      BY <2>1, ProgenyLive DEF IInv
    <2>3. p_cursem[c] # d
      BY <1>4, <2>1, <2>2 DEF VictimIoInv, IInv, QueueInv
    <2>4. QED BY <2>1, <2>2, <2>3, <1>2, <1>12
  <1>15. CASE UNCHANGED vars
    BY <1>2, <1>15 DEF vars, sems
  <1>16. ASSUME NEW e \in Dev, DeviceDone(e) PROVE s_procq'[d] # <<>>
    <2>1. s_procq' = s_procq /\ cpu' = cpu /\ arg' = arg /\ device[e] # "idle"
          /\ \E r : device' = [device EXCEPT ![e] = r]
      BY <1>16 DEF DeviceDone, sems
    <2>2. Engaged(d)
      BY <1>1, <2>1 DEF Engaged, IInv, TypeOK
    <2>3. QED BY <2>1, <2>2 DEF WaiterInv
  <1>17. QED BY <1>5, <1>6, <1>7, <1>8, <1>9, <1>10, <1>11, <1>13, <1>14, <1>15, <1>16
         DEF Next, Kernel, Stopped

-----------------------------------------------------------------------------
(* Nothing undefined happens *)

\* The processor never comes to what C or the hardware leaves undefined.
Defined == cpu # "undefined"

\* All that the discipline gives.
WellInv ==
  WaitersInv(DevSem) /\ DeviceInv /\ SavedInv /\ VictimInv /\ VictimIoInv /\ WaiterInv

LEMMA WellStep ==
  ASSUME IInv, WellBehaved, WellInv, [Next]_vars
  PROVE  WellInv'
  <1>0. "io_interrupted" \notin Hazards
    BY DEF WellBehaved
  <1>1. DevSem \in SUBSET Addr /\ DevSem \cap Sem = {}
    BY AddrAssumption DEF Addr
  <1>2. WaitersInv(DevSem)'
    BY <1>0, <1>1, WaitersStep DEF WellInv
  <1>3. DeviceInv'
    BY <1>0, NextIInv, DeviceStep DEF WellInv, WellBehaved, Disciplined
  <1>4. SavedInv' /\ VictimInv' /\ VictimIoInv' /\ WaiterInv'
    BY SavedStep, VictimStep, WaiterStep DEF WellInv, WellBehaved
  <1>5. QED BY <1>2, <1>3, <1>4 DEF WellInv

\* A pending device has its requester.
LEMMA HeadFound ==
  ASSUME WaiterInv, NEW d \in Dev, device[d] # "idle"
  PROVE  ~HeadMissing(d) /\ \A next : Served(d, next) = {next}
  BY DEF WaiterInv, Engaged, HeadMissing, Served

LEMMA DefinedStep ==
  ASSUME IInv, WellInv, Defined, [Next]_vars, "io_interrupted" \notin Hazards
  PROVE  Defined'
  <1>0. /\ current_process \in Proc \cup {NULL}
        /\ cpu \in {"io_entry", "io_command", "term_transm"} => arg \in Dev
        /\ flag = "LOADCURRENT" => current_process # NULL
        /\ readyqueue \in Seq(Proc) /\ IsInjective(readyqueue)
    BY DEF IInv, TypeOK, QueueInv
  <1>1. \A p \in Proc : Resume(p) = "user"
    BY DEF WellInv, SavedInv, Resume, Exits
  <1>2. CASE Syscall
    <2>1. CASE WaitClock \/ \E a \in Sem, w \in Weights : SemopP(a, w) \/ SemopV(a, w)
      BY <2>1 DEF WaitClock, SemopP, SemopV, Passeren, Defined
    <2>2. CASE ~(WaitClock \/ \E a \in Sem, w \in Weights : SemopP(a, w) \/ SemopV(a, w))
      BY <1>2, <2>2 DEF Syscall, CreateProcess, QuerySyscall, ExitTrap, TerminateUnknown, SemopZero,
         SemopNull, TerminateProcess, Specify, Exception, TerminateBegin, SyscallEntry, IoDevop, Defined
    <2>3. QED BY <2>1, <2>2
  <1>3. CASE Interrupt
    <2>1. CASE TimerInterrupt
      BY <2>1 DEF TimerInterrupt, Defined
    <2>2. ASSUME NEW d \in Plain, DevInterrupt(d) PROVE Defined'
      <3>1. d \in Dev /\ device[d] # "idle" /\ cpu' \in Served(d, "int_exit")
        BY <2>2, DevAddr DEF DevInterrupt, Pending
      <3>2. QED BY <3>1, HeadFound DEF WellInv, Defined
    <2>3. ASSUME NEW d \in Transm, TermInterrupt(d) PROVE Defined'
      <3>1. d + NTerm \in Dev
        BY DevAddr
      <3>2. \/ device[d + NTerm] = "done" /\ cpu' \in Served(d + NTerm, "term_transm")
            \/ cpu' = "term_transm"
        BY <2>3 DEF TermInterrupt
      <3>3. QED BY <3>1, <3>2, HeadFound DEF WellInv, Defined
    <2>4. QED BY <1>3, <2>1, <2>2, <2>3 DEF Interrupt
  <1>4. CASE TermTransm
    <2>1. PICK d \in Dev : d = arg
      BY <1>0, <1>4 DEF TermTransm
    <2>2. (device[d] = "done" /\ cpu' \in Served(d, "int_exit")) \/ cpu' = "int_exit"
      BY <1>4, <2>1 DEF TermTransm
    <2>3. QED BY <2>2, HeadFound DEF WellInv, Defined
  <1>5. ASSUME NEW c \in Proc, TerminateChild(c) PROVE Defined'
    <2>1. c \in Progeny(arg) /\ c # arg /\ cpu = "terminate"
      BY <1>5 DEF TerminateChild
    <2>2. c \notin ToSet(readyqueue)
      BY <2>1 DEF WellInv, VictimInv
    <2>3. QED BY <1>5, <2>1, <2>2 DEF TerminateChild, Defined
  <1>6. CASE LoadCurrent
    BY <1>0, <1>1, <1>6 DEF LoadCurrent, Defined
  <1>7. CASE LoadNext
    <2>1. CASE Requeued = <<>>
      BY <1>7, <2>1, LoadNextBody DEF Idle, Defined
    <2>2. CASE Requeued # <<>>
      <3>1. Requeued \in Seq(Proc)
        BY <1>0 DEF Requeued
      <3>2. Head(Requeued) \in Proc
        BY <2>2, <3>1
      <3>3. cpu' = Resume(Head(Requeued))
        BY <1>7, <2>2, LoadNextBody
      <3>4. QED BY <1>1, <3>2, <3>3 DEF Defined
    <2>3. QED BY <2>1, <2>2
  <1>8. CASE \/ IoP \/ IoCommand \/ IoReturn \/ TerminateCurrent \/ TerminateOther \/ TimerTick
             \/ TimerTickEnd \/ InterruptExit
    BY <1>8, IoPWhole DEF WholeP, Passeren, IoCommand, IoReturn, TerminateCurrent, TerminateOther,
       TimerTick, TimerTickEnd, InterruptExit, Defined
  <1>9. CASE (\E d \in Dev : DeviceDone(d)) \/ UNCHANGED vars
    BY <1>9 DEF DeviceDone, vars, Defined
  <1>10. QED BY <1>2, <1>3, <1>4, <1>5, <1>6, <1>7, <1>8, <1>9 DEF Next, Kernel, Stopped

LEMMA InitWell ==
  ASSUME Init
  PROVE  WellInv /\ Defined
  <1>1. WaitersInv(DevSem) /\ DeviceInv
    BY InitSems
  <1>2. /\ p_s = [p \in Proc |-> "user"] /\ cpu = "scheduler"
        /\ device = [d \in Dev |-> "idle"]
    BY DEF Init
  <1>3. SavedInv /\ VictimInv /\ VictimIoInv /\ WaiterInv /\ Defined
    BY <1>2 DEF SavedInv, VictimInv, VictimIoInv, WaiterInv, Engaged, Defined
  <1>4. QED BY <1>1, <1>3 DEF WellInv

LEMMA WellHolds ==
  ASSUME WellBehaved
  PROVE  Spec => [](WellInv /\ Defined)
  <1>0. "io_interrupted" \notin Hazards
    BY DEF WellBehaved
  <1>1. Init => WellInv /\ Defined
    BY InitWell
  <1>2. IInv /\ WellInv /\ Defined /\ [Next]_vars => (WellInv /\ Defined)'
    BY WellBehaved, <1>0, WellStep, DefinedStep
  <1>3. Spec => []IInv
    BY <1>0, InvariantHolds
  <1>4. QED BY <1>1, <1>2, <1>3, PTL DEF Spec

\* The state the nucleus resumes a process with is always the one its own code
\* was interrupted in, as long as interrupts come only in processes.
THEOREM UserStatesSaved ==
  ASSUME {"nested", "io_interrupted"} \cap Hazards = {}
  PROVE  Spec => []UserStateSaved
  <1>1. Init => SavedInv
    BY DEF Init, SavedInv
  <1>2. IInv /\ SavedInv /\ [Next]_vars => SavedInv'
    BY {"nested", "io_interrupted"} \cap Hazards = {}, SavedStep
  <1>3. SavedInv => UserStateSaved
    BY DEF SavedInv, UserStateSaved, Live
  <1>4. Spec => []IInv
    BY {"nested", "io_interrupted"} \cap Hazards = {}, InvariantHolds
  <1>5. QED BY <1>1, <1>2, <1>3, <1>4, PTL DEF Spec

\* The handler of a pending device finds the process that waits for it.
THEOREM WaiterAlwaysFound ==
  ASSUME WellBehaved
  PROVE  Spec => []HandlerFindsWaiter
  <1>1. WellInv => HandlerFindsWaiter
    BY HeadFound DEF WellInv, HandlerFindsWaiter
  <1>2. QED BY <1>1, WellHolds, PTL

\* No store through the NULL of headBlocked, no ready queue run through a freed
\* ProcBlk and no resumption inside io_devop, under the discipline.
THEOREM BehaviourDefined ==
  ASSUME WellBehaved
  PROVE  Spec => []Defined
  BY WellHolds, PTL

-----------------------------------------------------------------------------
(* The nucleus implements ProcTree *)

\* Create and the end of a termination apart, and the step that frees a ready
\* descendant, which the discipline excludes, the tree stays what it is.
LEMMA TreeSteps ==
  ASSUME IInv, [Next]_vars, cpu' # "terminate"
  PROVE  \/ CreateProcess
         \/ cpu # "terminate" /\ UNCHANGED <<pcbFree, p_parent>>
         \/ TerminateCurrent \/ TerminateOther
         \/ \E c \in Proc : TerminateChild(c) /\ cpu' = "undefined"
  <1>1. CASE Syscall /\ ~CreateProcess
    <2>1. UNCHANGED tree /\ cpu # "terminate"
      BY <1>1 DEF Syscall, QuerySyscall, ExitTrap, TerminateUnknown, SemopZero, SemopNull, WaitClock,
         TerminateProcess, SemopP, SemopV, Specify, Exception, IoDevop, TerminateBegin, SyscallEntry
    <2>2. QED BY <2>1 DEF tree
  <1>2. CASE Interrupt
    <2>1. UNCHANGED tree /\ cpu # "terminate"
      BY <1>2 DEF Interrupt, TimerInterrupt, DevInterrupt, TermInterrupt, InterruptEntry, Interruptible,
         IoWindows, InsideP, Exits
    <2>2. QED BY <2>1 DEF tree
  <1>3. CASE \/ IoP \/ IoCommand \/ IoReturn \/ TimerTick \/ TimerTickEnd \/ TermTransm
             \/ InterruptExit \/ LoadCurrent \/ LoadNext
    <2>1. UNCHANGED tree /\ cpu # "terminate"
      BY <1>3 DEF Exits, IoP, IoCommand, IoReturn, TimerTick, TimerTickEnd, TermTransm, InterruptExit,
         LoadCurrent, LoadNext
    <2>2. QED BY <2>1 DEF tree
  <1>4. ASSUME NEW c \in Proc, TerminateChild(c) PROVE cpu' = "undefined"
    BY <1>4 DEF TerminateChild
  <1>5. CASE (\E d \in Dev : DeviceDone(d)) \/ UNCHANGED vars
    BY <1>5 DEF DeviceDone, vars, tree
  <1>6. QED BY <1>1, <1>2, <1>3, <1>4, <1>5 DEF Next, Stopped, Syscall, Kernel

\* What the code traverses from r is what ProcTree counts as the progeny of r.
LEMMA ProgenyAbove ==
  ASSUME TypeOK, TreeInv, NEW r \in Live
  PROVE  Progeny(r) \subseteq Tree!Progeny(r)
  <1>1. SUFFICES ASSUME NEW p \in Progeny(r), NEW S \in SUBSET Live, r \in S, Tree!Closed(S)
                 PROVE  p \in S
    BY ProgenyLive DEF Tree!Progeny
  <1>2. S \in SUBSET Proc
    BY DEF Live
  <1>3. Closed(S)
    <2>1. ASSUME NEW q \in Proc, p_parent[q] \in S PROVE q \in S
      <3>1. q \in Live
        BY <1>2, <2>1, NullAssumption DEF TreeInv, Live
      <3>2. QED BY <1>1, <2>1, <3>1 DEF Tree!Closed, Tree!Below
    <2>2. QED BY <2>1 DEF Closed
  <1>4. QED BY <1>1, <1>2, <1>3 DEF Progeny

\* The process that terminate_process works on.
Target == IF cpu = "terminate" THEN arg ELSE NULL

\* Freeing a childless process of the target's progeny.
LEMMA DieRefines ==
  ASSUME IInv, NEW t \in Live, cpu = "terminate", arg = t, NEW c \in Progeny(t), c \in Live,
         EmptyChild(c), Free(c),
         Target' = IF c = t THEN NULL ELSE t,
         current_process' = IF c = current_process THEN NULL ELSE current_process
  PROVE  Tree!Die
  <1>1. c \in Tree!Progeny(t) /\ t # NULL /\ t \in Proc
    BY ProgenyAbove, NullAssumption DEF IInv, Live
  <1>2. Tree!Below({c}) = {}
    BY DEF Tree!Below, EmptyChild, Children, Live
  <1>3. Live' = Live \ {c} /\ p_parent' = [p_parent EXCEPT ![c] = NULL]
    BY DEF Free, Live
  <1>4. Target = t
    BY DEF Target
  <1>5. c \in Tree!Progeny(Target) /\ Target # NULL
    BY <1>1, <1>4
  <1>6. Target' = IF c = Target THEN NULL ELSE Target
    BY <1>4
  <1>7. QED BY <1>2, <1>3, <1>5, <1>6, Zenon DEF Tree!Die, Target

LEMMA TreeStepRefines ==
  ASSUME IInv, IInv' \/ Torn', VictimInv, [Next]_vars
  PROVE  [Tree!Next]_(Tree!vars)
  <1>0. /\ current_process \in Proc \cup {NULL}
        /\ cpu \in {"user", "io_entry", "terminate"} => current_process \in Proc
        /\ cpu = "terminate" => arg \in Live
        /\ current_process # NULL => current_process \in Live
        /\ current_process' # NULL => current_process' \in Live'
        /\ pcbFree \subseteq Proc
    BY DEF IInv, Torn, TypeOK, QueueInv
  <1>1. CASE cpu' = "terminate" /\ UNCHANGED <<tree, sems, readyqueue, current_process, cpu, arg>>
    BY <1>1 DEF Tree!vars, Live, tree
  <1>2. CASE cpu' = "terminate" /\ Condemned
    <2>1. /\ cpu = "user" /\ current_process \in Live /\ current_process # NULL
          /\ UNCHANGED <<Live, p_parent, current_process>>
      BY <1>0, <1>2, NullAssumption DEF Condemned, tree, Live
    <2>2. arg' \in Progeny(current_process)
      BY <1>2 DEF Condemned
    <2>3. arg' \in Tree!Progeny(current_process)
      BY <2>1, <2>2, ProgenyAbove DEF IInv
    <2>4. Target = NULL /\ Target' = arg'
      BY <1>2, <2>1 DEF Target
    <2>5. Tree!Terminate
      BY <2>1, <2>3, <2>4 DEF Tree!Terminate, Target
    <2>6. QED BY <2>5 DEF Tree!Next
  <1>3. ASSUME NEW c \in Proc, cpu' = "terminate", Executed(c) PROVE Tree!Next
    <2>1. /\ cpu = "terminate" /\ arg \in Live /\ c \in Progeny(arg) /\ c # arg /\ c \in Live
          /\ EmptyChild(c) /\ Free(c) /\ arg' = arg /\ current_process' = current_process
      BY <1>0, <1>3 DEF Executed
    <2>2. c # current_process
      BY <2>1 DEF IInv, TargetInv
    <2>3. Target' = arg
      BY <1>3, <2>1 DEF Target
    <2>4. Tree!Die
      BY <2>1, <2>2, <2>3, DieRefines
    <2>5. QED BY <2>4 DEF Tree!Next
  <1>4. CASE TerminateCurrent \/ TerminateOther
    <2>1. /\ cpu = "terminate" /\ arg \in Live /\ arg \in Proc /\ EmptyChild(arg) /\ Free(arg)
          /\ cpu' = "scheduler"
          /\ current_process' = IF arg = current_process THEN NULL ELSE current_process
      BY <1>0, <1>4 DEF TerminateCurrent, TerminateOther, Live
    <2>2. arg \in Progeny(arg) /\ Target' = NULL
      BY <2>1, ProgenySelf DEF Target
    <2>3. Tree!Die
      BY <2>1, <2>2, DieRefines
    <2>4. QED BY <2>3 DEF Tree!Next
  <1>5. ASSUME NEW c \in Proc, TerminateChild(c), cpu' = "undefined" PROVE FALSE
    BY <1>5 DEF TerminateChild, VictimInv
  <1>6. CASE CreateProcess
    <2>1. PICK child \in pcbFree : /\ pcbFree' = pcbFree \ {child}
                                   /\ p_parent' = [p_parent EXCEPT ![child] = current_process]
      BY <1>6 DEF CreateProcess
    <2>2. /\ cpu = "user" /\ cpu' = "scheduler" /\ current_process # NULL
          /\ current_process' = current_process
      BY <1>0, <1>6, NullAssumption DEF CreateProcess
    <2>3. child \in Proc \ Live /\ Live' = Live \cup {child}
      BY <1>0, <2>1 DEF Live
    <2>4. Target = NULL /\ Target' = NULL
      BY <2>2 DEF Target
    <2>5. Tree!Create
      BY <2>1, <2>2, <2>3, <2>4 DEF Tree!Create, Target
    <2>6. QED BY <2>5 DEF Tree!Next
  <1>7. CASE cpu # "terminate" /\ cpu' # "terminate" /\ UNCHANGED <<pcbFree, p_parent>>
    <2>1. Target = NULL /\ Target' = NULL /\ Live' = Live /\ p_parent' = p_parent
      BY <1>7 DEF Target, Live
    <2>2. current_process' \in Live \cup {NULL}
      BY <1>0, <2>1
    <2>3. Tree!Switch
      BY <2>1, <2>2 DEF Tree!Switch, Target
    <2>4. QED BY <2>3 DEF Tree!Next
  <1>8. CASE cpu' = "terminate"
    BY <1>1, <1>2, <1>3, <1>8, TerminationSteps
  <1>9. CASE cpu' # "terminate"
    BY <1>4, <1>5, <1>6, <1>7, <1>9, TreeSteps DEF Tree!Next
  <1>10. QED BY <1>8, <1>9

LEMMA TreeInitRefines == Init => Tree!Init
  <1>1. SUFFICES ASSUME Init PROVE Tree!Init
    OBVIOUS
  <1>2. PICK first \in Proc : pcbFree = Proc \ {first}
    BY <1>1 DEF Init
  <1>3. Live = {first} /\ Target = NULL
    BY <1>1, <1>2 DEF Live, Init, Target
  <1>4. current_process = NULL /\ p_parent = [p \in Proc |-> NULL]
    BY <1>1 DEF Init
  <1>5. QED BY <1>3, <1>4 DEF Tree!Init, Target

\* The process tree of the nucleus is that of ProcTree, which Pcb proves of the
\* links of pcb.c: children are born to the running process, and a termination
\* frees the target and its progeny, leaves first, and nobody else, while it is
\* the only thing the nucleus does.  A torn P leaves the tree alone.
THEOREM NucleusImplementsTree ==
  ASSUME "kill_ready" \notin Hazards
  PROVE  Spec => ImplementsTree
  <1>1. Init => VictimInv
    BY DEF Init, VictimInv
  <1>2. IInv /\ VictimInv /\ [Next]_vars => VictimInv'
    BY "kill_ready" \notin Hazards, VictimStep
  <1>3. IInv /\ (IInv \/ Torn)' /\ VictimInv /\ [Next]_vars => [Tree!Next]_(Tree!vars)
    BY TreeStepRefines
  <1>4. Torn /\ [Next]_vars => VictimInv' /\ UNCHANGED Tree!vars
    <2>1. SUFFICES ASSUME Torn, [Next]_vars PROVE VictimInv' /\ UNCHANGED Tree!vars
      OBVIOUS
    <2>2. /\ Torn' /\ UNCHANGED <<pcbFree, p_parent, current_process>>
          /\ cpu # "terminate" /\ cpu' # "terminate"
      BY <2>1, TornStep DEF Torn, tree
    <2>3. QED BY <2>2 DEF VictimInv, Tree!vars, Live
  <1>5. (IInv \/ Torn) /\ VictimInv /\ [Next]_vars => VictimInv'
    BY <1>2, <1>4
  <1>6. (IInv \/ Torn) /\ (IInv \/ Torn)' /\ VictimInv /\ [Next]_vars => [Tree!Next]_(Tree!vars)
    BY <1>3, <1>4
  <1>7. QED BY <1>1, <1>5, <1>6, TreeInitRefines, InvariantOrTorn, PTL
        DEF Spec, ImplementsTree, Tree!Spec

-----------------------------------------------------------------------------
(* A termination never gets stuck *)

\* There is always somebody to free: the target, or a childless descendant.
Feasible ==
  cpu = "terminate" =>
    EmptyChild(arg) \/ \E c \in Progeny(arg) \ {arg} : EmptyChild(c)

\* If every process of a progeny had a child, p_parent would map the progeny
\* without its root onto the whole of it, which is finite.
LEMMA LeafExists ==
  ASSUME TypeOK, TreeInv, NEW r \in Live
  PROVE  \E c \in Progeny(r) : EmptyChild(c)
  <1> DEFINE A == Progeny(r)
             B == A \ {r}
  <1>1. SUFFICES ASSUME \A c \in A : ~EmptyChild(c) PROVE FALSE
    OBVIOUS
  <1>2. r \in Proc /\ r \in A /\ A \in SUBSET Proc /\ Closed(A)
    BY DEF Live, Progeny, Closed
  <1>3. \A q \in A : \E c \in A : p_parent[c] = q
    BY <1>1, <1>2 DEF EmptyChild, Children, Closed
  <1>4. p_parent[r] \notin A
    <2>1. SUFFICES ASSUME p_parent[r] \in A PROVE FALSE
      OBVIOUS
    <2>2. PICK t \in A : t = p_parent[r]
      BY <2>1
    <2>3. t \in Proc /\ t \in Progeny(t) /\ Closed(Progeny(t))
      BY <1>2, <2>2 DEF Progeny, Closed
    <2>4. r \in Progeny(t)
      BY <1>2, <2>2, <2>3 DEF Closed
    <2>5. t = r
      BY <1>2, <2>4, ProgenyAntisymmetric
    <2>6. p_parent[r] \notin {r}
      BY <1>2 DEF TreeInv
    <2>7. QED BY <2>2, <2>5, <2>6
  <1>5. \A q \in A : \E c \in B : p_parent[c] = q
    BY <1>3, <1>4
  <1>6. IsFiniteSet(A) /\ IsFiniteSet(B) /\ Cardinality(B) = Cardinality(A) - 1
        /\ Cardinality(A) \in Nat
    BY <1>2, LiveFinite, FS_RemoveElement
  <1>7. A \subseteq {p_parent[c] : c \in B}
    BY <1>5
  <1> HIDE DEF A
  <1> DEFINE T == {p_parent[c] : c \in B}
             f == [c \in B |-> p_parent[c]]
  <1>8. f \in Surjection(B, T)
    BY DEF Surjection
  <1> HIDE DEF f
  <1>9. IsFiniteSet(T) /\ Cardinality(T) <= Cardinality(B)
    BY <1>6, <1>8, FS_Surjection
  <1>10. Cardinality(A) <= Cardinality(T)
    BY <1>7, <1>9, FS_Subset
  <1>11. Cardinality(T) \in Nat
    BY <1>9, FS_CardinalityType
  <1>12. QED BY <1>6, <1>9, <1>10, <1>11

\* terminate_children always finds a leaf to free next, so that a termination
\* can only end by freeing its target.
THEOREM TerminationFeasible == Spec => []Feasible
  <1>1. IInv => Feasible
    <2>1. SUFFICES ASSUME IInv, cpu = "terminate"
                   PROVE  EmptyChild(arg) \/ \E c \in Progeny(arg) \ {arg} : EmptyChild(c)
      BY DEF Feasible
    <2>2. arg \in Live /\ TypeOK /\ TreeInv
      BY <2>1 DEF IInv, TypeOK
    <2>3. \E c \in Progeny(arg) : EmptyChild(c)
      BY <2>2, LeafExists
    <2>4. QED BY <2>3
  <1>2. Torn => Feasible
    BY DEF Torn, Feasible
  <1>3. QED BY <1>1, <1>2, InvariantOrTorn, PTL

=============================================================================
