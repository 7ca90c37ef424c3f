------------------------------- MODULE AslProofs -------------------------------
(***************************************************************************)
(* Proofs about Asl, for every number of processes and descriptors and      *)
(* every set of addresses: no descriptor is lost, aslh stays in order, and  *)
(* each function of asl.c does what AslSpec says of it.                     *)
(*                                                                         *)
(* AInv adds to the three invariants that descriptors in use have an        *)
(* address and that no queue holds a process twice (without which a process *)
(* could leave a queue, lose its p_cursem, and still be in it).             *)
(***************************************************************************)
EXTENDS Asl, QueueLemmas

\* DescriptorsConserved, list by list.
ListsInv ==
  /\ IsInjective(aslh) /\ IsInjective(semdFree)
  /\ ToSet(aslh) \cap ToSet(semdFree) = {}
  /\ ToSet(aslh) \cup ToSet(semdFree) = Semd
  /\ \A d \in Semd : d \in ToSet(aslh) <=> s_procq[d] # <<>>

AddressInv == \A d \in ToSet(aslh) : s_semAdd[d] \in Addr

QueuesInv == \A d \in Semd : IsInjective(s_procq[d])

AInv ==
  /\ TypeOK
  /\ ListsInv
  /\ AddressInv
  /\ Ascending
  /\ QueuesInv
  /\ CursemPoints

-----------------------------------------------------------------------------
(* The search *)

\* Positions of aslh and the addresses there.
LEMMA Positions ==
  ASSUME AInv
  PROVE  /\ Len(aslh) \in Nat
         /\ ToSet(aslh) = {aslh[i] : i \in 1 .. Len(aslh)}
         /\ \A i \in 1 .. Len(aslh) : aslh[i] \in Semd /\ aslh[i] \in ToSet(aslh)
                                      /\ s_semAdd[aslh[i]] \in Addr /\ s_semAdd[aslh[i]] \in Nat
         /\ ToSet(aslh) \subseteq Semd
         /\ NULL \notin Semd
  <1>1. aslh \in Seq(Semd)
    BY DEF AInv, TypeOK
  <1>2. /\ Len(aslh) \in Nat /\ ToSet(aslh) \subseteq Semd
        /\ ToSet(aslh) = {aslh[i] : i \in 1 .. Len(aslh)}
    BY <1>1, LenProperties, ElementsOf
  <1>3. \A i \in 1 .. Len(aslh) : aslh[i] \in Semd /\ aslh[i] \in ToSet(aslh)
    BY <1>2
  <1>4. NULL \notin Semd
    BY AslAssumption DEF Semd
  <1>5. QED BY <1>2, <1>3, <1>4, AslAssumption DEF AInv, AddressInv

\* Where FirstFrom stops.
LEMMA FirstFromStops ==
  ASSUME AInv, NEW a \in Addr
  PROVE  LET i == FirstFrom(a)
         IN \/ i = 0 /\ \A j \in 1 .. Len(aslh) : s_semAdd[aslh[j]] < a
            \/ /\ i \in 1 .. Len(aslh) /\ s_semAdd[aslh[i]] >= a
               /\ \A j \in 1 .. Len(aslh) : j < i => s_semAdd[aslh[j]] < a
  <1> DEFINE I == {j \in 1 .. Len(aslh) : s_semAdd[aslh[j]] >= a}
  <1>1. FirstFrom(a) = IF I # {} THEN Min(I) ELSE 0
    BY DEF FirstFrom, SelectInSeq
  <1>2. /\ Len(aslh) \in Nat /\ a \in Nat
        /\ \A j \in 1 .. Len(aslh) : s_semAdd[aslh[j]] \in Nat
    BY Positions, AslAssumption
  <1>3. CASE I = {}
    BY <1>1, <1>2, <1>3
  <1>4. CASE I # {}
    <2>1. I \in SUBSET (1 .. Len(aslh))
      OBVIOUS
    <2>2. Min(I) \in I /\ \A j \in I : Min(I) <= j
      BY <1>2, <1>4, <2>1, MinOf
    <2>3. FirstFrom(a) = Min(I)
      BY <1>1, <1>4
    <2>4. ASSUME NEW j \in 1 .. Len(aslh), j < Min(I) PROVE s_semAdd[aslh[j]] < a
      <3>1. j \notin I
        BY <2>1, <2>2, <2>4
      <3>2. QED BY <3>1, <1>2
    <2>5. QED BY <2>2, <2>3, <2>4
  <1>5. QED BY <1>3, <1>4

\* Strict order: an address has one descriptor, which findSemd finds, and what
\* lies behind the place where it stops has a higher address.
LEMMA Search ==
  ASSUME AInv, NEW a \in Addr
  PROVE  \/ /\ FindSemd(a) \in ToSet(aslh) /\ s_semAdd[FindSemd(a)] = a
            /\ \A d \in ToSet(aslh) : s_semAdd[d] = a => d = FindSemd(a)
         \/ /\ FindSemd(a) = NULL
            /\ \A d \in ToSet(aslh) : s_semAdd[d] # a
            /\ FirstFrom(a) # 0 => \A j \in 1 .. Len(aslh) :
                                     FirstFrom(a) <= j => s_semAdd[aslh[j]] > a
  <1> DEFINE i == FirstFrom(a)
             n == Len(aslh)
             key(j) == s_semAdd[aslh[j]]
  <1>1. /\ n \in Nat /\ a \in Nat /\ \A j \in 1 .. n : key(j) \in Nat
        /\ ToSet(aslh) = {aslh[j] : j \in 1 .. n} /\ NULL \notin Semd
        /\ \A j \in 1 .. n : aslh[j] \in ToSet(aslh) /\ aslh[j] \in Semd
    BY Positions, AslAssumption
  <1>2. \A j, k \in 1 .. n : j < k => key(j) < key(k)
    BY DEF AInv, Ascending
  <1>3. \/ i = 0 /\ \A j \in 1 .. n : key(j) < a
        \/ i \in 1 .. n /\ key(i) >= a /\ \A j \in 1 .. n : j < i => key(j) < a
    BY FirstFromStops
  <1>4. FindSemd(a) = IF i # 0 /\ key(i) = a THEN aslh[i] ELSE NULL
    BY DEF FindSemd
  <1> HIDE DEF i, n
  <1>5. CASE i # 0 /\ key(i) = a
    <2>1. i \in 1 .. n /\ \A j \in 1 .. n : key(j) = a => j = i
      BY <1>1, <1>2, <1>3, <1>5
    <2>2. FindSemd(a) = aslh[i]
      BY <1>4, <1>5
    <2>3. ASSUME NEW d \in ToSet(aslh), s_semAdd[d] = a PROVE d = FindSemd(a)
      <3>1. PICK j \in 1 .. n : d = aslh[j]
        BY <1>1
      <3>2. QED BY <3>1, <2>1, <2>2, <2>3
    <2>4. QED BY <1>1, <1>5, <2>1, <2>2, <2>3
  <1>6. CASE ~(i # 0 /\ key(i) = a)
    <2>1. FindSemd(a) = NULL
      BY <1>4, <1>6
    <2>2. i # 0 => \A j \in 1 .. n : i <= j => key(j) > a
      <3>1. SUFFICES ASSUME i # 0, NEW j \in 1 .. n, i <= j PROVE key(j) > a
        OBVIOUS
      <3>2. i \in 1 .. n /\ key(i) >= a /\ key(i) # a
        BY <1>3, <1>6, <3>1
      <3>3. i = j \/ i < j
        BY <3>1, <3>2, <1>1
      <3>4. key(i) <= key(j)
        BY <3>2, <3>3, <1>1, <1>2
      <3>5. QED BY <3>2, <3>4, <1>1
    <2>3. \A j \in 1 .. n : key(j) # a
      <3>1. SUFFICES ASSUME NEW j \in 1 .. n PROVE key(j) # a
        OBVIOUS
      <3>2. CASE i = 0
        BY <3>2, <1>1, <1>3
      <3>3. CASE i # 0
        <4>1. i \in 1 .. n
          BY <1>3, <3>3
        <4>2. j < i \/ i <= j
          BY <4>1, <1>1
        <4>3. QED BY <4>1, <4>2, <3>3, <2>2, <1>1, <1>3
      <3>4. QED BY <3>2, <3>3
    <2>4. \A d \in ToSet(aslh) : s_semAdd[d] # a
      BY <2>3, <1>1
    <2>5. QED BY <2>1, <2>2, <2>4 DEF i, n
  <1>7. QED BY <1>5, <1>6

-----------------------------------------------------------------------------
(* AInv is inductive *)

\* initASL puts every descriptor on semdFree.
LEMMA InitAInv == Init => AInv
  <1> SUFFICES ASSUME Init PROVE AInv
    OBVIOUS
  <1> USE DEF Init
  <1>1. /\ aslh = <<>> /\ aslh \in Seq(Semd) /\ ToSet(aslh) = {} /\ IsInjective(aslh)
    BY DEF ToSet, IsInjective
  <1>2. semdFree \in Seq(Semd)
    BY AslAssumption DEF Semd
  <1>3. DOMAIN semdFree = Semd
    OBVIOUS
  <1>4. IsInjective(semdFree) /\ ToSet(semdFree) = Semd
    BY <1>3 DEF IsInjective, ToSet
  <1>5. \A d \in Semd : s_procq[d] = <<>> /\ ToSet(s_procq[d]) = {} /\ IsInjective(s_procq[d])
    BY DEF ToSet, IsInjective
  <1>6. TypeOK
    BY <1>1, <1>2 DEF TypeOK
  <1>7. ListsInv
    BY <1>1, <1>4, <1>5 DEF ListsInv
  <1>8. AddressInv /\ Ascending /\ QueuesInv /\ CursemPoints
    <2>1. Len(aslh) = 0
      BY <1>1, EmptySeq
    <2>2. QED BY <1>1, <1>5, <2>1 DEF AddressInv, Ascending, QueuesInv, CursemPoints
  <1>9. QED BY <1>6, <1>7, <1>8 DEF AInv

\* A process leaves the queue of a descriptor in use, which leaves aslh for
\* semdFree if it was the last (removeBlocked, outBlocked).
LEMMA LeaveStep ==
  ASSUME AInv, NEW d \in ToSet(aslh), NEW p \in ToSet(s_procq[d]), NEW q \in Seq(Proc),
         IsInjective(q), ToSet(q) = ToSet(s_procq[d]) \ {p},
         SetQueue(d, q), UNCHANGED s_semAdd,
         p_cursem' = p_cursem \/ p_cursem' = [p_cursem EXCEPT ![p] = NULL],
         answer' \in Proc \cup BOOLEAN \cup {NULL}
  PROVE  AInv'
  <1>1. /\ aslh \in Seq(Semd) /\ semdFree \in Seq(Semd) /\ s_procq \in [Semd -> Seq(Proc)]
        /\ p_cursem \in [Proc -> Semd \cup {NULL}] /\ s_semAdd \in [Semd -> Addr \cup {NULL}]
        /\ d \in Semd /\ ToSet(aslh) \subseteq Semd
    BY Positions DEF AInv, TypeOK
  <1>2. /\ s_procq' = [s_procq EXCEPT ![d] = q] /\ s_procq' \in [Semd -> Seq(Proc)]
        /\ s_procq'[d] = q /\ \A e \in Semd \ {d} : s_procq'[e] = s_procq[e]
    BY <1>1 DEF SetQueue
  <1>3. /\ p_cursem' \in [Proc -> Semd \cup {NULL}]
        /\ \A o \in Proc : o # p => p_cursem'[o] = p_cursem[o]
        /\ p_cursem'[p] = p_cursem[p] \/ p_cursem'[p] = NULL
        /\ p \in Proc
    BY <1>1, ElementsOf
  <1>4. QueuesInv'
    BY <1>2 DEF AInv, QueuesInv
  <1>5. CursemPoints'
    <2>1. SUFFICES ASSUME NEW o \in Proc, NEW e \in Semd, o \in ToSet(s_procq'[e])
                   PROVE  p_cursem'[o] = e
      BY DEF CursemPoints
    <2>2. o \in ToSet(s_procq[e])
      BY <2>1, <1>2
    <2>3. p_cursem[o] = e /\ p_cursem[p] = d
      BY <2>2, <1>1, <1>3 DEF AInv, CursemPoints
    <2>4. o # p
      BY <2>1, <2>3, <1>2
    <2>5. QED BY <2>3, <2>4, <1>3
  <1>6. CASE q # <<>>
    <2>1. UNCHANGED <<aslh, semdFree>>
      BY <1>6 DEF SetQueue
    <2>2. TypeOK'
      BY <1>1, <1>2, <1>3, <2>1 DEF TypeOK
    <2>3. s_procq[d] # <<>>
      BY DEF AInv, ListsInv
    <2>4. ListsInv'
      BY <1>2, <1>6, <2>1, <2>3 DEF AInv, ListsInv, Semd
    <2>5. AddressInv' /\ Ascending'
      BY <2>1 DEF AInv, AddressInv, Ascending
    <2>6. QED BY <1>4, <1>5, <2>2, <2>4, <2>5 DEF AInv
  <1>7. CASE q = <<>>
    <2>1. aslh' = RemoveFirst(aslh, d) /\ semdFree' = Append(semdFree, d)
      BY <1>7 DEF SetQueue
    <2>2. PICK i \in 1 .. Len(aslh) : aslh[i] = d /\ aslh' = RemoveAt(aslh, i)
      BY <2>1, <1>1, RemoveFirstAt
    <2>3. /\ aslh' \in Seq(Semd) /\ ToSet(aslh') = ToSet(aslh) \ {d} /\ IsInjective(aslh')
      BY <1>1, <2>2, RemoveElements DEF AInv, ListsInv
    <2>4. /\ semdFree' \in Seq(Semd) /\ ToSet(semdFree') = ToSet(semdFree) \cup {d}
          /\ IsInjective(semdFree')
      BY <1>1, <2>1, AppendElements DEF AInv, ListsInv
    <2>5. TypeOK'
      BY <1>1, <1>2, <1>3, <2>3, <2>4 DEF TypeOK
    <2>6. ListsInv'
      BY <1>1, <1>2, <1>7, <2>3, <2>4 DEF AInv, ListsInv, Semd
    <2>7. AddressInv'
      BY <2>3 DEF AInv, AddressInv
    <2>8. Ascending'
      <3> DEFINE n == Len(aslh)
                 old(j) == IF j < i THEN j ELSE j + 1
      <3>1. /\ Len(aslh') = n - 1 /\ n \in Nat
            /\ \A j \in 1 .. n - 1 : aslh'[j] = IF j < i THEN aslh[j] ELSE aslh[j + 1]
        <4>1. /\ Len(RemoveAt(aslh, i)) = Len(aslh) - 1
              /\ \A j \in 1 .. Len(aslh) - 1 :
                   RemoveAt(aslh, i)[j] = IF j < i THEN aslh[j] ELSE aslh[j + 1]
          BY <1>1, RemovePoints
        <4>2. Len(aslh) \in Nat
          BY <1>1, LenProperties
        <4>3. QED BY <4>1, <4>2, <2>2
      <3>2. \A j \in 1 .. n - 1 : old(j) \in 1 .. n /\ aslh'[j] = aslh[old(j)]
        BY <3>1
      <3>3. \A j, k \in 1 .. n - 1 : j < k => old(j) < old(k)
        BY <3>1
      <3>4. \A j, k \in 1 .. n : j < k => s_semAdd[aslh[j]] < s_semAdd[aslh[k]]
        BY DEF AInv, Ascending
      <3> HIDE DEF old, n
      <3>5. \A j, k \in 1 .. n - 1 : j < k => s_semAdd[aslh'[j]] < s_semAdd[aslh'[k]]
        BY <3>2, <3>3, <3>4
      <3>6. QED BY <3>1, <3>5 DEF Ascending
    <2>9. QED BY <1>4, <1>5, <2>5, <2>6, <2>7, <2>8 DEF AInv
  <1>8. QED BY <1>6, <1>7

\* The new descriptor takes its place in aslh.
LEMMA OrderedStep ==
  ASSUME AInv, NEW a \in Addr, FindSemd(a) = NULL, NEW d \in Semd, d \notin ToSet(aslh),
         aslh' = Ordered(d, a), s_semAdd' = [s_semAdd EXCEPT ![d] = a]
  PROVE  /\ aslh' \in Seq(Semd) /\ ToSet(aslh') = ToSet(aslh) \cup {d} /\ IsInjective(aslh')
         /\ Ascending'
  <1> DEFINE n == Len(aslh)
             i == FirstFrom(a)
             key(j) == s_semAdd[aslh[j]]
  <1>1. /\ aslh \in Seq(Semd) /\ n \in Nat /\ a \in Nat /\ IsInjective(aslh)
        /\ s_semAdd \in [Semd -> Addr \cup {NULL}]
        /\ \A j \in 1 .. n : aslh[j] \in Semd /\ aslh[j] # d /\ key(j) \in Nat
        /\ \A e \in ToSet(aslh) : e \in Semd
    BY Positions, AslAssumption DEF AInv, TypeOK, ListsInv
  <1>2. \A j, k \in 1 .. n : j < k => key(j) < key(k)
    BY DEF AInv, Ascending
  <1>3. /\ s_semAdd'[d] = a
        /\ \A j \in 1 .. n : s_semAdd'[aslh[j]] = key(j)
    BY <1>1
  <1>4. i # 0 => \A j \in 1 .. n : i <= j => key(j) > a
    <2>1. FindSemd(a) \notin ToSet(aslh)
      BY <1>1, AslAssumption DEF Semd
    <2>2. QED BY <2>1, Search
  <1>5. \/ i = 0 /\ \A j \in 1 .. n : key(j) < a
        \/ i \in 1 .. n /\ \A j \in 1 .. n : j < i => key(j) < a
    BY FirstFromStops
  <1>6. Ordered(d, a) = IF i = 0 THEN Append(aslh, d) ELSE InsertAt(aslh, i, d)
    BY DEF Ordered
  <1> HIDE DEF i, n
  <1>7. CASE i = 0
    <2>1. /\ aslh' \in Seq(Semd) /\ ToSet(aslh') = ToSet(aslh) \cup {d} /\ IsInjective(aslh')
      BY <1>1, <1>6, <1>7, AppendElements
    <2>2. /\ Len(aslh') = n + 1 /\ aslh'[n + 1] = d
          /\ \A j \in 1 .. n : aslh'[j] = aslh[j]
      BY <1>1, <1>6, <1>7, AppendProperties DEF n
    <2>3. ASSUME NEW j \in 1 .. n + 1, NEW k \in 1 .. n + 1, j < k
          PROVE  s_semAdd'[aslh'[j]] < s_semAdd'[aslh'[k]]
      <3>1. j \in 1 .. n /\ aslh'[j] = aslh[j] /\ s_semAdd'[aslh'[j]] = key(j)
        BY <1>1, <1>3, <2>2, <2>3
      <3>2. CASE k = n + 1
        BY <3>1, <3>2, <1>1, <1>3, <1>5, <1>7, <2>2
      <3>3. CASE k # n + 1
        <4>1. k \in 1 .. n /\ s_semAdd'[aslh'[k]] = key(k)
          BY <3>3, <1>1, <1>3, <2>2
        <4>2. QED BY <3>1, <4>1, <1>2, <2>3
      <3>4. QED BY <3>2, <3>3
    <2>4. QED BY <2>1, <2>2, <2>3 DEF Ascending
  <1>8. CASE i # 0
    <2>1. i \in 1 .. n /\ aslh' = InsertAt(aslh, i, d)
      BY <1>5, <1>6, <1>8
    <2>2. i \in 1 .. Len(aslh)
      BY <2>1 DEF n
    <2>3. /\ InsertAt(aslh, i, d) \in Seq(Semd)
          /\ Len(InsertAt(aslh, i, d)) = Len(aslh) + 1
          /\ \A j \in 1 .. Len(aslh) + 1 :
               InsertAt(aslh, i, d)[j] = IF j < i THEN aslh[j]
                                         ELSE IF j = i THEN d ELSE aslh[j - 1]
          /\ ToSet(InsertAt(aslh, i, d)) = ToSet(aslh) \cup {d}
          /\ IsInjective(InsertAt(aslh, i, d))
      BY <1>1, <2>2, InsertPoints
    <2>4. /\ aslh' \in Seq(Semd) /\ ToSet(aslh') = ToSet(aslh) \cup {d} /\ IsInjective(aslh')
          /\ Len(aslh') = n + 1
          /\ \A j \in 1 .. n + 1 :
               aslh'[j] = IF j < i THEN aslh[j] ELSE IF j = i THEN d ELSE aslh[j - 1]
      BY <2>1, <2>3 DEF n
    <2>5. ASSUME NEW j \in 1 .. n + 1
          PROVE  /\ j < i => j \in 1 .. n /\ s_semAdd'[aslh'[j]] = key(j) /\ key(j) < a
                 /\ j = i => s_semAdd'[aslh'[j]] = a
                 /\ j > i => /\ j - 1 \in 1 .. n /\ s_semAdd'[aslh'[j]] = key(j - 1)
                             /\ key(j - 1) > a
      <3>1. CASE j < i
        BY <3>1, <1>1, <1>3, <1>5, <1>8, <2>1, <2>4
      <3>2. CASE j = i
        BY <3>2, <1>1, <1>3, <2>1, <2>4
      <3>3. CASE j > i
        <4>1. j - 1 \in 1 .. n /\ i <= j - 1 /\ aslh'[j] = aslh[j - 1]
          BY <3>3, <1>1, <2>1, <2>4
        <4>2. QED BY <4>1, <3>3, <1>1, <1>3, <1>4, <1>8, <2>1
      <3>4. QED BY <3>1, <3>2, <3>3, <1>1, <2>1
    <2>6. ASSUME NEW j \in 1 .. n + 1, NEW k \in 1 .. n + 1, j < k
          PROVE  s_semAdd'[aslh'[j]] < s_semAdd'[aslh'[k]]
      <3>1. CASE k < i
        <4>1. j < i
          BY <3>1, <2>1, <2>6, <1>1
        <4>2. QED BY <3>1, <4>1, <2>5, <2>6, <1>2
      <3>2. CASE j > i
        <4>1. k > i /\ j - 1 < k - 1
          BY <3>2, <2>1, <2>6, <1>1
        <4>2. /\ j - 1 \in 1 .. n /\ s_semAdd'[aslh'[j]] = key(j - 1)
              /\ k - 1 \in 1 .. n /\ s_semAdd'[aslh'[k]] = key(k - 1)
          BY <3>2, <4>1, <2>5
        <4>3. key(j - 1) < key(k - 1)
          BY <4>1, <4>2, <1>2
        <4>4. QED BY <4>2, <4>3
      <3>3. CASE j <= i /\ i <= k
        <4> DEFINE l == s_semAdd'[aslh'[j]]
                   r == s_semAdd'[aslh'[k]]
        <4>1. l < a \/ (l = a /\ j = i)
          BY <3>3, <2>1, <2>5, <1>1
        <4>2. r > a \/ (r = a /\ k = i)
          BY <3>3, <2>1, <2>5, <1>1
        <4>3. l \in Nat /\ r \in Nat
          <5>1. \A m \in 1 .. n + 1 : s_semAdd'[aslh'[m]] \in Nat
            <6>1. SUFFICES ASSUME NEW m \in 1 .. n + 1 PROVE s_semAdd'[aslh'[m]] \in Nat
              OBVIOUS
            <6>2. m < i \/ m = i \/ m > i
              BY <2>1, <1>1
            <6>3. QED BY <6>2, <2>5, <1>1
          <5>2. QED BY <5>1
        <4> HIDE DEF l, r
        <4>4. l < r
          BY <4>1, <4>2, <4>3, <2>6, <1>1, <2>1
        <4>5. QED BY <4>4 DEF l, r
      <3>4. QED BY <3>1, <3>2, <3>3, <1>1, <2>1, <2>6
    <2>7. QED BY <2>4, <2>6 DEF Ascending
  <1>9. QED BY <1>7, <1>8

\* insertBlocked: a process in no queue joins one.
LEMMA InsertStep ==
  ASSUME AInv, NEW a \in Addr, NEW p \in Proc, InsertBlocked(a, p)
  PROVE  AInv'
  <1> DEFINE found == FindSemd(a)
             d == IF found # NULL THEN found ELSE Head(semdFree)
  <1>1. /\ aslh \in Seq(Semd) /\ semdFree \in Seq(Semd) /\ s_procq \in [Semd -> Seq(Proc)]
        /\ p_cursem \in [Proc -> Semd \cup {NULL}] /\ s_semAdd \in [Semd -> Addr \cup {NULL}]
        /\ ToSet(aslh) \subseteq Semd /\ NULL \notin Semd
    BY Positions DEF AInv, TypeOK
  <1>2. \A e \in Semd : p \notin ToSet(s_procq[e])
    BY DEF InsertBlocked, Unqueued
  <1>3. CASE found = NULL /\ semdFree = <<>>
    <2>1. answer' = TRUE /\ UNCHANGED <<aslh, semdFree, s_semAdd, s_procq, p_cursem>>
      BY <1>3 DEF InsertBlocked
    <2>2. TypeOK'
      BY <1>1, <2>1 DEF TypeOK
    <2>3. QED BY <2>1, <2>2 DEF AInv, ListsInv, AddressInv, Ascending, QueuesInv, CursemPoints, Semd
  <1>4. CASE ~(found = NULL /\ semdFree = <<>>)
    <2>1. /\ p_cursem' = [p_cursem EXCEPT ![p] = d]
          /\ s_semAdd' = [s_semAdd EXCEPT ![d] = a]
          /\ answer' = FALSE
          /\ found # NULL => /\ s_procq' = [s_procq EXCEPT ![d] = Append(@, p)]
                             /\ UNCHANGED <<aslh, semdFree>>
          /\ found = NULL => /\ s_procq' = [s_procq EXCEPT ![d] = <<p>>]
                             /\ semdFree' = Tail(semdFree)
                             /\ aslh' = Ordered(d, a)
      BY <1>4 DEF InsertBlocked, SetCursem, Joined
    <2>2. CASE found # NULL
      <3>1. d \in ToSet(aslh) /\ s_semAdd[d] = a /\ d \in Semd
        BY <2>2, <1>1, Search
      <3>2. s_semAdd' = s_semAdd
        BY <1>1, <2>1, <3>1
      <3> HIDE DEF d
      <3>3. /\ Append(s_procq[d], p) \in Seq(Proc) /\ IsInjective(Append(s_procq[d], p))
            /\ Append(s_procq[d], p) # <<>>
            /\ ToSet(Append(s_procq[d], p)) = ToSet(s_procq[d]) \cup {p}
        BY <1>1, <1>2, <3>1, AppendElements DEF AInv, QueuesInv
      <3>4. /\ s_procq' \in [Semd -> Seq(Proc)] /\ s_procq'[d] = Append(s_procq[d], p)
            /\ \A e \in Semd \ {d} : s_procq'[e] = s_procq[e]
        BY <1>1, <2>1, <2>2, <3>1, <3>3
      <3>5. /\ p_cursem' \in [Proc -> Semd \cup {NULL}] /\ p_cursem'[p] = d
            /\ \A o \in Proc \ {p} : p_cursem'[o] = p_cursem[o]
        BY <1>1, <2>1, <3>1
      <3>6. TypeOK'
        BY <1>1, <2>1, <2>2, <3>2, <3>4, <3>5 DEF TypeOK
      <3>7. s_procq[d] # <<>>
        BY <3>1 DEF AInv, ListsInv
      <3>8. ListsInv'
        BY <2>1, <2>2, <3>3, <3>4, <3>7 DEF AInv, ListsInv, Semd
      <3>9. AddressInv' /\ Ascending'
        BY <2>1, <2>2, <3>2 DEF AInv, AddressInv, Ascending
      <3>10. QueuesInv'
        BY <3>3, <3>4 DEF AInv, QueuesInv
      <3>11. CursemPoints'
        <4>1. SUFFICES ASSUME NEW o \in Proc, NEW e \in Semd, o \in ToSet(s_procq'[e])
                       PROVE  p_cursem'[o] = e
          BY DEF CursemPoints
        <4>2. CASE o = p
          <5>1. e = d
            BY <4>1, <4>2, <1>2, <3>4
          <5>2. QED BY <5>1, <4>2, <3>5
        <4>3. CASE o # p
          <5>1. o \in ToSet(s_procq[e])
            BY <4>1, <4>3, <3>3, <3>4
          <5>2. p_cursem[o] = e
            BY <5>1, <4>1 DEF AInv, CursemPoints
          <5>3. QED BY <5>2, <4>3, <3>5
        <4>4. QED BY <4>2, <4>3
      <3>12. QED BY <3>6, <3>8, <3>9, <3>10, <3>11 DEF AInv
    <2>3. CASE found = NULL
      <3>1. d = Head(semdFree) /\ semdFree # <<>>
        BY <2>3, <1>4
      <3>2. /\ Tail(semdFree) \in Seq(Semd) /\ d \in ToSet(semdFree)
            /\ ToSet(Tail(semdFree)) = ToSet(semdFree) \ {d} /\ IsInjective(Tail(semdFree))
        BY <1>1, <3>1, TailElements DEF AInv, ListsInv
      <3>3. d \in Semd /\ d \notin ToSet(aslh) /\ s_procq[d] = <<>>
        BY <3>2, <1>1 DEF AInv, ListsInv
      <3> HIDE DEF d
      <3>4. /\ aslh' \in Seq(Semd) /\ ToSet(aslh') = ToSet(aslh) \cup {d} /\ IsInjective(aslh')
            /\ Ascending'
        BY <2>1, <2>3, <3>3, OrderedStep
      <3>5. PICK q \in Seq(Proc) : q = <<p>> /\ IsInjective(q) /\ q # <<>> /\ ToSet(q) = {p}
        <4>1. Len(<<p>>) = 1 /\ <<p>> \in Seq(Proc) /\ <<p>>[1] = p
          OBVIOUS
        <4>2. ASSUME NEW q \in Seq(Proc), Len(q) = 1, q[1] = p
              PROVE  IsInjective(q) /\ q # <<>> /\ ToSet(q) = {p}
          <5>1. DOMAIN q = {1}
            BY <4>2, LenProperties
          <5>2. QED BY <4>2, <5>1, EmptySeq DEF IsInjective, ToSet
        <4>3. QED BY <4>1, <4>2
      <3>6. /\ s_procq' \in [Semd -> Seq(Proc)] /\ s_procq'[d] = q
            /\ \A e \in Semd \ {d} : s_procq'[e] = s_procq[e]
        <4>1. s_procq' = [s_procq EXCEPT ![d] = q]
          BY <2>1, <2>3, <3>5
        <4>2. QED BY <1>1, <3>3, <4>1
      <3>7. /\ p_cursem' \in [Proc -> Semd \cup {NULL}] /\ p_cursem'[p] = d
            /\ \A o \in Proc \ {p} : p_cursem'[o] = p_cursem[o]
        BY <1>1, <2>1, <3>3
      <3>8. /\ s_semAdd' \in [Semd -> Addr \cup {NULL}] /\ s_semAdd'[d] = a
            /\ \A e \in Semd \ {d} : s_semAdd'[e] = s_semAdd[e]
        BY <1>1, <2>1, <3>3
      <3>9. TypeOK'
        BY <2>1, <2>3, <3>2, <3>4, <3>6, <3>7, <3>8 DEF TypeOK
      <3>10. ListsInv'
        <4>1. semdFree' = Tail(semdFree)
          BY <2>1, <2>3
        <4>2. IsInjective(aslh') /\ IsInjective(semdFree')
          BY <4>1, <3>2, <3>4
        <4>3. ToSet(aslh') = ToSet(aslh) \cup {d} /\ ToSet(semdFree') = ToSet(semdFree) \ {d}
          BY <4>1, <3>2, <3>4
        <4>4. /\ ToSet(aslh') \cap ToSet(semdFree') = {}
              /\ ToSet(aslh') \cup ToSet(semdFree') = Semd
          BY <4>3, <3>2, <3>3 DEF AInv, ListsInv
        <4>5. \A e \in Semd : e \in ToSet(aslh') <=> s_procq'[e] # <<>>
          BY <4>3, <3>3, <3>5, <3>6 DEF AInv, ListsInv
        <4>6. QED BY <4>2, <4>4, <4>5 DEF ListsInv, Semd
      <3>11. AddressInv'
        BY <3>3, <3>4, <3>8, <1>1 DEF AInv, AddressInv
      <3>12. QueuesInv'
        BY <3>5, <3>6 DEF AInv, QueuesInv, Semd
      <3>13. CursemPoints'
        BY <1>2, <3>3, <3>5, <3>6, <3>7 DEF AInv, CursemPoints, Semd
      <3>14. QED BY <3>4, <3>9, <3>10, <3>11, <3>12, <3>13 DEF AInv
    <2>4. QED BY <2>2, <2>3
  <1>5. QED BY <1>3, <1>4

\* removeBlocked: the head of the queue leaves.
LEMMA RemoveStep ==
  ASSUME AInv, NEW a \in Addr, RemoveBlocked(a)
  PROVE  AInv'
  <1> DEFINE d == FindSemd(a)
  <1>1. /\ s_procq \in [Semd -> Seq(Proc)] /\ ToSet(aslh) \subseteq Semd /\ NULL \notin Semd
    BY Positions DEF AInv, TypeOK
  <1>2. CASE d = NULL
    <2>1. answer' = NULL /\ UNCHANGED <<aslh, semdFree, s_semAdd, s_procq, p_cursem>>
      BY <1>2 DEF RemoveBlocked
    <2>2. TypeOK'
      BY <2>1 DEF AInv, TypeOK, Semd
    <2>3. QED BY <2>1, <2>2 DEF AInv, ListsInv, AddressInv, Ascending, QueuesInv, CursemPoints, Semd
  <1>3. CASE d # NULL
    <2>1. /\ answer' = Head(s_procq[d]) /\ SetQueue(d, Tail(s_procq[d]))
          /\ p_cursem' = [p_cursem EXCEPT ![answer'] = NULL] /\ UNCHANGED s_semAdd
      BY <1>3 DEF RemoveBlocked
    <2>2. d \in ToSet(aslh) /\ d \in Semd
      BY <1>1, <1>3, Search
    <2> HIDE DEF d
    <2>3. s_procq[d] \in Seq(Proc) /\ s_procq[d] # <<>> /\ IsInjective(s_procq[d])
      BY <1>1, <2>2 DEF AInv, ListsInv, QueuesInv
    <2>4. PICK p \in ToSet(s_procq[d]) : p = Head(s_procq[d])
      BY <2>3, TailElements
    <2>5. PICK q \in Seq(Proc) : q = Tail(s_procq[d])
      BY <2>3, TailElements
    <2>6. IsInjective(q) /\ ToSet(q) = ToSet(s_procq[d]) \ {p}
      BY <2>3, <2>4, <2>5, TailElements
    <2>7. /\ SetQueue(d, q) /\ answer' = p /\ p_cursem' = [p_cursem EXCEPT ![p] = NULL]
          /\ answer' \in Proc \cup BOOLEAN \cup {NULL}
      BY <2>1, <2>3, <2>4, <2>5, ElementsOf
    <2>8. QED BY <2>1, <2>2, <2>6, <2>7, LeaveStep
  <1>4. QED BY <1>2, <1>3

\* outBlocked: a process leaves the queue p_cursem points to, or none.
LEMMA OutStep ==
  ASSUME AInv, NEW p \in Proc, OutBlocked(p)
  PROVE  AInv'
  <1> DEFINE d == p_cursem[p]
  <1>1. /\ s_procq \in [Semd -> Seq(Proc)] /\ d \in Semd
    BY DEF AInv, TypeOK, OutBlocked
  <1>2. CASE p \notin ToSet(s_procq[d])
    <2>1. answer' = NULL /\ UNCHANGED <<aslh, semdFree, s_semAdd, s_procq, p_cursem>>
      BY <1>2 DEF OutBlocked
    <2>2. TypeOK'
      BY <2>1 DEF AInv, TypeOK, Semd
    <2>3. QED BY <2>1, <2>2 DEF AInv, ListsInv, AddressInv, Ascending, QueuesInv, CursemPoints, Semd
  <1>3. CASE p \in ToSet(s_procq[d])
    <2>1. /\ answer' = p /\ SetQueue(d, RemoveFirst(s_procq[d], p))
          /\ UNCHANGED <<s_semAdd, p_cursem>>
      BY <1>3 DEF OutBlocked
    <2> HIDE DEF d
    <2>2. s_procq[d] \in Seq(Proc) /\ IsInjective(s_procq[d]) /\ s_procq[d] # <<>>
      BY <1>1, <1>3, ElementsOf DEF AInv, QueuesInv
    <2>3. d \in ToSet(aslh)
      BY <1>1, <2>2 DEF AInv, ListsInv
    <2>4. PICK i \in 1 .. Len(s_procq[d]) :
            s_procq[d][i] = p /\ RemoveFirst(s_procq[d], p) = RemoveAt(s_procq[d], i)
      BY <1>3, <2>2, RemoveFirstAt
    <2>5. PICK q \in Seq(Proc) : q = RemoveFirst(s_procq[d], p)
      BY <2>2, <2>4, RemoveElements
    <2>6. IsInjective(q) /\ ToSet(q) = ToSet(s_procq[d]) \ {p}
      BY <2>2, <2>4, <2>5, RemoveElements
    <2>7. SetQueue(d, q) /\ answer' \in Proc \cup BOOLEAN \cup {NULL}
      BY <2>1, <2>5
    <2>8. QED BY <1>3, <2>1, <2>3, <2>6, <2>7, LeaveStep
  <1>4. QED BY <1>2, <1>3

\* headBlocked only looks; ClearCursem is for a process in no queue.
LEMMA LookStep ==
  ASSUME AInv,
         \/ \E a \in Addr : HeadBlocked(a)
         \/ \E p \in Proc : ClearCursem(p)
         \/ UNCHANGED vars
  PROVE  AInv'
  <1>1. UNCHANGED <<aslh, semdFree, s_semAdd, s_procq>>
    BY DEF HeadBlocked, ClearCursem, vars
  <1>2. ListsInv' /\ AddressInv' /\ Ascending' /\ QueuesInv'
    BY <1>1 DEF AInv, ListsInv, AddressInv, Ascending, QueuesInv, Semd
  <1>3. CASE \E a \in Addr : HeadBlocked(a)
    <2>1. PICK a \in Addr : HeadBlocked(a)
      BY <1>3
    <2>2. UNCHANGED p_cursem
      BY <2>1 DEF HeadBlocked
    <2>3. answer' \in Proc \cup {NULL}
      <3> DEFINE d == FindSemd(a)
      <3>1. /\ answer' = IF d = NULL \/ s_procq[d] = <<>> THEN NULL ELSE Head(s_procq[d])
        BY <2>1 DEF HeadBlocked
      <3>2. CASE d # NULL /\ s_procq[d] # <<>>
        <4>1. d \in Semd
          BY <3>2, Positions, Search
        <4>2. s_procq[d] \in Seq(Proc) /\ s_procq[d] # <<>>
          BY <3>2, <4>1 DEF AInv, TypeOK
        <4>3. QED BY <3>1, <3>2, <4>2, HeadTailProperties
      <3>3. QED BY <3>1, <3>2
    <2>4. TypeOK'
      BY <1>1, <2>2, <2>3 DEF AInv, TypeOK, Semd
    <2>5. CursemPoints'
      BY <1>1, <2>2 DEF AInv, CursemPoints, Semd
    <2>6. QED BY <1>2, <2>4, <2>5 DEF AInv
  <1>4. CASE \E p \in Proc : ClearCursem(p)
    <2>1. PICK p \in Proc : ClearCursem(p)
      BY <1>4
    <2>2. /\ p_cursem' = [p_cursem EXCEPT ![p] = NULL] /\ UNCHANGED answer
          /\ \A d \in Semd : p \notin ToSet(s_procq[d])
      BY <2>1 DEF ClearCursem, Unqueued
    <2>3. TypeOK'
      BY <1>1, <2>2 DEF AInv, TypeOK, Semd
    <2>4. CursemPoints'
      BY <1>1, <2>2 DEF AInv, TypeOK, CursemPoints, Semd
    <2>5. QED BY <1>2, <2>3, <2>4 DEF AInv
  <1>5. CASE UNCHANGED vars
    <2>1. TypeOK' /\ CursemPoints'
      BY <1>5 DEF AInv, TypeOK, CursemPoints, Semd, vars
    <2>2. QED BY <1>2, <2>1 DEF AInv
  <1>6. QED BY <1>3, <1>4, <1>5

LEMMA NextAInv == AInv /\ [Next]_vars => AInv'
  <1>1. SUFFICES ASSUME AInv, [Next]_vars PROVE AInv'
    OBVIOUS
  <1>2. ASSUME NEW a \in Addr, NEW p \in Proc, InsertBlocked(a, p) PROVE AInv'
    BY <1>1, <1>2, InsertStep
  <1>3. ASSUME NEW a \in Addr, RemoveBlocked(a) PROVE AInv'
    BY <1>1, <1>3, RemoveStep
  <1>4. ASSUME NEW p \in Proc, OutBlocked(p) PROVE AInv'
    BY <1>1, <1>4, OutStep
  <1>5. ASSUME \/ \E a \in Addr : HeadBlocked(a)
               \/ \E p \in Proc : ClearCursem(p)
               \/ UNCHANGED vars
        PROVE AInv'
    BY <1>1, <1>5, LookStep
  <1>6. QED BY <1>1, <1>2, <1>3, <1>4, <1>5 DEF Next

-----------------------------------------------------------------------------
(* Theorems *)

\* The inductive invariant.
THEOREM AslInvariant == Spec => []AInv
  BY InitAInv, NextAInv, PTL DEF Spec

\* No descriptor of semdTable is ever lost, used twice, or held without a
\* waiting process.
THEOREM NoDescriptorLost == Spec => []DescriptorsConserved
  <1>1. AInv => DescriptorsConserved
    <2>1. SUFFICES ASSUME AInv PROVE DescriptorsConserved
      OBVIOUS
    <2>2. aslh \in Seq(Semd) /\ semdFree \in Seq(Semd)
      BY <2>1 DEF AInv, TypeOK
    <2>3. /\ IsInjective(aslh) /\ IsInjective(semdFree)
          /\ ToSet(aslh) \cap ToSet(semdFree) = {}
          /\ ToSet(aslh) \cup ToSet(semdFree) = Semd
      BY <2>1 DEF AInv, ListsInv
    <2>4. IsInjective(aslh \o semdFree) /\ ToSet(aslh \o semdFree) = Semd
      <3>1. /\ ToSet(aslh \o semdFree) = ToSet(aslh) \cup ToSet(semdFree)
            /\ IsInjective(aslh) /\ IsInjective(semdFree) /\ ToSet(aslh) \cap ToSet(semdFree) = {}
                 => IsInjective(aslh \o semdFree)
        BY <2>2, ConcatElements
      <3>2. QED BY <3>1, <2>3
    <2>5. QED BY <2>1, <2>4 DEF AInv, ListsInv, DescriptorsConserved
  <1>2. QED BY <1>1, AslInvariant, PTL

\* aslh stays in strictly ascending order, on which findSemd's early stop and
\* the uniqueness of an address's descriptor rest.
THEOREM StaysAscending == Spec => []Ascending
  <1>1. AInv => Ascending
    BY DEF AInv
  <1>2. QED BY <1>1, AslInvariant, PTL

\* p_cursem of a waiting process points at the one descriptor it waits at.
THEOREM CursemIsRight == Spec => []CursemPoints
  <1>1. AInv => CursemPoints
    BY DEF AInv
  <1>2. QED BY <1>1, AslInvariant, PTL

-----------------------------------------------------------------------------
(* Each function does what AslSpec says of its namesake *)

\* The queues that a list of descriptors stands for: Queue is those of aslh.
QueueOf(l, add, q) == [a \in Addr |-> IF \E d \in ToSet(l) : add[d] = a
                                     THEN q[CHOOSE d \in ToSet(l) : add[d] = a] ELSE <<>>]

\* It reads them off when the list is in order.
LEMMA ReadQueue ==
  ASSUME NEW l \in Seq(Semd), NEW add, NEW q,
         \A i \in 1 .. Len(l) : add[l[i]] \in Addr /\ add[l[i]] \in Nat,
         \A i, j \in 1 .. Len(l) : i < j => add[l[i]] < add[l[j]]
  PROVE  LET Q == QueueOf(l, add, q)
         IN /\ \A d \in ToSet(l) : Q[add[d]] = q[d]
            /\ \A a \in Addr : (\A d \in ToSet(l) : add[d] # a) => Q[a] = <<>>
            /\ Q = [a \in Addr |-> Q[a]]
            /\ \A d, e \in ToSet(l) : add[d] = add[e] => d = e
  <1> DEFINE Q == QueueOf(l, add, q)
  <1>1. ToSet(l) = {l[i] : i \in 1 .. Len(l)} /\ Len(l) \in Nat
    BY ElementsOf, LenProperties
  <1>2. ASSUME NEW d \in ToSet(l), NEW e \in ToSet(l), add[d] = add[e] PROVE d = e
    <2>1. PICK i \in 1 .. Len(l) : d = l[i]
      BY <1>1
    <2>2. PICK j \in 1 .. Len(l) : e = l[j]
      BY <1>1
    <2>3. i = j
      BY <2>1, <2>2, <1>1, <1>2
    <2>4. QED BY <2>1, <2>2, <2>3
  <1>3. ASSUME NEW d \in ToSet(l) PROVE Q[add[d]] = q[d]
    <2>1. add[d] \in Addr
      BY <1>1
    <2>2. (CHOOSE e \in ToSet(l) : add[e] = add[d]) = d
      BY <1>2
    <2>3. QED BY <2>1, <2>2 DEF QueueOf
  <1>4. ASSUME NEW a \in Addr, \A d \in ToSet(l) : add[d] # a PROVE Q[a] = <<>>
    BY <1>4 DEF QueueOf
  <1>5. Q = [a \in Addr |-> Q[a]]
    BY DEF QueueOf
  <1> HIDE DEF Q
  <1>6. QED BY <1>2, <1>3, <1>4, <1>5 DEF Q

\* The helpers that AslSpec and Asl have in common.
LEMMA SameHelpers ==
  /\ \A S : Queues!Cardinality(S) = Cardinality(S)
  /\ \A s, e : Queues!RemoveFirst(s, e) = RemoveFirst(s, e)
  <1>1. ASSUME NEW S PROVE Queues!Cardinality(S) = Cardinality(S)
    BY DEF Queues!Cardinality, Cardinality
  <1>2. ASSUME NEW s, NEW e PROVE Queues!RemoveFirst(s, e) = RemoveFirst(s, e)
    BY DEF Queues!RemoveFirst, RemoveFirst, Queues!RemoveAt, RemoveAt,
           Queues!SelectInSeq, SelectInSeq, Queues!Min, Min
  <1>3. QED BY <1>1, <1>2

\* Queue, before
LEMMA QueueNow ==
  ASSUME AInv
  PROVE  /\ \A d \in ToSet(aslh) : Queue[s_semAdd[d]] = s_procq[d]
         /\ \A a \in Addr : (\A d \in ToSet(aslh) : s_semAdd[d] # a) => Queue[a] = <<>>
         /\ Queue = [a \in Addr |-> Queue[a]]
         /\ \A d, e \in ToSet(aslh) : s_semAdd[d] = s_semAdd[e] => d = e
  <1>1. aslh \in Seq(Semd)
    BY DEF AInv, TypeOK
  <1>2. \A i \in 1 .. Len(aslh) : s_semAdd[aslh[i]] \in Addr /\ s_semAdd[aslh[i]] \in Nat
    BY Positions
  <1>3. \A i, j \in 1 .. Len(aslh) : i < j => s_semAdd[aslh[i]] < s_semAdd[aslh[j]]
    BY DEF AInv, Ascending
  <1>4. Queue = QueueOf(aslh, s_semAdd, s_procq)
    BY DEF Queue, QueueOf
  <1>5. QED BY <1>1, <1>2, <1>3, <1>4, ReadQueue

\* ... and after a step.
LEMMA QueueThen ==
  ASSUME AInv'
  PROVE  /\ \A d \in ToSet(aslh') : Queue'[s_semAdd'[d]] = s_procq'[d]
         /\ \A a \in Addr : (\A d \in ToSet(aslh') : s_semAdd'[d] # a) => Queue'[a] = <<>>
         /\ Queue' = [a \in Addr |-> Queue'[a]]
         /\ \A d, e \in ToSet(aslh') : s_semAdd'[d] = s_semAdd'[e] => d = e
  <1>1. aslh' \in Seq(Semd)
    BY DEF AInv, TypeOK, Semd
  <1>2. \A i \in 1 .. Len(aslh') : s_semAdd'[aslh'[i]] \in Addr /\ s_semAdd'[aslh'[i]] \in Nat
    <2>1. ToSet(aslh') = {aslh'[i] : i \in 1 .. Len(aslh')}
      BY <1>1, ElementsOf
    <2>2. QED BY <2>1, AslAssumption DEF AInv, AddressInv
  <1>3. \A i, j \in 1 .. Len(aslh') : i < j => s_semAdd'[aslh'[i]] < s_semAdd'[aslh'[j]]
    BY DEF AInv, Ascending
  <1>4. Queue' = QueueOf(aslh', s_semAdd', s_procq')
    BY DEF Queue, QueueOf
  <1>5. QED BY <1>1, <1>2, <1>3, <1>4, ReadQueue

\* A descriptor that is on no list of the used has an empty queue.
LEMMA QueueAt ==
  ASSUME AInv, NEW a \in Addr
  PROVE  /\ FindSemd(a) = NULL => Queue[a] = <<>>
         /\ FindSemd(a) # NULL => /\ Queue[a] = s_procq[FindSemd(a)]
                                  /\ Queue[a] # <<>> /\ Queue[a] \in Seq(Proc)
  <1>1. CASE FindSemd(a) = NULL
    <2>1. \A d \in ToSet(aslh) : s_semAdd[d] # a
      BY <1>1, Search, Positions
    <2>2. QED BY <2>1, <1>1, QueueNow
  <1>2. CASE FindSemd(a) # NULL
    <2>1. FindSemd(a) \in ToSet(aslh) /\ s_semAdd[FindSemd(a)] = a
      BY <1>2, Search
    <2>2. Queue[a] = s_procq[FindSemd(a)]
      BY <2>1, QueueNow
    <2>3. FindSemd(a) \in Semd
      BY <2>1, Positions
    <2>4. QED BY <1>2, <2>1, <2>2, <2>3 DEF AInv, ListsInv, TypeOK
  <1>3. QED BY <1>1, <1>2

\* Who waits, waits at some descriptor.
LEMMA WaitingAt ==
  ASSUME AInv, NEW p
  PROVE  p \in Queues!Waiting <=> \E d \in Semd : p \in ToSet(s_procq[d])
  <1>0. ToSet(<<>>) = {}
    BY DEF ToSet
  <1>1. ASSUME NEW a \in Addr, p \in ToSet(Queue[a]) PROVE \E d \in Semd : p \in ToSet(s_procq[d])
    <2>1. Queue[a] # <<>>
      BY <1>0, <1>1
    <2>2. FindSemd(a) \in Semd /\ Queue[a] = s_procq[FindSemd(a)]
      BY <2>1, QueueAt, Search, Positions
    <2>3. QED BY <2>2, <1>1
  <1>2. ASSUME NEW d \in Semd, p \in ToSet(s_procq[d]) PROVE \E a \in Addr : p \in ToSet(Queue[a])
    <2>1. s_procq[d] # <<>>
      BY <1>0, <1>2
    <2>2. d \in ToSet(aslh) /\ s_semAdd[d] \in Addr
      BY <2>1 DEF AInv, ListsInv, AddressInv
    <2>3. QED BY <2>2, <1>2, QueueNow
  <1>3. QED BY <1>1, <1>2 DEF Queues!Waiting, Queues!ToSet, ToSet

\* The table is full when MAXSEMD addresses are in use.
LEMMA FullTable ==
  ASSUME AInv
  PROVE  semdFree = <<>> <=> Cardinality(Queues!InUse) = MAXSEMD
  <1> DEFINE L == ToSet(aslh)
             U == Queues!InUse
             f == [d \in L |-> s_semAdd[d]]
  <1>1. /\ L \subseteq Semd /\ IsFiniteSet(Semd) /\ Cardinality(Semd) = MAXSEMD
    <2>1. IsFiniteSet(1 .. MAXSEMD) /\ Cardinality(1 .. MAXSEMD) = MAXSEMD
      BY AslAssumption, FS_Interval
    <2>2. QED BY <2>1, Positions DEF Semd
  <1>2. U = {a \in Addr : Queue[a] # <<>>}
    BY DEF Queues!InUse
  <1>3. \A d \in L : s_semAdd[d] \in U
    BY <1>1, <1>2, QueueNow DEF AInv, ListsInv, AddressInv
  <1>4. \A a \in U : \E d \in L : s_semAdd[d] = a
    BY <1>2, QueueNow
  <1> HIDE DEF U
  <1>5. f \in Bijection(L, U)
    BY <1>3, <1>4, QueueNow DEF Bijection, Injection, Surjection, IsInjective
  <1>6. IsFiniteSet(L) /\ Cardinality(U) = Cardinality(L)
    <2>1. ExistsBijection(L, U)
      BY <1>5 DEF ExistsBijection
    <2>2. QED BY <1>1, <2>1, FS_Subset, FS_Bijection
  <1>7. semdFree = <<>> <=> L = Semd
    <2>1. semdFree \in Seq(Semd) /\ (semdFree = <<>> <=> ToSet(semdFree) = {})
      BY ElementsOf DEF AInv, TypeOK
    <2>2. QED BY <2>1, <1>1 DEF AInv, ListsInv
  <1>8. L = Semd <=> Cardinality(L) = MAXSEMD
    BY <1>1, FS_Subset
  <1>9. QED BY <1>6, <1>7, <1>8 DEF U

\* A step that touches one descriptor, e, changes the queue of one address.
LEMMA QueueStep ==
  ASSUME AInv, AInv', NEW a \in Addr, NEW e \in Semd,
         \A d \in Semd \ {e} : /\ d \in ToSet(aslh) <=> d \in ToSet(aslh')
                              /\ s_semAdd'[d] = s_semAdd[d] /\ s_procq'[d] = s_procq[d],
         e \in ToSet(aslh) => s_semAdd[e] = a,
         e \in ToSet(aslh') => s_semAdd'[e] = a,
         e \notin ToSet(aslh) => FindSemd(a) = NULL
  PROVE  /\ Queue[a] = s_procq[e]
         /\ Queue' = [Queue EXCEPT ![a] = s_procq'[e]]
  <1>1. ToSet(aslh) \subseteq Semd /\ ToSet(aslh') \subseteq Semd
    <2>1. aslh' \in Seq(Semd)
      BY DEF AInv, TypeOK, Semd
    <2>2. QED BY <2>1, Positions, ElementsOf
  <1>2. Queue[a] = s_procq[e]
    <2>1. CASE e \in ToSet(aslh)
      BY <2>1, QueueNow
    <2>2. CASE e \notin ToSet(aslh)
      <3>1. Queue[a] = <<>>
        BY <2>2, QueueAt
      <3>2. s_procq[e] = <<>>
        BY <2>2 DEF AInv, ListsInv
      <3>3. QED BY <3>1, <3>2
    <2>3. QED BY <2>1, <2>2
  <1>3. \A d \in ToSet(aslh) \ {e} : s_semAdd[d] # a
    <2>1. CASE e \in ToSet(aslh)
      BY <2>1, QueueNow
    <2>2. CASE e \notin ToSet(aslh)
      BY <2>2, <1>1, Search, Positions
    <2>3. QED BY <2>1, <2>2
  <1>4. Queue'[a] = s_procq'[e]
    <2>1. CASE e \in ToSet(aslh')
      BY <2>1, QueueThen
    <2>2. CASE e \notin ToSet(aslh')
      <3>1. \A d \in ToSet(aslh') : s_semAdd'[d] # a
        BY <2>2, <1>1, <1>3
      <3>2. s_procq'[e] = <<>>
        BY <2>2 DEF AInv, ListsInv, Semd
      <3>3. QED BY <3>1, <3>2, QueueThen
    <2>3. QED BY <2>1, <2>2
  <1>5. ASSUME NEW b \in Addr, b # a PROVE Queue'[b] = Queue[b]
    <2>1. CASE \E d \in ToSet(aslh) : s_semAdd[d] = b
      <3>1. PICK d \in ToSet(aslh) : s_semAdd[d] = b
        BY <2>1
      <3>2. d # e
        BY <3>1, <1>5
      <3>3. d \in ToSet(aslh') /\ s_semAdd'[d] = b /\ s_procq'[d] = s_procq[d]
        BY <3>1, <3>2, <1>1
      <3>4. QED BY <3>1, <3>3, QueueNow, QueueThen
    <2>2. CASE \A d \in ToSet(aslh) : s_semAdd[d] # b
      <3>1. \A d \in ToSet(aslh') : s_semAdd'[d] # b
        BY <2>2, <1>1, <1>5
      <3>2. QED BY <2>2, <3>1, <1>5, QueueNow, QueueThen
    <2>3. QED BY <2>1, <2>2
  <1>6. /\ Queue = [b \in Addr |-> Queue[b]]
        /\ Queue' = [b \in Addr |-> Queue'[b]]
    BY QueueNow, QueueThen
  <1> HIDE DEF Queue
  <1>7. QED BY <1>2, <1>4, <1>5, <1>6

\* The queues are the table's.
LEMMA QueueFrame ==
  ASSUME UNCHANGED <<aslh, s_semAdd, s_procq>>
  PROVE  UNCHANGED Queue
  BY DEF Queue

\* insertBlocked: MAXSEMD addresses in use is what a full table means.
LEMMA InsertRefines ==
  ASSUME AInv, NEW a \in Addr, NEW p \in Proc, InsertBlocked(a, p)
  PROVE  Queues!InsertBlocked(a, p)
  <1> DEFINE found == FindSemd(a)
             d == IF found # NULL THEN found ELSE Head(semdFree)
  <1>0. AInv'
    BY InsertStep
  <1>1. /\ semdFree \in Seq(Semd) /\ s_procq \in [Semd -> Seq(Proc)]
        /\ s_semAdd \in [Semd -> Addr \cup {NULL}]
        /\ ToSet(aslh) \subseteq Semd /\ NULL \notin Semd
    BY Positions DEF AInv, TypeOK
  <1>2. p \notin Queues!Waiting
    BY WaitingAt DEF InsertBlocked, Unqueued
  <1>3. CASE found = NULL /\ semdFree = <<>>
    <2>1. answer' = TRUE /\ UNCHANGED Queue
      BY <1>3, QueueFrame DEF InsertBlocked
    <2>2. Queue[a] = <<>> /\ Cardinality(Queues!InUse) = MAXSEMD
      BY <1>3, QueueAt, FullTable
    <2>3. QED BY <1>2, <2>1, <2>2, SameHelpers DEF Queues!InsertBlocked
  <1>4. CASE ~(found = NULL /\ semdFree = <<>>)
    <2>1. /\ s_semAdd' = [s_semAdd EXCEPT ![d] = a]
          /\ answer' = FALSE
          /\ found # NULL => /\ s_procq' = [s_procq EXCEPT ![d] = Append(@, p)]
                             /\ UNCHANGED <<aslh, semdFree>>
          /\ found = NULL => /\ s_procq' = [s_procq EXCEPT ![d] = <<p>>]
                             /\ semdFree' = Tail(semdFree)
                             /\ aslh' = Ordered(d, a)
      BY <1>4 DEF InsertBlocked, Joined
    <2>2. ~(Queue[a] = <<>> /\ Cardinality(Queues!InUse) = MAXSEMD)
      BY <1>4, QueueAt, FullTable
    <2>3. Queue' = [Queue EXCEPT ![a] = Append(Queue[a], p)]
      <3>1. CASE found # NULL
        <4>1. d \in ToSet(aslh) /\ s_semAdd[d] = a /\ d \in Semd
          BY <3>1, <1>1, Search
        <4> HIDE DEF d
        <4>2. /\ UNCHANGED <<aslh, s_semAdd>> /\ s_procq'[d] = Append(s_procq[d], p)
              /\ \A e \in Semd \ {d} : s_procq'[e] = s_procq[e]
          BY <1>1, <2>1, <3>1, <4>1
        <4>3. Queue[a] = s_procq[d] /\ Queue' = [Queue EXCEPT ![a] = s_procq'[d]]
          BY <1>0, <4>1, <4>2, QueueStep
        <4>4. QED BY <4>2, <4>3
      <3>2. CASE found = NULL
        <4>1. /\ d \in ToSet(semdFree) /\ d \in Semd
          BY <3>2, <1>1, <1>4, TailElements DEF AInv, ListsInv
        <4>2. d \notin ToSet(aslh) /\ s_procq[d] = <<>>
          BY <4>1 DEF AInv, ListsInv
        <4> HIDE DEF d
        <4>3. ToSet(aslh') = ToSet(aslh) \cup {d}
          BY <2>1, <3>2, <4>1, <4>2, OrderedStep
        <4>4. /\ s_semAdd'[d] = a /\ s_procq'[d] = <<p>>
              /\ \A e \in Semd \ {d} : s_semAdd'[e] = s_semAdd[e] /\ s_procq'[e] = s_procq[e]
          BY <1>1, <2>1, <3>2, <4>1
        <4>5. Queue[a] = s_procq[d] /\ Queue' = [Queue EXCEPT ![a] = s_procq'[d]]
          <5>1. \A e \in Semd \ {d} : /\ e \in ToSet(aslh) <=> e \in ToSet(aslh')
                                     /\ s_semAdd'[e] = s_semAdd[e] /\ s_procq'[e] = s_procq[e]
            BY <4>3, <4>4
          <5>2. FindSemd(a) = NULL /\ s_semAdd'[d] = a
            BY <3>2, <4>4
          <5>3. QED BY <1>0, <4>1, <4>2, <5>1, <5>2, QueueStep
        <4>6. Append(<<>>, p) = <<p>>
          OBVIOUS
        <4>7. QED BY <4>2, <4>4, <4>5, <4>6
      <3>3. QED BY <3>1, <3>2
    <2>4. QED BY <1>2, <2>1, <2>2, <2>3, SameHelpers DEF Queues!InsertBlocked
  <1>5. QED BY <1>3, <1>4

\* removeBlocked takes the head, as the FIFO does.
LEMMA RemoveRefines ==
  ASSUME AInv, NEW a \in Addr, RemoveBlocked(a)
  PROVE  Queues!RemoveBlocked(a)
  <1> DEFINE d == FindSemd(a)
  <1>0. AInv'
    BY RemoveStep
  <1>1. /\ aslh \in Seq(Semd) /\ s_procq \in [Semd -> Seq(Proc)]
        /\ ToSet(aslh) \subseteq Semd /\ NULL \notin Semd
    BY Positions DEF AInv, TypeOK
  <1>2. CASE d = NULL
    <2>1. answer' = NULL /\ UNCHANGED Queue
      BY <1>2, QueueFrame DEF RemoveBlocked
    <2>2. Queue[a] = <<>>
      BY <1>2, QueueAt
    <2>3. QED BY <2>1, <2>2 DEF Queues!RemoveBlocked, Queues!HeadOf
  <1>3. CASE d # NULL
    <2>1. /\ answer' = Head(s_procq[d]) /\ SetQueue(d, Tail(s_procq[d])) /\ UNCHANGED s_semAdd
      BY <1>3 DEF RemoveBlocked
    <2>2. d \in ToSet(aslh) /\ d \in Semd /\ s_semAdd[d] = a
      BY <1>1, <1>3, Search
    <2>3. Queue[a] = s_procq[d] /\ Queue[a] # <<>>
      BY <1>3, QueueAt
    <2> HIDE DEF d
    <2>4. Queue' = [Queue EXCEPT ![a] = Tail(s_procq[d])]
      <3>1. /\ s_procq'[d] = Tail(s_procq[d])
            /\ \A e \in Semd \ {d} : s_procq'[e] = s_procq[e]
        BY <1>1, <2>1, <2>2 DEF SetQueue
      <3>2. aslh' = aslh \/ aslh' = RemoveFirst(aslh, d)
        BY <2>1 DEF SetQueue
      <3>3. ToSet(RemoveFirst(aslh, d)) = ToSet(aslh) \ {d}
        <4>1. IsInjective(aslh)
          BY DEF AInv, ListsInv
        <4>2. PICK i \in 1 .. Len(aslh) : aslh[i] = d /\ RemoveFirst(aslh, d) = RemoveAt(aslh, i)
          BY <1>1, <2>2, RemoveFirstAt
        <4>3. QED BY <1>1, <4>1, <4>2, RemoveElements
      <3>4. /\ \A e \in Semd \ {d} : e \in ToSet(aslh) <=> e \in ToSet(aslh')
            /\ s_semAdd' = s_semAdd
        BY <2>1, <3>2, <3>3
      <3>5. Queue' = [Queue EXCEPT ![a] = s_procq'[d]]
        BY <1>0, <2>2, <3>1, <3>4, QueueStep
      <3>6. QED BY <3>1, <3>5
    <2>5. QED BY <2>1, <2>3, <2>4 DEF Queues!RemoveBlocked, Queues!HeadOf
  <1>4. QED BY <1>2, <1>3

\* outBlocked finds the process by p_cursem; the others' queues do not hold it.
LEMMA OutRefines ==
  ASSUME AInv, NEW p \in Proc, OutBlocked(p)
  PROVE  Queues!OutBlocked(p)
  <1> DEFINE d == p_cursem[p]
  <1>0. AInv'
    BY OutStep
  <1>1. /\ aslh \in Seq(Semd) /\ s_procq \in [Semd -> Seq(Proc)] /\ d \in Semd
        /\ ToSet(aslh) \subseteq Semd
    BY Positions DEF AInv, TypeOK, OutBlocked
  <1>2. \A e \in Semd : p \in ToSet(s_procq[e]) => e = d
    BY <1>1 DEF AInv, CursemPoints
  <1>3. ASSUME NEW a \in Addr, p \notin ToSet(Queue[a]) PROVE Queues!RemoveFirst(Queue[a], p) = Queue[a]
    <2>1. Queue[a] \in Seq(Proc)
      <3>1. <<>> \in Seq(Proc)
        OBVIOUS
      <3>2. QED BY <3>1, QueueAt
    <2>2. RemoveFirst(Queue[a], p) = Queue[a]
      BY <1>3, <2>1, RemoveFirstMissing
    <2>3. QED BY <2>2, SameHelpers
  <1>4. CASE p \notin ToSet(s_procq[d])
    <2>1. answer' = NULL /\ UNCHANGED Queue
      BY <1>4, QueueFrame DEF OutBlocked
    <2>2. p \notin Queues!Waiting
      BY <1>2, <1>4, WaitingAt
    <2>3. \A a \in Addr : p \notin ToSet(Queue[a])
      BY <2>2 DEF Queues!Waiting, Queues!ToSet, ToSet
    <2>4. Queue = [a \in Addr |-> Queues!RemoveFirst(Queue[a], p)]
      BY <1>3, <2>3, QueueNow
    <2>5. QED BY <2>1, <2>2, <2>4 DEF Queues!OutBlocked
  <1>5. CASE p \in ToSet(s_procq[d])
    <2>1. /\ answer' = p /\ SetQueue(d, RemoveFirst(s_procq[d], p)) /\ UNCHANGED s_semAdd
      BY <1>5 DEF OutBlocked
    <2>2. p \in Queues!Waiting
      BY <1>1, <1>5, WaitingAt
    <2> HIDE DEF d
    <2>3. s_procq[d] # <<>>
      BY <1>1, <1>5, ElementsOf
    <2>4. d \in ToSet(aslh)
      BY <1>1, <2>3 DEF AInv, ListsInv
    <2>5. PICK a \in Addr : s_semAdd[d] = a
      BY <2>4 DEF AInv, AddressInv
    <2>6. Queue[a] = s_procq[d] /\ Queue' = [Queue EXCEPT ![a] = RemoveFirst(s_procq[d], p)]
      <3>1. /\ s_procq'[d] = RemoveFirst(s_procq[d], p)
            /\ \A e \in Semd \ {d} : s_procq'[e] = s_procq[e]
        BY <1>1, <2>1 DEF SetQueue
      <3>2. aslh' = aslh \/ aslh' = RemoveFirst(aslh, d)
        BY <2>1 DEF SetQueue
      <3>3. ToSet(RemoveFirst(aslh, d)) = ToSet(aslh) \ {d}
        <4>1. IsInjective(aslh)
          BY DEF AInv, ListsInv
        <4>2. PICK i \in 1 .. Len(aslh) : aslh[i] = d /\ RemoveFirst(aslh, d) = RemoveAt(aslh, i)
          BY <1>1, <2>4, RemoveFirstAt
        <4>3. QED BY <1>1, <4>1, <4>2, RemoveElements
      <3>4. /\ \A e \in Semd \ {d} : e \in ToSet(aslh) <=> e \in ToSet(aslh')
            /\ s_semAdd' = s_semAdd
        BY <2>1, <3>2, <3>3
      <3>5. Queue[a] = s_procq[d] /\ Queue' = [Queue EXCEPT ![a] = s_procq'[d]]
        BY <1>0, <1>1, <2>4, <2>5, <3>1, <3>4, QueueStep
      <3>6. QED BY <3>1, <3>5
    <2>7. ASSUME NEW b \in Addr, b # a PROVE p \notin ToSet(Queue[b])
      <3>1. SUFFICES ASSUME p \in ToSet(Queue[b]) PROVE FALSE
        OBVIOUS
      <3>2. Queue[b] # <<>>
        <4>1. ToSet(<<>>) = {}
          BY DEF ToSet
        <4>2. QED BY <4>1, <3>1
      <3>3. /\ FindSemd(b) \in Semd /\ Queue[b] = s_procq[FindSemd(b)]
            /\ s_semAdd[FindSemd(b)] = b
        BY <3>2, QueueAt, Search, Positions
      <3>4. FindSemd(b) = d
        BY <3>1, <3>3, <1>2
      <3>5. QED BY <3>3, <3>4, <2>5, <2>7
    <2>8. Queues!RemoveFirst(Queue[a], p) = RemoveFirst(s_procq[d], p)
      BY <2>6, SameHelpers
    <2>9. Queue' = [b \in Addr |-> Queues!RemoveFirst(Queue[b], p)]
      <3>1. \A b \in Addr : Queue'[b] = Queues!RemoveFirst(Queue[b], p)
        BY <1>3, <2>6, <2>7, <2>8, QueueNow
      <3>2. Queue' = [b \in Addr |-> Queue'[b]]
        BY <1>0, QueueThen
      <3>3. QED BY <3>1, <3>2
    <2>10. QED BY <2>1, <2>2, <2>9 DEF Queues!OutBlocked
  <1>6. QED BY <1>4, <1>5

\* headBlocked answers the head.
LEMMA HeadRefines ==
  ASSUME AInv, NEW a \in Addr, HeadBlocked(a)
  PROVE  Queues!HeadBlocked(a)
  <1>1. UNCHANGED Queue
    BY QueueFrame DEF HeadBlocked
  <1>2. answer' = IF FindSemd(a) = NULL \/ s_procq[FindSemd(a)] = <<>> THEN NULL
                  ELSE Head(s_procq[FindSemd(a)])
    BY DEF HeadBlocked
  <1>3. CASE FindSemd(a) = NULL
    BY <1>1, <1>2, <1>3, QueueAt DEF Queues!HeadBlocked, Queues!HeadOf
  <1>4. CASE FindSemd(a) # NULL
    BY <1>1, <1>2, <1>4, QueueAt DEF Queues!HeadBlocked, Queues!HeadOf
  <1>5. QED BY <1>3, <1>4

LEMMA InitRefines == Init => Queues!Init
  <1>1. SUFFICES ASSUME Init PROVE Queues!Init
    OBVIOUS
  <1>2. ToSet(aslh) = {} /\ answer = NULL
    BY <1>1 DEF Init, ToSet
  <1>3. Queue = [a \in Addr |-> <<>>]
    BY <1>2 DEF Queue
  <1>4. QED BY <1>2, <1>3 DEF Queues!Init

\* asl.c implements a FIFO for each address with a table of MAXSEMD entries,
\* function by function, answers included: the search that stops early, the
\* descriptors that come and go and a stale p_cursem are not to be seen.
THEOREM AslImplements == Spec => ImplementsAsl
  <1>1. ASSUME AInv PROVE Namesake
    BY <1>1, InsertRefines, RemoveRefines, HeadRefines, OutRefines DEF Namesake
  <1>2. AInv => [Namesake]_vars
    BY <1>1
  <1>3. QED BY <1>2, InitRefines, AslInvariant, PTL DEF Spec, ImplementsAsl

\* Hence it implements the specification the nucleus relies on.
THEOREM AslRefines == Spec => Queues!Spec
  <1>1. AInv /\ [Next]_vars => [Queues!Next]_<<Queue, answer>>
    <2>1. SUFFICES ASSUME AInv, [Next]_vars PROVE [Queues!Next]_<<Queue, answer>>
      OBVIOUS
    <2>2. ASSUME NEW a \in Addr, NEW p \in Proc, InsertBlocked(a, p) PROVE Queues!Next
      BY <2>1, <2>2, InsertRefines DEF Queues!Next
    <2>3. ASSUME NEW a \in Addr, RemoveBlocked(a) PROVE Queues!Next
      BY <2>1, <2>3, RemoveRefines DEF Queues!Next
    <2>4. ASSUME NEW a \in Addr, HeadBlocked(a) PROVE Queues!Next
      BY <2>1, <2>4, HeadRefines DEF Queues!Next
    <2>5. ASSUME NEW p \in Proc, OutBlocked(p) PROVE Queues!Next
      BY <2>1, <2>5, OutRefines DEF Queues!Next
    <2>6. ASSUME NEW p \in Proc, ClearCursem(p) PROVE UNCHANGED <<Queue, answer>>
      BY <2>6, QueueFrame DEF ClearCursem
    <2>7. ASSUME UNCHANGED vars PROVE UNCHANGED <<Queue, answer>>
      BY <2>7, QueueFrame DEF vars
    <2>8. QED BY <2>1, <2>2, <2>3, <2>4, <2>5, <2>6, <2>7 DEF Next
  <1>2. QED BY <1>1, InitRefines, AslInvariant, PTL DEF Spec, Queues!Spec
=============================================================================
