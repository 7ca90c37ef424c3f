----------------------------- MODULE QueueLemmas -----------------------------
(***************************************************************************)
(* What the queue operations of the nucleus do to the set of the elements   *)
(* of a queue and to the absence of duplicates in it.  A queue that is      *)
(* Distinct holds no ProcBlk twice.                                         *)
(***************************************************************************)
EXTENDS Integers, SequencesExt, FiniteSetTheorems, SequenceTheorems,
        WellFoundedInduction, TLAPS

\* The elements of a queue are members of the set it is over; only the empty
\* queue has none (clist_empty).
LEMMA ElementsOf ==
  ASSUME NEW S, NEW s \in Seq(S)
  PROVE  /\ ToSet(s) \subseteq S
         /\ s = <<>> <=> ToSet(s) = {}
         /\ ToSet(s) = {s[i] : i \in 1 .. Len(s)}
         /\ ToSet(<<>>) = {}
  <1>1. Len(s) \in Nat /\ DOMAIN s = 1 .. Len(s) /\ \A i \in 1 .. Len(s) : s[i] \in S
    BY LenProperties, ElementOfSeq
  <1>2. ToSet(s) = {s[i] : i \in 1 .. Len(s)}
    BY <1>1 DEF ToSet
  <1>3. ToSet(<<>>) = {}
    BY DEF ToSet
  <1>4. ASSUME s # <<>> PROVE ToSet(s) # {}
    <2>1. 1 \in 1 .. Len(s)
      BY <1>1, <1>4, EmptySeq
    <2>2. QED BY <2>1, <1>2
  <1>5. QED BY <1>1, <1>2, <1>3, <1>4

\* Enqueueing (clist_enqueue) adds the element, and keeps the queue Distinct
\* if it was not there.
LEMMA AppendElements ==
  ASSUME NEW S, NEW s \in Seq(S), NEW e \in S
  PROVE  /\ Append(s, e) \in Seq(S)
         /\ Append(s, e) # <<>>
         /\ ToSet(Append(s, e)) = ToSet(s) \cup {e}
         /\ IsInjective(s) /\ e \notin ToSet(s) => IsInjective(Append(s, e))
  <1> DEFINE t == Append(s, e)
  <1>1. /\ t \in Seq(S) /\ t # <<>> /\ Len(t) = Len(s) + 1
        /\ \A i \in 1 .. Len(s) : t[i] = s[i]
        /\ t[Len(s) + 1] = e
    BY AppendProperties
  <1>2. Len(s) \in Nat /\ DOMAIN s = 1 .. Len(s) /\ DOMAIN t = 1 .. Len(s) + 1
    BY <1>1, LenProperties
  <1>3. DOMAIN t = 1 .. Len(s) \cup {Len(s) + 1}
    BY <1>2
  <1> HIDE DEF t
  <1>4. ToSet(t) = ToSet(s) \cup {e}
    BY <1>1, <1>2, <1>3 DEF ToSet
  <1>5. ASSUME IsInjective(s), e \notin ToSet(s) PROVE IsInjective(t)
    BY <1>1, <1>2, <1>3, <1>5 DEF IsInjective, ToSet
  <1>6. QED BY <1>1, <1>4, <1>5 DEF t

\* Dequeueing (removeProcQ) removes the head and nothing else.
LEMMA TailElements ==
  ASSUME NEW S, NEW s \in Seq(S), s # <<>>, IsInjective(s)
  PROVE  /\ Tail(s) \in Seq(S)
         /\ Head(s) \in ToSet(s)
         /\ ToSet(Tail(s)) = ToSet(s) \ {Head(s)}
         /\ IsInjective(Tail(s))
  <1>1. /\ Tail(s) \in Seq(S) /\ Len(Tail(s)) = Len(s) - 1
        /\ \A i \in 1 .. Len(Tail(s)) : Tail(s)[i] = s[i + 1]
    BY HeadTailProperties
  <1>2. /\ Len(s) \in Nat \ {0} /\ DOMAIN s = 1 .. Len(s)
        /\ DOMAIN Tail(s) = 1 .. Len(s) - 1
    BY <1>1, LenProperties, EmptySeq
  <1>3. Head(s) = s[1]
    OBVIOUS
  <1>4. ToSet(Tail(s)) = ToSet(s) \ {Head(s)}
    <2>1. ASSUME NEW x \in ToSet(Tail(s)) PROVE x \in ToSet(s) \ {Head(s)}
      <3>1. PICK i \in 1 .. Len(s) - 1 : x = s[i + 1]
        BY <1>1, <1>2 DEF ToSet
      <3>2. i + 1 \in DOMAIN s /\ 1 \in DOMAIN s /\ i + 1 # 1
        BY <1>2
      <3>3. QED BY <3>1, <3>2, <1>3 DEF ToSet, IsInjective
    <2>2. ASSUME NEW x \in ToSet(s), x # Head(s) PROVE x \in ToSet(Tail(s))
      <3>1. PICK i \in 1 .. Len(s) : x = s[i]
        BY <1>2 DEF ToSet
      <3>2. i - 1 \in 1 .. Len(s) - 1 /\ i = (i - 1) + 1
        BY <3>1, <2>2, <1>2, <1>3
      <3>3. QED BY <3>1, <3>2, <1>1, <1>2 DEF ToSet
    <2>3. QED BY <2>1, <2>2
  <1>5. IsInjective(Tail(s))
    <2>1. SUFFICES ASSUME NEW i \in 1 .. Len(s) - 1, NEW j \in 1 .. Len(s) - 1,
                          Tail(s)[i] = Tail(s)[j]
                   PROVE  i = j
      BY <1>2 DEF IsInjective
    <2>2. s[i + 1] = s[j + 1] /\ i + 1 \in DOMAIN s /\ j + 1 \in DOMAIN s
      BY <2>1, <1>1, <1>2
    <2>3. i + 1 = j + 1
      BY <2>2 DEF IsInjective
    <2>4. QED BY <2>3, <1>2
  <1>6. Head(s) \in ToSet(s)
    <2>1. 1 \in DOMAIN s
      BY <1>2
    <2>2. QED BY <2>1, <1>3 DEF ToSet
  <1>7. QED BY <1>1, <1>4, <1>5, <1>6

\* The first n elements of a Distinct queue and the others: a partition, both
\* parts Distinct, and the first part has n elements.
LEMMA SplitElements ==
  ASSUME NEW S, NEW s \in Seq(S), IsInjective(s), NEW n \in 0 .. Len(s)
  PROVE  LET a == SubSeq(s, 1, n)
             b == SubSeq(s, n + 1, Len(s))
         IN /\ a \in Seq(S) /\ b \in Seq(S)
            /\ IsInjective(a) /\ IsInjective(b)
            /\ ToSet(a) \cup ToSet(b) = ToSet(s)
            /\ ToSet(a) \cap ToSet(b) = {}
            /\ IsFiniteSet(ToSet(a)) /\ Cardinality(ToSet(a)) = n
  <1> DEFINE a == SubSeq(s, 1, n)
             b == SubSeq(s, n + 1, Len(s))
  <1>0. /\ Len(s) \in Nat /\ DOMAIN s = 1 .. Len(s) /\ n \in Nat /\ n <= Len(s)
        /\ \A i \in 1 .. Len(s) : s[i] \in S
    BY LenProperties, ElementOfSeq
  <1>1. a \in Seq(S) /\ Len(a) = n /\ \A i \in 1 .. n : a[i] = s[i]
    <2>1. \A i \in 1 .. n : s[i] \in S
      BY <1>0
    <2>2. /\ a \in Seq(S) /\ Len(a) = IF 1 <= n THEN n - 1 + 1 ELSE 0
          /\ \A i \in 1 .. n - 1 + 1 : a[i] = s[1 + i - 1]
      BY <2>1, <1>0, SubSeqProperties
    <2>3. QED BY <2>2, <1>0
  <1>2. b \in Seq(S) /\ Len(b) = Len(s) - n /\ \A i \in 1 .. Len(s) - n : b[i] = s[n + i]
    <2>1. \A i \in n + 1 .. Len(s) : s[i] \in S
      BY <1>0
    <2>2. /\ b \in Seq(S) /\ Len(b) = IF n + 1 <= Len(s) THEN Len(s) - (n + 1) + 1 ELSE 0
          /\ \A i \in 1 .. Len(s) - (n + 1) + 1 : b[i] = s[(n + 1) + i - 1]
      BY <2>1, <1>0, SubSeqProperties
    <2>3. QED BY <2>2, <1>0
  <1>3. DOMAIN a = 1 .. n /\ DOMAIN b = 1 .. Len(s) - n
    BY <1>1, <1>2, LenProperties
  <1> HIDE DEF a, b
  <1>4. IsInjective(a)
    BY <1>0, <1>1, <1>3 DEF IsInjective
  <1>5. IsInjective(b)
    <2>1. SUFFICES ASSUME NEW i \in 1 .. Len(s) - n, NEW j \in 1 .. Len(s) - n, b[i] = b[j]
                   PROVE  i = j
      BY <1>3 DEF IsInjective
    <2>2. n + i \in DOMAIN s /\ n + j \in DOMAIN s /\ s[n + i] = s[n + j]
      BY <2>1, <1>0, <1>2
    <2>3. n + i = n + j
      BY <2>2 DEF IsInjective
    <2>4. QED BY <2>3, <1>0
  <1>6. ToSet(a) \cup ToSet(b) = ToSet(s)
    <2>1. ASSUME NEW x \in ToSet(s) PROVE x \in ToSet(a) \cup ToSet(b)
      <3>1. PICK i \in 1 .. Len(s) : x = s[i]
        BY <1>0 DEF ToSet
      <3>2. CASE i <= n
        BY <3>1, <3>2, <1>0, <1>1, <1>3 DEF ToSet
      <3>3. CASE i > n
        <4>1. i - n \in 1 .. Len(s) - n /\ b[i - n] = s[n + (i - n)] /\ n + (i - n) = i
          BY <3>3, <1>0, <1>2
        <4>2. QED BY <4>1, <3>1, <1>3 DEF ToSet
      <3>4. QED BY <3>2, <3>3, <1>0
    <2>2. ASSUME NEW x \in ToSet(a) PROVE x \in ToSet(s)
      BY <1>0, <1>1, <1>3 DEF ToSet
    <2>3. ASSUME NEW x \in ToSet(b) PROVE x \in ToSet(s)
      <3>1. PICK i \in 1 .. Len(s) - n : x = s[n + i]
        BY <1>2, <1>3 DEF ToSet
      <3>2. n + i \in 1 .. Len(s)
        BY <1>0
      <3>3. QED BY <3>1, <3>2, <1>0 DEF ToSet
    <2>4. QED BY <2>1, <2>2, <2>3
  <1>7. ToSet(a) \cap ToSet(b) = {}
    <2>1. SUFFICES ASSUME NEW x, x \in ToSet(a), x \in ToSet(b) PROVE FALSE
      OBVIOUS
    <2>2. PICK i \in 1 .. n : x = s[i]
      BY <2>1, <1>1, <1>3 DEF ToSet
    <2>3. PICK j \in 1 .. Len(s) - n : x = s[n + j]
      BY <2>1, <1>2, <1>3 DEF ToSet
    <2>4. i \in DOMAIN s /\ n + j \in DOMAIN s /\ i # n + j
      BY <1>0
    <2>5. QED BY <2>2, <2>3, <2>4 DEF IsInjective
  <1>8. IsFiniteSet(ToSet(a)) /\ Cardinality(ToSet(a)) = n
    <2>1. IsFiniteSet(1 .. n) /\ Cardinality(1 .. n) = n
      BY <1>0, FS_Interval
    <2>2. a \in [1 .. n -> ToSet(a)]
      BY <1>1, <1>3, LenProperties DEF ToSet
    <2>3. a \in Bijection(1 .. n, ToSet(a))
      BY <2>2, <1>3, <1>4 DEF ToSet, Bijection, Injection, Surjection, IsInjective
    <2>4. ExistsBijection(1 .. n, ToSet(a))
      BY <2>3 DEF ExistsBijection
    <2>5. QED BY <2>1, <2>4, FS_Bijection
  <1>9. QED BY <1>1, <1>2, <1>4, <1>5, <1>6, <1>7, <1>8 DEF a, b

\* Concatenation of Distinct queues without a common element.
LEMMA ConcatElements ==
  ASSUME NEW S, NEW s \in Seq(S), NEW t \in Seq(S)
  PROVE  /\ s \o t \in Seq(S)
         /\ ToSet(s \o t) = ToSet(s) \cup ToSet(t)
         /\ IsInjective(s) /\ IsInjective(t) /\ ToSet(s) \cap ToSet(t) = {}
              => IsInjective(s \o t)
  <1> DEFINE u == s \o t
  <1>1. /\ u \in Seq(S) /\ Len(u) = Len(s) + Len(t)
        /\ \A i \in 1 .. Len(s) + Len(t) : u[i] = IF i <= Len(s) THEN s[i] ELSE t[i - Len(s)]
    BY ConcatProperties
  <1>2. /\ Len(s) \in Nat /\ Len(t) \in Nat /\ DOMAIN s = 1 .. Len(s)
        /\ DOMAIN t = 1 .. Len(t) /\ DOMAIN u = 1 .. Len(s) + Len(t)
    BY <1>1, LenProperties
  <1> HIDE DEF u
  <1>3. ToSet(u) = ToSet(s) \cup ToSet(t)
    <2>1. ASSUME NEW x \in ToSet(u) PROVE x \in ToSet(s) \cup ToSet(t)
      <3>1. PICK i \in 1 .. Len(s) + Len(t) : x = u[i]
        BY <1>2 DEF ToSet
      <3>2. CASE i <= Len(s)
        BY <3>1, <3>2, <1>1, <1>2 DEF ToSet
      <3>3. CASE i > Len(s)
        <4>1. i - Len(s) \in DOMAIN t /\ x = t[i - Len(s)]
          BY <3>1, <3>3, <1>1, <1>2
        <4>2. QED BY <4>1 DEF ToSet
      <3>4. QED BY <3>2, <3>3, <1>2
    <2>2. ASSUME NEW x \in ToSet(s) PROVE x \in ToSet(u)
      BY <1>1, <1>2 DEF ToSet
    <2>3. ASSUME NEW x \in ToSet(t) PROVE x \in ToSet(u)
      <3>1. PICK i \in 1 .. Len(t) : x = t[i]
        BY <1>2 DEF ToSet
      <3>2. Len(s) + i \in 1 .. Len(s) + Len(t) /\ ~(Len(s) + i <= Len(s))
            /\ (Len(s) + i) - Len(s) = i
        BY <1>2
      <3>3. Len(s) + i \in DOMAIN u /\ u[Len(s) + i] = t[i]
        BY <3>2, <1>1, <1>2
      <3>4. QED BY <3>1, <3>3 DEF ToSet
    <2>4. QED BY <2>1, <2>2, <2>3
  <1>4. ASSUME IsInjective(s), IsInjective(t), ToSet(s) \cap ToSet(t) = {},
               NEW i \in DOMAIN u, NEW j \in DOMAIN u, u[i] = u[j]
        PROVE  i = j
    <2>1. CASE i <= Len(s) /\ j <= Len(s)
      BY <2>1, <1>1, <1>2, <1>4 DEF IsInjective
    <2>2. CASE i > Len(s) /\ j > Len(s)
      <3>1. /\ i - Len(s) \in DOMAIN t /\ j - Len(s) \in DOMAIN t
            /\ t[i - Len(s)] = t[j - Len(s)]
        BY <2>2, <1>1, <1>2, <1>4
      <3>2. i - Len(s) = j - Len(s)
        BY <3>1, <1>4 DEF IsInjective
      <3>3. QED BY <3>2, <1>2
    <2>3. ASSUME NEW k \in DOMAIN u, NEW l \in DOMAIN u, k <= Len(s), l > Len(s)
          PROVE  u[k] # u[l]
      <3>1. k \in DOMAIN s /\ u[k] = s[k] /\ l - Len(s) \in DOMAIN t /\ u[l] = t[l - Len(s)]
        BY <2>3, <1>1, <1>2
      <3>2. u[k] \in ToSet(s) /\ u[l] \in ToSet(t)
        BY <3>1 DEF ToSet
      <3>3. QED BY <3>2, <1>4
    <2>4. QED BY <2>1, <2>2, <2>3, <1>2, <1>4
  <1>5. QED BY <1>1, <1>3, <1>4 DEF u, IsInjective

\* Removal of the element at position i (outProcQ, outBlocked).
LEMMA RemoveElements ==
  ASSUME NEW S, NEW s \in Seq(S), IsInjective(s), NEW i \in 1 .. Len(s)
  PROVE  /\ RemoveAt(s, i) \in Seq(S)
         /\ ToSet(RemoveAt(s, i)) = ToSet(s) \ {s[i]}
         /\ IsInjective(RemoveAt(s, i))
  <1> DEFINE a == SubSeq(s, 1, i - 1)
             c == SubSeq(s, i, Len(s))
             b == SubSeq(s, i + 1, Len(s))
  <1>0. Len(s) \in Nat /\ i - 1 \in 0 .. Len(s) /\ (i - 1) + 1 = i
    BY LenProperties
  <1>1. /\ a \in Seq(S) /\ c \in Seq(S) /\ IsInjective(a) /\ IsInjective(c)
        /\ ToSet(a) \cup ToSet(c) = ToSet(s) /\ ToSet(a) \cap ToSet(c) = {}
    BY <1>0, SplitElements
  <1>2. Head(c) = s[i] /\ Tail(c) = b
    <2>1. i \in 1 .. Len(s) /\ Len(s) \in i .. Len(s)
      BY <1>0
    <2>2. QED BY <2>1, HeadTailOfSubSeq
  <1>3. c # <<>>
    <2>1. \A j \in i .. Len(s) : s[j] \in S
      BY <1>0, ElementOfSeq
    <2>2. Len(c) = Len(s) - i + 1
      BY <2>1, <1>0, SubSeqProperties
    <2>3. Len(c) # 0
      BY <2>2, <1>0
    <2>4. Len(<<>>) = 0
      BY EmptySeq
    <2> HIDE DEF c
    <2>5. QED BY <2>3, <2>4
  <1>4. b \in Seq(S) /\ s[i] \in ToSet(c) /\ ToSet(b) = ToSet(c) \ {s[i]} /\ IsInjective(b)
    <2>1. /\ Tail(c) \in Seq(S) /\ Head(c) \in ToSet(c) /\ IsInjective(Tail(c))
          /\ ToSet(Tail(c)) = ToSet(c) \ {Head(c)}
      BY <1>1, <1>3, TailElements
    <2>2. QED BY <2>1, <1>2
  <1>5. RemoveAt(s, i) = a \o b
    BY DEF RemoveAt
  <1> HIDE DEF a, b, c
  <1>6. /\ a \o b \in Seq(S) /\ ToSet(a \o b) = ToSet(a) \cup ToSet(b)
        /\ ToSet(a) \cap ToSet(b) = {} => IsInjective(a \o b)
    BY <1>1, <1>4, ConcatElements
  <1>7. QED BY <1>1, <1>4, <1>5, <1>6

\* The last element of a sequence,
LEMMA LastOf ==
  ASSUME NEW S, NEW s \in Seq(S)
  PROVE  /\ Len(s) \in Nat /\ DOMAIN s = 1 .. Len(s)
         /\ \A i \in DOMAIN s : s[i] \in S
         /\ s # <<>> => /\ Len(s) > 0 /\ Len(s) \in DOMAIN s
                       /\ Last(s) = s[Len(s)] /\ Last(s) \in S
  <1>1. /\ Len(s) \in Nat /\ DOMAIN s = 1 .. Len(s)
        /\ \A i \in DOMAIN s : s[i] \in S
    BY LenProperties, ElementOfSeq
  <1>2. ASSUME s # <<>> PROVE Len(s) > 0 /\ Len(s) \in DOMAIN s
    BY <1>1, <1>2, EmptySeq
  <1>3. QED BY <1>1, <1>2 DEF Last

\* ... what Append adds there,
LEMMA PushOf ==
  ASSUME NEW S, NEW s \in Seq(S), NEW e \in S
  PROVE  /\ Append(s, e) \in Seq(S) /\ Append(s, e) # <<>>
         /\ DOMAIN Append(s, e) = 1 .. Len(s) + 1
         /\ \A i \in DOMAIN s : Append(s, e)[i] = s[i]
         /\ Append(s, e)[Len(s) + 1] = e
         /\ Last(Append(s, e)) = e
  BY LenProperties, AppendProperties DEF Last

\* ... and what Front leaves.
LEMMA FrontOf ==
  ASSUME NEW S, NEW s \in Seq(S), s # <<>>
  PROVE  /\ Front(s) \in Seq(S)
         /\ DOMAIN Front(s) = 1 .. Len(s) - 1
         /\ Len(Front(s)) = Len(s) - 1
         /\ \A i \in 1 .. Len(s) - 1 : Front(s)[i] = s[i]
         /\ Front(s) = <<>> <=> Len(s) = 1
  <1> DEFINE n == Len(s) - 1
  <1>1. n \in Nat /\ Len(s) = n + 1 /\ \A i \in 1 .. n : s[i] \in S
    BY LastOf
  <1>2. /\ Front(s) \in Seq(S)
        /\ Len(Front(s)) = IF 1 <= n THEN n - 1 + 1 ELSE 0
        /\ \A i \in 1 .. n - 1 + 1 : Front(s)[i] = s[1 + i - 1]
    BY <1>1, SubSeqProperties DEF Front
  <1> HIDE DEF n
  <1>3. Len(Front(s)) = n /\ \A i \in 1 .. n : Front(s)[i] = s[i]
    BY <1>1, <1>2
  <1>4. DOMAIN Front(s) = 1 .. n
    BY <1>2, <1>3, LenProperties
  <1>5. Front(s) = <<>> <=> n = 0
    BY <1>1, <1>2, <1>3, EmptySeq
  <1>6. n = 0 <=> Len(s) = 1
    BY <1>1
  <1>7. QED BY <1>2, <1>3, <1>4, <1>5, <1>6 DEF n

\* A Distinct queue is as long as it has elements.
LEMMA DistinctLength ==
  ASSUME NEW S, NEW s \in Seq(S), IsInjective(s)
  PROVE  Len(s) = Cardinality(ToSet(s)) /\ IsFiniteSet(ToSet(s))
  <1>1. Len(s) \in Nat /\ DOMAIN s = 1 .. Len(s)
    BY LenProperties
  <1>2. IsFiniteSet(1 .. Len(s)) /\ Cardinality(1 .. Len(s)) = Len(s)
    BY <1>1, FS_Interval
  <1>3. s \in Bijection(1 .. Len(s), ToSet(s))
    <2>1. s \in [1 .. Len(s) -> ToSet(s)]
      BY <1>1, LenProperties DEF ToSet
    <2>2. QED BY <2>1, <1>1 DEF ToSet, Bijection, Injection, Surjection, IsInjective
  <1>4. ExistsBijection(1 .. Len(s), ToSet(s))
    BY <1>3 DEF ExistsBijection
  <1>5. QED BY <1>2, <1>4, FS_Bijection

\* Removing an element makes it one shorter.
LEMMA RemoveLength ==
  ASSUME NEW S, NEW s \in Seq(S), NEW t \in Seq(S), IsInjective(s), IsInjective(t),
         NEW e \in ToSet(s), ToSet(t) = ToSet(s) \ {e}
  PROVE  Len(t) = Len(s) - 1
  <1>1. Cardinality(ToSet(s) \ {e}) = Cardinality(ToSet(s)) - 1
    BY DistinctLength, FS_RemoveElement
  <1>2. QED BY <1>1, DistinctLength

-----------------------------------------------------------------------------
(* Sums over a queue *)

\* A non-empty set of naturals has a least element: induction, for the lemmas
\* below, is the choice of a least counterexample.
LEMMA LeastElement ==
  ASSUME NEW T \in SUBSET Nat, T # {}
  PROVE  \E x \in T : \A y \in T : x <= y
  <1>1. PICK x \in T : \A y \in T : ~(<<y, x>> \in OpToRel(<, Nat))
    BY NatLessThanWellFounded, WFMin
  <1>2. ASSUME NEW y \in T PROVE ~(y < x)
    <2>1. <<y, x>> \in Nat \X Nat /\ <<y, x>>[1] = y /\ <<y, x>>[2] = x
      OBVIOUS
    <2>2. <<y, x>>[1] < <<y, x>>[2] => <<y, x>> \in OpToRel(<, Nat)
      BY <2>1, Zenon DEF OpToRel
    <2>3. QED BY <2>1, <2>2, <1>1
  <1>3. QED BY <1>2

\* Max picks the greatest of some positions of a queue.
LEMMA MaxOf ==
  ASSUME NEW n \in Nat, NEW T \in SUBSET (1 .. n), T # {}
  PROVE  /\ Max(T) \in T
         /\ \A y \in T : Max(T) >= y
  <1> DEFINE D == {n - y : y \in T}
  <1>1. D \in SUBSET Nat /\ D # {}
    <2>1. \A y \in T : y \in Int /\ y <= n /\ n - y \in Nat
      OBVIOUS
    <2>2. QED BY <2>1
  <1>2. PICK d \in D : \A e \in D : d <= e
    BY <1>1, LeastElement
  <1>3. PICK x \in T : d = n - x
    OBVIOUS
  <1>4. ASSUME NEW y \in T PROVE x >= y
    <2>1. n - y \in D
      OBVIOUS
    <2>2. n - x <= n - y
      BY <1>2, <1>3, <2>1
    <2>3. QED BY <2>2
  <1>5. \E z \in T : \A y \in T : z >= y
    BY <1>3, <1>4
  <1>6. QED BY <1>5, Zenon DEF Max

\* Min picks the least.
LEMMA MinOf ==
  ASSUME NEW n \in Nat, NEW T \in SUBSET (1 .. n), T # {}
  PROVE  /\ Min(T) \in T
         /\ \A y \in T : Min(T) <= y
  <1>1. T \in SUBSET Nat
    OBVIOUS
  <1>2. \E x \in T : \A y \in T : x <= y
    BY <1>1, LeastElement
  <1>3. QED BY <1>2, Zenon DEF Min

\* The sum, with its sign changed, of what r says of the elements of a queue
\* (the first loop of the V: sum -= res_wait).
Owed(r, s) == FoldLeft(LAMBDA acc, p : acc - r[p], 0, s)

\* If each element counts -1, it is the length of the queue.
LEMMA OwedUnits ==
  ASSUME NEW S, NEW s \in Seq(S), NEW r,
         \A i \in 1 .. Len(s) : r[s[i]] = -1
  PROVE  Owed(r, s) = Len(s)
  <1> DEFINE D == DOMAIN s
             Rec(f) == f = [t \in SUBSET D |->
                              IF t = {} THEN 0
                              ELSE f[t \ {Max(t)}] - r[s[Max(t)]]]
             size == [t \in SUBSET D |-> Cardinality(t)]
             sum == CHOOSE f : Rec(f)
  <1>1. Owed(r, s) = sum[D]
    BY DEF Owed, FoldLeft, MapThenFoldSet
  <1>2. Len(s) \in Nat /\ D = 1 .. Len(s) /\ IsFiniteSet(D) /\ Cardinality(D) = Len(s)
    <2>1. Len(s) \in Nat /\ D = 1 .. Len(s)
      BY LenProperties
    <2>2. IsFiniteSet(1 .. Len(s)) /\ Cardinality(1 .. Len(s)) = Len(s)
      BY <2>1, FS_Interval
    <2>3. QED BY <2>1, <2>2
  <1>3. ASSUME NEW t \in SUBSET D
        PROVE  /\ IsFiniteSet(t) /\ Cardinality(t) \in Nat
               /\ t = {} => Cardinality(t) = 0
               /\ t # {} => /\ Max(t) \in t /\ r[s[Max(t)]] = -1
                            /\ t \ {Max(t)} \in SUBSET D
                            /\ Cardinality(t \ {Max(t)}) = Cardinality(t) - 1
    <2>1. IsFiniteSet(t) /\ Cardinality(t) \in Nat
      BY <1>2, FS_Subset, FS_CardinalityType
    <2>2. t = {} => Cardinality(t) = 0
      BY FS_EmptySet
    <2>3. t # {} => Max(t) \in t
      BY <1>2, MaxOf
    <2>4. t # {} => Cardinality(t \ {Max(t)}) = Cardinality(t) - 1
      BY <2>1, <2>3, FS_RemoveElement
    <2>5. t # {} => r[s[Max(t)]] = -1
      BY <1>2, <2>3
    <2>6. QED BY <2>1, <2>2, <2>3, <2>4, <2>5
  <1> HIDE DEF D
  <1>4. Rec(size)
    <2>1. ASSUME NEW t \in SUBSET D
          PROVE  size[t] = IF t = {} THEN 0 ELSE size[t \ {Max(t)}] - r[s[Max(t)]]
      BY <1>3
    <2>2. QED BY <2>1
  <1>5. Rec(sum)
    BY <1>4
  <1> HIDE DEF sum, size
  <1>6. \A t \in SUBSET D : sum[t] = IF t = {} THEN 0 ELSE sum[t \ {Max(t)}] - r[s[Max(t)]]
    BY <1>5
  <1>7. \A t \in SUBSET D : sum[t] = Cardinality(t)
    <2> DEFINE Bad == {t \in SUBSET D : sum[t] # Cardinality(t)}
               Sizes == {Cardinality(t) : t \in Bad}
    <2>1. SUFFICES ASSUME Bad # {} PROVE FALSE
      OBVIOUS
    <2>2. Sizes \in SUBSET Nat /\ Sizes # {}
      <3>1. \A t \in Bad : Cardinality(t) \in Nat
        BY <1>3
      <3>2. QED BY <2>1, <3>1
    <2>3. PICK m \in Sizes : \A k \in Sizes : m <= k
      BY <2>2, LeastElement
    <2>4. PICK t \in Bad : m = Cardinality(t)
      BY <2>3
    <2>5. t \in SUBSET D /\ t # {}
      <3>1. t \in SUBSET D /\ sum[t] # Cardinality(t)
        BY <2>4
      <3>2. QED BY <3>1, <1>3, <1>6
    <2> DEFINE u == t \ {Max(t)}
    <2>6. /\ u \in SUBSET D /\ Cardinality(u) = Cardinality(t) - 1 /\ Cardinality(t) \in Nat
          /\ r[s[Max(t)]] = -1
      BY <1>3, <2>5
    <2>7. u \notin Bad
      <3>1. u \in Bad => m <= Cardinality(u)
        BY <2>3
      <3>2. QED BY <3>1, <2>4, <2>6
    <2>8. sum[u] = Cardinality(t) - 1
      BY <2>6, <2>7
    <2>9. sum[t] = sum[u] - r[s[Max(t)]]
      BY <1>6, <2>5
    <2>10. sum[t] = Cardinality(t)
      BY <2>6, <2>8, <2>9
    <2>11. QED BY <2>4, <2>10
  <1>8. QED BY <1>1, <1>2, <1>7

-----------------------------------------------------------------------------
(* Positions *)

\* Where the elements are once the one at position i is removed.
LEMMA RemovePoints ==
  ASSUME NEW S, NEW s \in Seq(S), NEW i \in 1 .. Len(s)
  PROVE  /\ RemoveAt(s, i) \in Seq(S)
         /\ Len(RemoveAt(s, i)) = Len(s) - 1
         /\ \A j \in 1 .. Len(s) - 1 : RemoveAt(s, i)[j] = IF j < i THEN s[j] ELSE s[j + 1]
  <1> DEFINE n == Len(s)
             a == SubSeq(s, 1, i - 1)
             b == SubSeq(s, i + 1, n)
  <1>1. n \in Nat /\ i \in Nat /\ 1 <= i /\ i <= n /\ \A j \in 1 .. n : s[j] \in S
    BY LenProperties, ElementOfSeq
  <1>2. a \in Seq(S) /\ Len(a) = i - 1 /\ \A j \in 1 .. i - 1 : a[j] = s[j]
    <2>1. \A j \in 1 .. i - 1 : s[j] \in S
      BY <1>1
    <2>2. /\ a \in Seq(S) /\ Len(a) = IF 1 <= i - 1 THEN i - 1 - 1 + 1 ELSE 0
          /\ \A j \in 1 .. i - 1 - 1 + 1 : a[j] = s[1 + j - 1]
      BY <2>1, <1>1, SubSeqProperties
    <2>3. QED BY <2>2, <1>1
  <1>3. b \in Seq(S) /\ Len(b) = n - i /\ \A j \in 1 .. n - i : b[j] = s[i + j]
    <2>1. \A j \in i + 1 .. n : s[j] \in S
      BY <1>1
    <2>2. /\ b \in Seq(S) /\ Len(b) = IF i + 1 <= n THEN n - (i + 1) + 1 ELSE 0
          /\ \A j \in 1 .. n - (i + 1) + 1 : b[j] = s[(i + 1) + j - 1]
      BY <2>1, <1>1, SubSeqProperties
    <2>3. QED BY <2>2, <1>1
  <1>4. RemoveAt(s, i) = a \o b
    BY DEF RemoveAt
  <1> HIDE DEF a, b, n
  <1>5. /\ a \o b \in Seq(S) /\ Len(a \o b) = Len(a) + Len(b)
        /\ \A j \in 1 .. Len(a) + Len(b) : (a \o b)[j] = IF j <= Len(a) THEN a[j] ELSE b[j - Len(a)]
    BY <1>2, <1>3, ConcatProperties
  <1>6. Len(a) + Len(b) = n - 1
    BY <1>1, <1>2, <1>3
  <1>7. ASSUME NEW j \in 1 .. n - 1 PROVE (a \o b)[j] = IF j < i THEN s[j] ELSE s[j + 1]
    <2>1. CASE j < i
      BY <2>1, <1>1, <1>2, <1>5, <1>6
    <2>2. CASE ~(j < i)
      <3>1. j - (i - 1) \in 1 .. n - i /\ i + (j - (i - 1)) = j + 1 /\ ~(j <= i - 1)
        BY <2>2, <1>1
      <3>2. QED BY <3>1, <2>2, <1>1, <1>2, <1>3, <1>5, <1>6
    <2>3. QED BY <2>1, <2>2
  <1>8. QED BY <1>4, <1>5, <1>6, <1>7 DEF n

\* Where they are once e is put at position i.
LEMMA InsertPoints ==
  ASSUME NEW S, NEW s \in Seq(S), NEW e \in S, NEW i \in 1 .. Len(s)
  PROVE  /\ InsertAt(s, i, e) \in Seq(S)
         /\ Len(InsertAt(s, i, e)) = Len(s) + 1
         /\ \A j \in 1 .. Len(s) + 1 :
              InsertAt(s, i, e)[j] = IF j < i THEN s[j] ELSE IF j = i THEN e ELSE s[j - 1]
         /\ ToSet(InsertAt(s, i, e)) = ToSet(s) \cup {e}
         /\ IsInjective(s) /\ e \notin ToSet(s) => IsInjective(InsertAt(s, i, e))
  <1> DEFINE n == Len(s)
             a == SubSeq(s, 1, i - 1)
             b == SubSeq(s, i, n)
             t == InsertAt(s, i, e)
  <1>1. n \in Nat /\ i \in Nat /\ 1 <= i /\ i <= n /\ \A j \in 1 .. n : s[j] \in S
    BY LenProperties, ElementOfSeq
  <1>2. a \in Seq(S) /\ Len(a) = i - 1 /\ \A j \in 1 .. i - 1 : a[j] = s[j]
    <2>1. \A j \in 1 .. i - 1 : s[j] \in S
      BY <1>1
    <2>2. /\ a \in Seq(S) /\ Len(a) = IF 1 <= i - 1 THEN i - 1 - 1 + 1 ELSE 0
          /\ \A j \in 1 .. i - 1 - 1 + 1 : a[j] = s[1 + j - 1]
      BY <2>1, <1>1, SubSeqProperties
    <2>3. QED BY <2>2, <1>1
  <1>3. b \in Seq(S) /\ Len(b) = n - i + 1 /\ \A j \in 1 .. n - i + 1 : b[j] = s[i + j - 1]
    <2>1. \A j \in i .. n : s[j] \in S
      BY <1>1
    <2>2. QED BY <2>1, <1>1, SubSeqProperties
  <1>4. t = (a \o <<e>>) \o b
    BY DEF InsertAt
  <1> HIDE DEF a, b, n, t
  <1>5. /\ a \o <<e>> \in Seq(S) /\ Len(a \o <<e>>) = i
        /\ \A j \in 1 .. i : (a \o <<e>>)[j] = IF j < i THEN s[j] ELSE e
    <2>1. <<e>> \in Seq(S) /\ Len(<<e>>) = 1 /\ <<e>>[1] = e
      OBVIOUS
    <2>2. /\ a \o <<e>> \in Seq(S) /\ Len(a \o <<e>>) = Len(a) + 1
          /\ \A j \in 1 .. Len(a) + 1 : (a \o <<e>>)[j] = IF j <= Len(a) THEN a[j] ELSE <<e>>[j - Len(a)]
      BY <1>2, <2>1, ConcatProperties
    <2>3. QED BY <2>1, <2>2, <1>1, <1>2
  <1> DEFINE c == a \o <<e>>
  <1>5a. /\ c \in Seq(S) /\ Len(c) = i /\ t = c \o b
         /\ \A j \in 1 .. i : c[j] = IF j < i THEN s[j] ELSE e
    BY <1>4, <1>5
  <1> HIDE DEF c
  <1>6. /\ c \o b \in Seq(S) /\ Len(c \o b) = Len(c) + Len(b)
        /\ \A j \in 1 .. Len(c) + Len(b) : (c \o b)[j] = IF j <= Len(c) THEN c[j] ELSE b[j - Len(c)]
    BY <1>3, <1>5a, ConcatProperties
  <1>7. t = c \o b /\ Len(c) + Len(b) = n + 1 /\ Len(c) = i
    <2>1. Len(c) = i /\ Len(b) = n - i + 1 /\ i \in Nat /\ n \in Nat
      BY <1>1, <1>3, <1>5a
    <2>2. i + (n - i + 1) = n + 1
      BY <2>1
    <2>3. QED BY <2>1, <2>2, <1>5a
  <1>8. ASSUME NEW j \in 1 .. n + 1
        PROVE  t[j] = IF j < i THEN s[j] ELSE IF j = i THEN e ELSE s[j - 1]
    <2>1. CASE j <= i
      BY <2>1, <1>1, <1>5a, <1>6, <1>7
    <2>2. CASE ~(j <= i)
      <3>1. j - i \in 1 .. n - i + 1 /\ i + (j - i) - 1 = j - 1
        BY <2>2, <1>1
      <3>2. QED BY <3>1, <2>2, <1>1, <1>3, <1>6, <1>7
    <2>3. QED BY <2>1, <2>2
  <1>9. t \in Seq(S) /\ Len(t) = n + 1
    BY <1>6, <1>7
  <1>10. DOMAIN t = 1 .. n + 1 /\ DOMAIN s = 1 .. n
    BY <1>9, LenProperties DEF n
  <1>11. ToSet(t) = ToSet(s) \cup {e}
    <2>1. ASSUME NEW x \in ToSet(t) PROVE x \in ToSet(s) \cup {e}
      <3>1. PICK j \in 1 .. n + 1 : x = t[j]
        BY <1>10 DEF ToSet
      <3>2. j < i => j \in DOMAIN s
        BY <1>1, <1>10
      <3>3. j > i => j - 1 \in DOMAIN s
        BY <1>1, <1>10
      <3>4. QED BY <3>1, <3>2, <3>3, <1>1, <1>8 DEF ToSet
    <2>2. ASSUME NEW x \in ToSet(s) PROVE x \in ToSet(t)
      <3>1. PICK j \in 1 .. n : x = s[j]
        BY <1>10 DEF ToSet
      <3>2. CASE j < i
        <4>1. j \in DOMAIN t /\ t[j] = s[j]
          BY <3>2, <1>1, <1>8, <1>10
        <4>2. QED BY <4>1, <3>1 DEF ToSet
      <3>3. CASE ~(j < i)
        <4>1. j + 1 \in DOMAIN t /\ (j + 1) - 1 = j /\ ~(j + 1 <= i)
          BY <3>3, <1>1, <1>10
        <4>2. t[j + 1] = s[j]
          BY <4>1, <1>1, <1>8, <1>10
        <4>3. QED BY <4>1, <4>2, <3>1 DEF ToSet
      <3>4. QED BY <3>2, <3>3
    <2>3. e \in ToSet(t)
      <3>1. i \in DOMAIN t /\ t[i] = e
        BY <1>1, <1>8, <1>10
      <3>2. QED BY <3>1 DEF ToSet
    <2>4. QED BY <2>1, <2>2, <2>3
  <1>12. ASSUME IsInjective(s), e \notin ToSet(s) PROVE IsInjective(t)
    <2>1. \A j \in 1 .. n : s[j] # e
      BY <1>10, <1>12 DEF ToSet
    <2>2. \A j, k \in 1 .. n : s[j] = s[k] => j = k
      BY <1>10, <1>12 DEF IsInjective
    <2>3. SUFFICES ASSUME NEW j \in 1 .. n + 1, NEW k \in 1 .. n + 1, t[j] = t[k], j < k
                   PROVE  FALSE
      <3>1. \A j, k \in 1 .. n + 1 : j < k \/ j = k \/ k < j
        BY <1>1
      <3>2. QED BY <3>1, <1>10 DEF IsInjective
    <2>4. CASE j < i
      <3>1. j \in 1 .. n /\ t[j] = s[j]
        BY <2>4, <1>1, <1>8
      <3>2. CASE k < i
        <4>1. k \in 1 .. n /\ t[k] = s[k]
          BY <3>2, <1>1, <1>8
        <4>2. j = k
          BY <4>1, <3>1, <2>2, <2>3
        <4>3. QED BY <4>2, <2>3
      <3>3. CASE k = i
        BY <3>1, <3>3, <2>1, <2>3, <1>1, <1>8
      <3>4. CASE k > i
        <4>1. k - 1 \in 1 .. n /\ t[k] = s[k - 1] /\ j # k - 1
          BY <3>4, <2>4, <1>1, <1>8
        <4>2. s[j] = s[k - 1]
          BY <4>1, <3>1, <2>3
        <4>3. QED BY <4>1, <4>2, <3>1, <2>2
      <3>5. QED BY <3>2, <3>3, <3>4, <1>1
    <2>5. CASE ~(j < i)
      <3>1. k > i /\ k - 1 \in 1 .. n /\ t[k] = s[k - 1]
        BY <2>3, <2>5, <1>1, <1>8
      <3>2. CASE j = i
        BY <3>1, <3>2, <2>1, <2>3, <1>1, <1>8
      <3>3. CASE j > i
        <4>1. j - 1 \in 1 .. n /\ t[j] = s[j - 1] /\ j - 1 # k - 1
          BY <3>3, <2>3, <1>1, <1>8
        <4>2. s[j - 1] = s[k - 1]
          BY <4>1, <3>1, <2>3
        <4>3. QED BY <4>1, <4>2, <3>1, <2>2
      <3>4. QED BY <3>2, <3>3, <2>5, <1>1
    <2>6. QED BY <2>4, <2>5
  <1>13. QED BY <1>8, <1>9, <1>11, <1>12 DEF n, t

\* RemoveFirst takes an element that is in the queue off at the one position
\* where it is.
LEMMA RemoveFirstAt ==
  ASSUME NEW S, NEW s \in Seq(S), NEW e \in ToSet(s)
  PROVE  \E i \in 1 .. Len(s) : s[i] = e /\ RemoveFirst(s, e) = RemoveAt(s, i)
  <1> DEFINE I == {i \in 1 .. Len(s) : s[i] = e}
  <1>1. I \in SUBSET (1 .. Len(s)) /\ I # {} /\ Len(s) \in Nat
    BY ElementsOf, LenProperties
  <1>2. Min(I) \in I
    BY <1>1, MinOf
  <1>3. RemoveFirst(s, e) = RemoveAt(s, Min(I))
    BY <1>1 DEF RemoveFirst, SelectInSeq
  <1>4. QED BY <1>2, <1>3

\* It leaves a queue alone that does not hold the element.
LEMMA RemoveFirstMissing ==
  ASSUME NEW S, NEW s \in Seq(S), NEW e, e \notin ToSet(s)
  PROVE  RemoveFirst(s, e) = s
  BY ElementsOf DEF RemoveFirst

-----------------------------------------------------------------------------
(* Rings of links: the lists of clist.h *)

\* The link of each element of s leads to the next, that of the last to the
\* first.
Circle(f, s) ==
  /\ IsInjective(s)
  /\ \A i \in 1 .. Len(s) : f[s[i]] = IF i = Len(s) THEN s[1] ELSE s[i + 1]

\* The same, position by position.
LEMMA CircleAt ==
  ASSUME NEW S, NEW s \in Seq(S), NEW f, Circle(f, s)
  PROVE  /\ Len(s) \in Nat /\ ToSet(s) = {s[i] : i \in 1 .. Len(s)}
         /\ \A i, j \in 1 .. Len(s) : s[i] = s[j] => i = j
         /\ \A i \in 1 .. Len(s) : f[s[i]] = IF i = Len(s) THEN s[1] ELSE s[i + 1]
         /\ s # <<>> => Len(s) > 0 /\ Last(s) = s[Len(s)]
  <1>1. /\ Len(s) \in Nat /\ ToSet(s) = {s[i] : i \in 1 .. Len(s)} /\ DOMAIN s = 1 .. Len(s)
        /\ s # <<>> => Len(s) > 0 /\ Last(s) = s[Len(s)]
    BY LastOf, ElementsOf
  <1>2. /\ \A i, j \in 1 .. Len(s) : s[i] = s[j] => i = j
        /\ \A i \in 1 .. Len(s) : f[s[i]] = IF i = Len(s) THEN s[1] ELSE s[i + 1]
    BY <1>1 DEF Circle, IsInjective
  <1>3. QED BY <1>1, <1>2

\* Links of other elements do not matter.
LEMMA CircleSame ==
  ASSUME NEW S, NEW s \in Seq(S), NEW f, NEW g, Circle(f, s),
         \A x \in ToSet(s) : g[x] = f[x]
  PROVE  Circle(g, s)
  BY ElementsOf DEF Circle

\* From the last to the first, and never out of the ring.
LEMMA CircleLinks ==
  ASSUME NEW S, NEW s \in Seq(S), s # <<>>, NEW f, Circle(f, s)
  PROVE  /\ f[Last(s)] = s[1] /\ Last(s) \in ToSet(s) /\ Head(s) = s[1] /\ s[1] \in ToSet(s)
         /\ \A x \in ToSet(s) : f[x] \in ToSet(s)
         /\ \A x, y \in ToSet(s) : f[x] = f[y] => x = y
  <1> DEFINE n == Len(s)
  <1>1. n \in Nat /\ n > 0 /\ Last(s) = s[n] /\ ToSet(s) = {s[i] : i \in 1 .. n}
    BY CircleAt
  <1>2. /\ \A i, j \in 1 .. n : s[i] = s[j] => i = j
        /\ \A i \in 1 .. n : f[s[i]] = IF i = n THEN s[1] ELSE s[i + 1]
    BY CircleAt
  <1> HIDE DEF n
  <1>3. f[s[n]] = s[1] /\ s[n] \in ToSet(s) /\ s[1] \in ToSet(s)
    BY <1>1, <1>2
  <1>4. ASSUME NEW x \in ToSet(s) PROVE f[x] \in ToSet(s)
    <2>1. PICK i \in 1 .. n : x = s[i]
      BY <1>1
    <2>2. CASE i = n
      BY <2>1, <2>2, <1>3
    <2>3. CASE i # n
      <3>1. i + 1 \in 1 .. n /\ f[x] = s[i + 1]
        BY <2>1, <2>3, <1>1, <1>2
      <3>2. QED BY <3>1, <1>1
    <2>4. QED BY <2>2, <2>3
  <1>5. ASSUME NEW x \in ToSet(s), NEW y \in ToSet(s), f[x] = f[y] PROVE x = y
    <2>1. PICK i \in 1 .. n : x = s[i]
      BY <1>1
    <2>2. PICK j \in 1 .. n : y = s[j]
      BY <1>1
    <2>3. (IF i = n THEN 1 ELSE i + 1) \in 1 .. n /\ (IF j = n THEN 1 ELSE j + 1) \in 1 .. n
      BY <1>1
    <2>4. /\ f[x] = s[IF i = n THEN 1 ELSE i + 1]
          /\ f[y] = s[IF j = n THEN 1 ELSE j + 1]
      BY <2>1, <2>2, <1>2
    <2>5. (IF i = n THEN 1 ELSE i + 1) = (IF j = n THEN 1 ELSE j + 1)
      BY <2>3, <2>4, <1>2, <1>5
    <2>6. i = j
      BY <2>5, <1>1
    <2>7. QED BY <2>1, <2>2, <2>6
  <1>6. QED BY <1>1, <1>3, <1>4, <1>5

\* clist_enqueue and clist_push on an empty list.
LEMMA CircleOne ==
  ASSUME NEW f, NEW e, f[e] = e
  PROVE  Circle(f, <<e>>)
  BY DEF Circle, IsInjective

\* clist_enqueue and clist_push: the element goes between the last and the
\* first; it is the last or the first as the list pointer says.
LEMMA CircleAdd ==
  ASSUME NEW S, NEW s \in Seq(S), s # <<>>, NEW e \in S, e \notin ToSet(s),
         NEW f, NEW g, Circle(f, s), g[e] = f[Last(s)], g[Last(s)] = e,
         \A x \in ToSet(s) : x # Last(s) => g[x] = f[x]
  PROVE  Circle(g, Append(s, e)) /\ Circle(g, <<e>> \o s)
  <1> DEFINE n == Len(s)
             t == Append(s, e)
             u == <<e>> \o s
  <1>1. n \in Nat /\ n > 0 /\ Last(s) = s[n] /\ ToSet(s) = {s[i] : i \in 1 .. n}
    BY CircleAt
  <1>2. /\ \A i, j \in 1 .. n : s[i] = s[j] => i = j
        /\ \A i \in 1 .. n : f[s[i]] = IF i = n THEN s[1] ELSE s[i + 1]
    BY CircleAt
  <1>5. t \in Seq(S) /\ Len(t) = n + 1 /\ (\A i \in 1 .. n : t[i] = s[i]) /\ t[n + 1] = e
    BY AppendProperties
  <1>6. Len(u) = n + 1 /\ u[1] = e /\ \A i \in 2 .. n + 1 : u[i] = s[i - 1]
    <2>1. <<e>> \in Seq(S) /\ Len(<<e>>) = 1 /\ <<e>>[1] = e
      OBVIOUS
    <2>2. /\ Len(u) = 1 + n
          /\ \A i \in 1 .. 1 + n : u[i] = IF i <= 1 THEN <<e>>[i] ELSE s[i - 1]
      BY <2>1, ConcatProperties
    <2>3. QED BY <2>1, <2>2, <1>1
  <1>7. IsInjective(t)
    BY AppendElements DEF Circle
  <1>8. IsInjective(u)
    <2>1. IsInjective(<<e>>) /\ <<e>> \in Seq(S) /\ ToSet(<<e>>) = {e}
      BY DEF IsInjective, ToSet
    <2>2. QED BY <2>1, ConcatElements DEF Circle
  <1> HIDE DEF n, t, u
  <1>3. g[e] = s[1] /\ g[s[n]] = e
    BY <1>1, <1>2
  <1>4. \A i \in 1 .. n : i # n => g[s[i]] = s[i + 1]
    BY <1>1, <1>2
  <1>9. ASSUME NEW i \in 1 .. n + 1 PROVE g[t[i]] = IF i = n + 1 THEN t[1] ELSE t[i + 1]
    <2>1. CASE i = n + 1
      BY <2>1, <1>1, <1>3, <1>5
    <2>2. CASE i = n
      BY <2>2, <1>1, <1>3, <1>5
    <2>3. CASE i \in 1 .. n /\ i # n
      <3>1. i + 1 \in 1 .. n
        BY <2>3, <1>1
      <3>2. QED BY <2>3, <3>1, <1>1, <1>4, <1>5
    <2>4. QED BY <2>1, <2>2, <2>3, <1>1
  <1>10. ASSUME NEW i \in 1 .. n + 1 PROVE g[u[i]] = IF i = n + 1 THEN u[1] ELSE u[i + 1]
    <2>1. CASE i = 1
      <3>1. u[2] = s[1] /\ i # n + 1
        BY <2>1, <1>1, <1>6
      <3>2. QED BY <2>1, <3>1, <1>3, <1>6
    <2>2. CASE i = n + 1
      BY <2>2, <1>1, <1>3, <1>6
    <2>3. CASE i \in 2 .. n
      <3>1. i - 1 \in 1 .. n /\ i - 1 # n /\ (i - 1) + 1 = i /\ i + 1 \in 2 .. n + 1 /\ (i + 1) - 1 = i
        BY <2>3, <1>1
      <3>2. g[s[i - 1]] = s[i] /\ u[i] = s[i - 1] /\ u[i + 1] = s[i]
        BY <2>3, <3>1, <1>1, <1>4, <1>6
      <3>3. QED BY <2>3, <3>1, <3>2
    <2>4. QED BY <2>1, <2>2, <2>3, <1>1
  <1>11. Circle(g, t)
    BY <1>5, <1>7, <1>9 DEF Circle
  <1>12. Circle(g, u)
    BY <1>6, <1>8, <1>10 DEF Circle
  <1>13. QED BY <1>11, <1>12 DEF t, u

\* clist_dequeue and the removals: the predecessor p of an element gets its link.
LEMMA CircleRemove ==
  ASSUME NEW S, NEW s \in Seq(S), Len(s) > 1, NEW i \in 1 .. Len(s),
         NEW f, NEW g, Circle(f, s), NEW p \in ToSet(s), f[p] = s[i], g[p] = f[s[i]],
         \A x \in ToSet(s) : x \notin {p, s[i]} => g[x] = f[x]
  PROVE  /\ Circle(g, RemoveAt(s, i))
         /\ p # s[i]
         /\ p = IF i = 1 THEN Last(s) ELSE s[i - 1]
  <1> DEFINE n == Len(s)
             t == RemoveAt(s, i)
  <1>1. n \in Nat /\ n > 1 /\ Last(s) = s[n] /\ ToSet(s) = {s[j] : j \in 1 .. n}
    BY CircleAt, EmptySeq
  <1>2. /\ \A j, k \in 1 .. n : s[j] = s[k] => j = k
        /\ \A j \in 1 .. n : f[s[j]] = IF j = n THEN s[1] ELSE s[j + 1]
    BY CircleAt
  <1>3. /\ Len(t) = n - 1
        /\ \A j \in 1 .. n - 1 : t[j] = IF j < i THEN s[j] ELSE s[j + 1]
        /\ IsInjective(t)
    BY RemovePoints, RemoveElements DEF Circle
  <1>0. i \in 1 .. n
    OBVIOUS
  <1> HIDE DEF n, t
  <1>4. PICK q \in 1 .. n : p = s[q]
    BY <1>1
  <1>5. i = IF q = n THEN 1 ELSE q + 1
    <2>1. (IF q = n THEN 1 ELSE q + 1) \in 1 .. n
      BY <1>1
    <2>2. f[p] = s[IF q = n THEN 1 ELSE q + 1]
      BY <1>2, <1>4
    <2>3. QED BY <2>1, <2>2, <1>0, <1>2
  <1>6. \A j \in 1 .. n : j # q /\ j # i => g[s[j]] = IF j = n THEN s[1] ELSE s[j + 1]
    <2>1. \A j \in 1 .. n : j # q /\ j # i => s[j] \notin {p, s[i]} /\ s[j] \in ToSet(s)
      BY <1>0, <1>1, <1>2, <1>4
    <2>2. QED BY <2>1, <1>2
  <1>7. g[s[q]] = IF i = n THEN s[1] ELSE s[i + 1]
    BY <1>0, <1>2, <1>4
  <1>8. ASSUME NEW j \in 1 .. n - 1 PROVE g[t[j]] = IF j = n - 1 THEN t[1] ELSE t[j + 1]
    <2>1. CASE j < i
      <3>1. t[j] = s[j]
        BY <2>1, <1>3
      <3>2. t[1] = s[1]
        BY <2>1, <1>1, <1>3
      <3>3. CASE j = q
        <4>1. i = j + 1 /\ j # n
          BY <3>3, <1>1, <1>5
        <4>2. CASE j = n - 1
          BY <4>1, <4>2, <3>1, <3>2, <3>3, <1>1, <1>7
        <4>3. CASE j # n - 1
          <5>1. j + 1 \in 1 .. n - 1 /\ ~(j + 1 < i) /\ i # n /\ (j + 1) + 1 = i + 1
            BY <4>1, <4>3, <1>1
          <5>2. t[j + 1] = s[i + 1]
            BY <5>1, <1>3
          <5>3. QED BY <5>1, <5>2, <4>3, <3>1, <3>3, <1>7
        <4>4. QED BY <4>2, <4>3
      <3>4. CASE j # q
        <4>1. j \in 1 .. n /\ j # i /\ j # n
          BY <2>1, <1>1
        <4>2. g[s[j]] = s[j + 1]
          BY <3>4, <4>1, <1>6
        <4>3. j + 1 < i
          BY <2>1, <3>4, <4>1, <1>1, <1>5
        <4>4. j # n - 1 /\ j + 1 \in 1 .. n - 1
          BY <4>3, <1>0, <1>1
        <4>5. t[j + 1] = s[j + 1]
          BY <4>3, <4>4, <1>3
        <4>6. QED BY <4>2, <4>4, <4>5, <3>1
      <3>5. QED BY <3>3, <3>4
    <2>2. CASE ~(j < i)
      <3>1. t[j] = s[j + 1] /\ j + 1 \in 1 .. n /\ j + 1 # i
        BY <2>2, <1>1, <1>3
      <3>2. t[1] = IF i = 1 THEN s[2] ELSE s[1]
        BY <1>1, <1>3
      <3>3. CASE j + 1 = q
        <4>1. q = n /\ i = 1 /\ j = n - 1
          BY <3>3, <2>2, <1>1, <1>5
        <4>2. i # n /\ i + 1 = 2
          BY <4>1, <1>1
        <4>3. g[s[q]] = s[2]
          BY <4>2, <1>7
        <4>4. QED BY <4>1, <4>3, <3>1, <3>2, <3>3
      <3>4. CASE j + 1 # q
        <4>1. g[s[j + 1]] = IF j + 1 = n THEN s[1] ELSE s[(j + 1) + 1]
          BY <3>1, <3>4, <1>6
        <4>2. CASE j + 1 = n
          <5>1. j = n - 1 /\ i # 1
            BY <4>2, <3>4, <1>1, <1>5
          <5>2. QED BY <4>1, <4>2, <5>1, <3>1, <3>2
        <4>3. CASE j + 1 # n
          <5>1. j # n - 1 /\ j + 1 \in 1 .. n - 1 /\ ~(j + 1 < i)
            BY <4>3, <2>2, <1>1
          <5>2. t[j + 1] = s[(j + 1) + 1]
            BY <5>1, <1>3
          <5>3. QED BY <4>1, <4>3, <5>1, <5>2, <3>1
        <4>4. QED BY <4>2, <4>3
      <3>5. QED BY <3>3, <3>4
    <2>3. QED BY <2>1, <2>2
  <1>9. Circle(g, t)
    BY <1>3, <1>8 DEF Circle
  <1>10. q # i /\ q = IF i = 1 THEN n ELSE i - 1
    BY <1>1, <1>5
  <1>11. p # s[i] /\ p = IF i = 1 THEN s[n] ELSE s[i - 1]
    BY <1>0, <1>2, <1>4, <1>10
  <1>12. QED BY <1>1, <1>9, <1>11 DEF t

\* foreach_add: between two neighbours.
LEMMA CircleInsert ==
  ASSUME NEW S, NEW s \in Seq(S), NEW i \in 2 .. Len(s), NEW e \in S, e \notin ToSet(s),
         NEW f, NEW g, Circle(f, s), g[e] = s[i], g[s[i - 1]] = e,
         \A x \in ToSet(s) : x # s[i - 1] => g[x] = f[x]
  PROVE  Circle(g, InsertAt(s, i, e))
  <1> DEFINE n == Len(s)
             t == InsertAt(s, i, e)
             p == s[i - 1]
  <1>1. n \in Nat /\ n > 0 /\ ToSet(s) = {s[j] : j \in 1 .. n}
    BY CircleAt
  <1>2. /\ \A j, k \in 1 .. n : s[j] = s[k] => j = k
        /\ \A j \in 1 .. n : f[s[j]] = IF j = n THEN s[1] ELSE s[j + 1]
    BY CircleAt
  <1>3. i \in 2 .. n /\ i \in 1 .. Len(s) /\ i - 1 \in 1 .. n
    BY <1>1
  <1>4. /\ Len(t) = n + 1
        /\ \A j \in 1 .. n + 1 : t[j] = IF j < i THEN s[j] ELSE IF j = i THEN e ELSE s[j - 1]
    BY <1>3, InsertPoints
  <1>5. IsInjective(t)
    BY <1>3, InsertPoints DEF Circle
  <1> HIDE DEF n, t
  <1>6. \A j \in 1 .. n : j # i - 1 => g[s[j]] = IF j = n THEN s[1] ELSE s[j + 1]
    <2>1. \A j \in 1 .. n : j # i - 1 => s[j] # s[i - 1] /\ s[j] \in ToSet(s)
      BY <1>1, <1>2, <1>3
    <2>2. QED BY <2>1, <1>2
  <1>7. t[1] = s[1]
    BY <1>1, <1>3, <1>4
  <1>8. ASSUME NEW j \in 1 .. n + 1 PROVE g[t[j]] = IF j = n + 1 THEN t[1] ELSE t[j + 1]
    <2>1. CASE j < i - 1
      <3>1. j \in 1 .. n /\ j # n /\ j # i - 1 /\ j < i /\ j + 1 < i /\ j + 1 \in 1 .. n + 1 /\ j # n + 1
        BY <2>1, <1>1, <1>3
      <3>2. t[j] = s[j] /\ t[j + 1] = s[j + 1] /\ g[s[j]] = s[j + 1]
        BY <3>1, <1>4, <1>6
      <3>3. QED BY <3>1, <3>2
    <2>2. CASE j = i - 1
      <3>1. j + 1 = i /\ j # n + 1 /\ j < i /\ i \in 1 .. n + 1
        BY <2>2, <1>1, <1>3
      <3>2. t[j] = s[i - 1] /\ t[j + 1] = e
        BY <2>2, <3>1, <1>3, <1>4
      <3>3. QED BY <3>1, <3>2
    <2>3. CASE j = i
      <3>1. j # n + 1 /\ j + 1 \in 1 .. n + 1 /\ ~(j + 1 < i) /\ j + 1 # i /\ (j + 1) - 1 = i
        BY <2>3, <1>1, <1>3
      <3>2. t[j] = e /\ t[j + 1] = s[i]
        BY <2>3, <3>1, <1>3, <1>4
      <3>3. QED BY <3>1, <3>2
    <2>4. CASE j > i
      <3>1. j - 1 \in 1 .. n /\ j - 1 # i - 1 /\ ~(j < i) /\ j # i /\ (j - 1) + 1 = j
        BY <2>4, <1>1, <1>3
      <3>2. t[j] = s[j - 1]
        BY <3>1, <1>4
      <3>3. g[s[j - 1]] = IF j - 1 = n THEN s[1] ELSE s[j]
        BY <3>1, <1>6
      <3>4. CASE j = n + 1
        BY <3>2, <3>3, <3>4, <1>1, <1>7
      <3>5. CASE j # n + 1
        <4>1. j - 1 # n /\ j + 1 \in 1 .. n + 1 /\ ~(j + 1 < i) /\ j + 1 # i /\ (j + 1) - 1 = j
          BY <3>5, <2>4, <1>1, <1>3
        <4>2. t[j + 1] = s[j]
          BY <4>1, <1>4
        <4>3. QED BY <3>2, <3>3, <3>5, <4>1, <4>2
      <3>6. QED BY <3>4, <3>5
    <2>5. QED BY <2>1, <2>2, <2>3, <2>4, <1>1, <1>3
  <1>9. Circle(g, t)
    BY <1>4, <1>5, <1>8 DEF Circle
  <1>10. QED BY <1>9 DEF t

-----------------------------------------------------------------------------
(* Walking along a ring *)

WalkFrom(f, first, n, w) == w = [k \in 0 .. n |-> IF k = 0 THEN first ELSE f[w[k - 1]]]

\* There is a walk of any length (induction, as a least counterexample).
LEMMA WalkExists ==
  ASSUME NEW f, NEW first, NEW n \in Nat
  PROVE  \E w : WalkFrom(f, first, n, w)
  <1> DEFINE Stuck == {k \in Nat : ~\E w : WalkFrom(f, first, k, w)}
  <1>1. SUFFICES ASSUME Stuck # {} PROVE FALSE
    OBVIOUS
  <1>2. PICK k \in Stuck : \A j \in Stuck : k <= j
    <2>1. Stuck \in SUBSET Nat
      OBVIOUS
    <2> HIDE DEF Stuck
    <2>2. QED BY <2>1, <1>1, LeastElement
  <1>3. CASE k = 0
    <2>1. WalkFrom(f, first, 0, [i \in 0 .. 0 |-> first])
      BY DEF WalkFrom
    <2>2. QED BY <2>1, <1>2, <1>3
  <1>4. CASE k # 0
    <2>1. k - 1 \in Nat /\ ~(k <= k - 1) /\ k \in Nat /\ (k - 1) + 1 = k
      BY <1>2, <1>4
    <2>2. k - 1 \notin Stuck
      BY <2>1, <1>2
    <2>3. PICK w : WalkFrom(f, first, k - 1, w)
      BY <2>1, <2>2
    <2> DEFINE v == [i \in 0 .. k |-> IF i = k THEN f[w[k - 1]] ELSE w[i]]
    <2>4. ASSUME NEW i \in 0 .. k PROVE v[i] = IF i = 0 THEN first ELSE f[v[i - 1]]
      <3>1. CASE i = k
        <4>1. k - 1 \in 0 .. k /\ k - 1 # k
          BY <2>1
        <4>2. QED BY <4>1, <3>1, <1>4
      <3>2. CASE i # k
        <4>1. i \in 0 .. k - 1 /\ (i # 0 => i - 1 \in 0 .. k /\ i - 1 # k /\ i - 1 \in 0 .. k - 1)
          BY <3>2, <2>1
        <4>2. w[i] = IF i = 0 THEN first ELSE f[w[i - 1]]
          BY <4>1, <2>3 DEF WalkFrom
        <4>3. QED BY <3>2, <4>1, <4>2
      <3>3. QED BY <3>1, <3>2
    <2>5. v = [i \in 0 .. k |-> IF i = 0 THEN first ELSE f[v[i - 1]]]
      BY <2>4
    <2> HIDE DEF v
    <2>6. WalkFrom(f, first, k, v)
      BY <2>5 DEF WalkFrom
    <2>7. QED BY <2>6, <1>2
  <1>5. QED BY <1>3, <1>4

\* Along a ring it visits the elements in the order of the sequence, and
\* never leaves.
LEMMA WalkVisits ==
  ASSUME NEW S, NEW s \in Seq(S), s # <<>>, NEW f, Circle(f, s),
         NEW n \in Nat, NEW w, WalkFrom(f, f[Last(s)], n, w), Len(s) - 1 <= n
  PROVE  /\ \A k \in 0 .. Len(s) - 1 : w[k] = s[k + 1]
         /\ Range(w) = ToSet(s)
  <1> DEFINE L == Len(s)
             Lost == {k \in Nat : k <= n /\ ~(w[k] \in ToSet(s) /\ (k < L => w[k] = s[k + 1]))}
  <1>1. L \in Nat /\ L > 0 /\ ToSet(s) = {s[j] : j \in 1 .. L} /\ L - 1 <= n
    BY CircleAt
  <1>2. /\ \A j \in 1 .. L : f[s[j]] = IF j = L THEN s[1] ELSE s[j + 1]
    BY CircleAt
  <1>3. f[Last(s)] = s[1] /\ s[1] \in ToSet(s) /\ \A x \in ToSet(s) : f[x] \in ToSet(s)
    BY CircleLinks
  <1>4. /\ \A k \in 0 .. n : w[k] = IF k = 0 THEN s[1] ELSE f[w[k - 1]]
        /\ DOMAIN w = 0 .. n
    BY <1>3 DEF WalkFrom
  <1> HIDE DEF L
  <1>5. Lost = {}
    <2>1. SUFFICES ASSUME Lost # {} PROVE FALSE
      OBVIOUS
    <2>2. Lost \in SUBSET Nat
      OBVIOUS
    <2>3. PICK k \in Lost : \A j \in Lost : k <= j
      <3> HIDE DEF Lost
      <3>1. QED BY <2>1, <2>2, LeastElement
    <2>4. k \in 0 .. n /\ k \in Nat /\ ~(w[k] \in ToSet(s) /\ (k < L => w[k] = s[k + 1]))
      BY <2>3
    <2>5. CASE k = 0
      BY <2>4, <2>5, <1>3, <1>4
    <2>6. CASE k # 0
      <3>1. k - 1 \in Nat /\ k - 1 <= n /\ ~(k <= k - 1) /\ (k - 1) + 1 = k /\ k - 1 \in 0 .. n
        BY <2>4, <2>6
      <3>2. k - 1 \notin Lost
        BY <2>3, <3>1
      <3>3. w[k - 1] \in ToSet(s) /\ (k - 1 < L => w[k - 1] = s[k])
        BY <3>1, <3>2
      <3>4. w[k] = f[w[k - 1]]
        BY <2>4, <2>6, <1>4
      <3>5. k < L => w[k] = s[k + 1]
        <4>1. k < L => k - 1 < L /\ k \in 1 .. L /\ k # L
          BY <2>4, <2>6, <1>1
        <4>2. QED BY <4>1, <3>3, <3>4, <1>2
      <3>6. QED BY <2>4, <3>3, <3>4, <3>5, <1>3
    <2>7. QED BY <2>5, <2>6
  <1>6. \A k \in 0 .. n : w[k] \in ToSet(s) /\ (k < L => w[k] = s[k + 1])
    BY <1>5
  <1>7. \A k \in 0 .. L - 1 : w[k] = s[k + 1] /\ k \in 0 .. n
    BY <1>1, <1>6
  <1>8. Range(w) = ToSet(s)
    <2>1. Range(w) \subseteq ToSet(s)
      BY <1>4, <1>6 DEF Range
    <2>2. ASSUME NEW x \in ToSet(s) PROVE x \in Range(w)
      <3>1. PICK j \in 1 .. L : x = s[j]
        BY <1>1
      <3>2. j - 1 \in 0 .. L - 1 /\ (j - 1) + 1 = j
        BY <1>1
      <3>3. QED BY <3>1, <3>2, <1>4, <1>7 DEF Range
    <2>3. QED BY <2>1, <2>2
  <1>9. QED BY <1>7, <1>8 DEF L
=============================================================================
