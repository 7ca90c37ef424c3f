------------------------------ MODULE ClistProofs ------------------------------
(***************************************************************************)
(* Proofs about Clist, for every number of elements and every set of lists: *)
(* the links of each list form a ring of its own, closed at the element the *)
(* list pointer names, and the macros do to the sequences these rings stand *)
(* for what ListSpec says of enqueue, push, dequeue, removal and insertion. *)
(*                                                                         *)
(* CInv says which sequence each ring is, with no element twice, and for a  *)
(* loop in progress where in the sequence its scan and tmp are and what the *)
(* elements behind them have been found not to be: the answer "missing" and *)
(* the place of an insertion rest on it.                                    *)
(***************************************************************************)
EXTENDS Clist, QueueLemmas

\* A list pointer t, with links f, stands for the sequence s.
Chain(f, t, s) ==
  /\ s \in Seq(Elem)
  /\ Circle(f, s)
  /\ t = IF s = <<>> THEN NULL ELSE Last(s)

\* The link fields and the list pointers stand for the sequences q.
Shape(f, t, q) ==
  /\ f \in [Elem -> Elem \cup {NULL}]
  /\ t \in [List -> Elem \cup {NULL}]
  /\ q \in [List -> Seq(Elem)]
  /\ \A l \in List : Chain(f, t[l], q[l])
  /\ \A l, m \in List : l # m => ToSet(q[l]) \cap ToSet(q[m]) = {}

Queue == [l \in List |-> Content(l)]

LoopType ==
  \/ loop = Idle
  \/ loop \in [op : {"delete"}, elem : Elem, list : List, scan : Elem \cup {NULL},
               tmp : Elem \cup {NULL}, retval : {"found", "missing"}]
  \/ loop \in [op : {"out", "insert"}, elem : Elem, list : List, scan : Elem \cup {NULL},
               tmp : Elem \cup {NULL}]

\* The k-th element of s, or again the first behind the last.
Around(s, k) == IF k > Len(s) THEN s[1] ELSE s[k]

\* clist_delete has looked at the first k elements of s.
DeleteAt(s, k) ==
  /\ loop.scan = Around(s, k)
  /\ loop.tmp = IF k = 1 THEN NULL ELSE s[1]
  /\ \A j \in 1 .. Len(s) : j <= k => s[j] # loop.elem

DeleteInv ==
  loop.op = "delete" =>
    /\ Queue[loop.list] # <<>>
    /\ \E k \in 1 .. Len(Queue[loop.list]) + 1 : DeleteAt(Queue[loop.list], k)
    /\ loop.retval = "found" => answer = "found"

\* clist_foreach has gone past k - 1 elements of s.
ForeachAt(s, k) ==
  /\ loop.scan = Around(s, k)
  /\ loop.tmp = IF k = 1 THEN NULL ELSE s[k - 1]
  /\ \A j \in 1 .. Len(s) :
       j < k => /\ loop.op = "out" => s[j] # loop.elem
                /\ loop.op = "insert" => s[j] < loop.elem

ForeachInv ==
  loop.op \in {"out", "insert"} =>
    /\ Queue[loop.list] = <<>> => loop.scan = NULL /\ loop.tmp = NULL
    /\ Queue[loop.list] # <<>> =>
         \E k \in 1 .. Len(Queue[loop.list]) + 1 : ForeachAt(Queue[loop.list], k)
    /\ loop.op = "insert" => \A l \in List : loop.elem \notin ToSet(Queue[l])

CInv ==
  /\ Shape(next, tail, Queue)
  /\ answer \in {"found", "missing"}
  /\ LoopType
  /\ DeleteInv
  /\ ForeachInv

-----------------------------------------------------------------------------
(* From the links to the sequences *)

WalkOf(f, t) == LET w[k \in 0 .. N] == IF k = 0 THEN f[t] ELSE f[w[k - 1]] IN w

RingOf(f, t) == IF t = NULL THEN {} ELSE Range(WalkOf(f, t))

ContentOf(f, t) ==
  IF t = NULL THEN <<>>
  ELSE LET walk == WalkOf(f, t)
           last == CHOOSE k \in 0 .. N :
                     /\ walk[k] = t
                     /\ \A j \in 0 .. k - 1 : walk[j] # t
       IN [i \in 1 .. last + 1 |-> walk[i - 1]]

LEMMA SizeOf == N \in Nat /\ N > 0 /\ NULL \notin Elem
  BY ClistAssumption DEF Elem

\* No sequence of distinct elements is longer than the static array.
LEMMA AtMostN ==
  ASSUME NEW s \in Seq(Elem), IsInjective(s)
  PROVE  Len(s) \in Nat /\ Len(s) <= N
  <1>1. Len(s) = Cardinality(ToSet(s)) /\ ToSet(s) \subseteq Elem /\ Len(s) \in Nat
    BY DistinctLength, ElementsOf, LenProperties
  <1>2. IsFiniteSet(Elem) /\ Cardinality(Elem) = N
    BY SizeOf, FS_Interval DEF Elem
  <1>3. Cardinality(ToSet(s)) <= Cardinality(Elem)
    BY <1>1, <1>2, FS_Subset
  <1>4. QED BY <1>1, <1>2, <1>3

\* The walk along a ring gives the sequence back.
LEMMA Represents ==
  ASSUME NEW f, NEW t, NEW s, Chain(f, t, s)
  PROVE  ContentOf(f, t) = s /\ RingOf(f, t) = ToSet(s)
  <1>1. s \in Seq(Elem) /\ Circle(f, s)
    BY DEF Chain
  <1>2. CASE s = <<>>
    BY <1>1, <1>2, ElementsOf DEF Chain, ContentOf, RingOf
  <1>3. CASE s # <<>>
    <2> DEFINE L == Len(s)
               w == WalkOf(f, t)
    <2>1. /\ L \in Nat /\ L > 0 /\ L <= N /\ N \in Nat /\ t = s[L] /\ t = Last(s)
          /\ \A i \in 1 .. L : s[i] \in Elem
          /\ s = [i \in 1 .. L |-> s[i]]
      <3>1. IsInjective(s) /\ t = Last(s)
        BY <1>1, <1>3 DEF Chain, Circle
      <3>2. QED BY <1>1, <1>3, <3>1, AtMostN, LastOf, SizeOf, LenProperties
    <2>2. t # NULL
      <3>1. L \in 1 .. L
        BY <2>1
      <3>2. QED BY <2>1, <3>1, SizeOf
    <2>3. WalkFrom(f, f[t], N, w)
      <3>1. PICK v : WalkFrom(f, f[t], N, v)
        BY <2>1, WalkExists
      <3>2. \E u : u = [k \in 0 .. N |-> IF k = 0 THEN f[t] ELSE f[u[k - 1]]]
        BY <3>1 DEF WalkFrom
      <3>3. w = [k \in 0 .. N |-> IF k = 0 THEN f[t] ELSE f[w[k - 1]]]
        BY <3>2, Zenon DEF WalkOf
      <3>4. QED BY <3>3 DEF WalkFrom
    <2> HIDE DEF w
    <2>4. /\ \A k \in 0 .. L - 1 : w[k] = s[k + 1]
          /\ Range(w) = ToSet(s)
      BY <1>1, <1>3, <2>1, <2>3, WalkVisits
    <2>5. \A i, j \in 1 .. L : s[i] = s[j] => i = j
      BY <1>1, CircleAt
    <2> HIDE DEF L
    <2> DEFINE P(k) == w[k] = t /\ \A j \in 0 .. k - 1 : w[j] # t
    <2>6. ASSUME NEW k \in 0 .. N PROVE P(k) <=> k = L - 1
      <3>1. L - 1 \in 0 .. L - 1 /\ (L - 1) + 1 = L /\ L \in 1 .. L
        BY <2>1
      <3>2. w[L - 1] = t
        BY <2>1, <2>4, <3>1
      <3>3. ASSUME NEW j \in 0 .. L - 1, j # L - 1 PROVE w[j] # t
        <4>1. j + 1 \in 1 .. L /\ j + 1 # L
          BY <2>1, <3>3
        <4>2. QED BY <2>1, <2>4, <2>5, <3>1, <4>1
      <3>4. k < L - 1 => w[k] # t
        BY <2>1, <3>3
      <3>5. k > L - 1 => L - 1 \in 0 .. k - 1
        BY <2>1
      <3>6. k = L - 1 => \A j \in 0 .. k - 1 : j \in 0 .. L - 1 /\ j # L - 1
        BY <2>1
      <3>7. k < L - 1 \/ k = L - 1 \/ k > L - 1
        BY <2>1
      <3>8. QED BY <3>2, <3>3, <3>4, <3>5, <3>6, <3>7, Zenon
    <2>7. (CHOOSE k \in 0 .. N : P(k)) = L - 1
      <3>1. L - 1 \in 0 .. N
        BY <2>1
      <3> HIDE DEF P
      <3>2. QED BY <2>6, <3>1
    <2>8. ContentOf(f, t) = [i \in 1 .. (CHOOSE k \in 0 .. N : P(k)) + 1 |-> w[i - 1]]
      BY <2>2 DEF ContentOf, w
    <2>9. [i \in 1 .. (L - 1) + 1 |-> w[i - 1]] = s
      <3>1. (L - 1) + 1 = L
        BY <2>1
      <3>2. \A i \in 1 .. L : w[i - 1] = s[i]
        <4>1. \A i \in 1 .. L : i - 1 \in 0 .. L - 1 /\ (i - 1) + 1 = i
          BY <2>1
        <4>2. QED BY <2>4, <4>1
      <3>3. QED BY <2>1, <3>1, <3>2
    <2>10. QED BY <2>2, <2>4, <2>7, <2>8, <2>9 DEF RingOf, w
  <1>4. QED BY <1>2, <1>3

\* The sequences are those of the links, now ...
LEMMA QueueNow ==
  ASSUME NEW q, Shape(next, tail, q)
  PROVE  /\ Queue = q
         /\ \A l \in List : Content(l) = q[l] /\ Ring(l) = ToSet(q[l])
  <1>1. ASSUME NEW l \in List PROVE Content(l) = q[l] /\ Ring(l) = ToSet(q[l])
    <2>1. Chain(next, tail[l], q[l])
      BY DEF Shape
    <2>2. ContentOf(next, tail[l]) = q[l] /\ RingOf(next, tail[l]) = ToSet(q[l])
      BY <2>1, Represents
    <2>3. QED BY <2>2 DEF ContentOf, RingOf, WalkOf, Content, Ring, Walk, First
  <1>2. q = [l \in List |-> q[l]]
    BY DEF Shape
  <1>3. Queue = q
    BY <1>1, <1>2 DEF Queue
  <1>4. QED BY <1>1, <1>3

\* ... and after a step.
LEMMA QueueThen ==
  ASSUME NEW q, Shape(next', tail', q)
  PROVE  /\ Queue' = q
         /\ \A l \in List : Content(l)' = q[l] /\ Ring(l)' = ToSet(q[l])
  <1>1. ASSUME NEW l \in List PROVE Content(l)' = q[l] /\ Ring(l)' = ToSet(q[l])
    <2>1. Chain(next', tail'[l], q[l])
      BY DEF Shape
    <2>2. ContentOf(next', tail'[l]) = q[l] /\ RingOf(next', tail'[l]) = ToSet(q[l])
      BY <2>1, Represents
    <2>3. QED BY <2>2 DEF ContentOf, RingOf, WalkOf, Content, Ring, Walk, First
  <1>2. q = [l \in List |-> q[l]]
    BY DEF Shape
  <1>3. Queue' = q
    BY <1>1, <1>2 DEF Queue
  <1>4. QED BY <1>1, <1>3

\* What a list looks like.
LEMMA ChainAt ==
  ASSUME NEW q, NEW f, NEW t, Shape(f, t, q), NEW l \in List
  PROVE  /\ q[l] \in Seq(Elem) /\ Circle(f, q[l]) /\ IsInjective(q[l])
         /\ ToSet(q[l]) \subseteq Elem /\ Len(q[l]) \in Nat
         /\ t[l] = NULL <=> q[l] = <<>>
         /\ q[l] # <<>> => /\ t[l] = Last(q[l]) /\ t[l] \in Elem /\ t[l] \in ToSet(q[l])
                           /\ f[t[l]] = q[l][1] /\ q[l][1] \in ToSet(q[l]) /\ Head(q[l]) = q[l][1]
                           /\ Len(q[l]) > 0 /\ t[l] = q[l][Len(q[l])]
  <1>1. /\ q[l] \in Seq(Elem) /\ Circle(f, q[l]) /\ IsInjective(q[l])
        /\ t[l] = IF q[l] = <<>> THEN NULL ELSE Last(q[l])
    BY DEF Shape, Chain, Circle
  <1>2. ToSet(q[l]) \subseteq Elem /\ Len(q[l]) \in Nat
    BY <1>1, ElementsOf, LenProperties
  <1>3. ASSUME q[l] # <<>>
        PROVE  /\ f[Last(q[l])] = q[l][1] /\ Last(q[l]) \in ToSet(q[l]) /\ Head(q[l]) = q[l][1]
               /\ q[l][1] \in ToSet(q[l]) /\ Len(q[l]) > 0 /\ Last(q[l]) = q[l][Len(q[l])]
    BY <1>1, <1>3, CircleLinks, CircleAt
  <1>4. QED BY <1>1, <1>2, <1>3, SizeOf

\* A macro changes one list; the links of the others stay.
LEMMA ShapeChange ==
  ASSUME NEW q, NEW f, NEW t, Shape(f, t, q), NEW l \in List, NEW s, NEW g, NEW u,
         g \in [Elem -> Elem \cup {NULL}], u \in [List -> Elem \cup {NULL}],
         Chain(g, u[l], s),
         \A m \in List \ {l} : /\ u[m] = t[m] /\ ToSet(s) \cap ToSet(q[m]) = {}
                               /\ \A x \in ToSet(q[m]) : g[x] = f[x]
  PROVE  Shape(g, u, [q EXCEPT ![l] = s])
  <1> DEFINE r == [q EXCEPT ![l] = s]
  <1>1. /\ q \in [List -> Seq(Elem)] /\ s \in Seq(Elem)
        /\ \A m \in List : Chain(f, t[m], q[m])
        /\ \A k, m \in List : k # m => ToSet(q[k]) \cap ToSet(q[m]) = {}
    BY DEF Shape, Chain
  <1>2. /\ r \in [List -> Seq(Elem)] /\ r[l] = s
        /\ \A m \in List \ {l} : r[m] = q[m]
    BY <1>1
  <1> HIDE DEF r
  <1>3. ASSUME NEW m \in List PROVE Chain(g, u[m], r[m])
    <2>1. CASE m = l
      BY <2>1, <1>2
    <2>2. CASE m # l
      <3>1. q[m] \in Seq(Elem) /\ Circle(f, q[m]) /\ u[m] = IF q[m] = <<>> THEN NULL ELSE Last(q[m])
        BY <1>1, <2>2 DEF Chain
      <3>2. Circle(g, q[m])
        BY <3>1, <2>2, CircleSame
      <3>3. QED BY <3>1, <3>2, <2>2, <1>2 DEF Chain
    <2>3. QED BY <2>1, <2>2
  <1>4. ASSUME NEW k \in List, NEW m \in List, k # m PROVE ToSet(r[k]) \cap ToSet(r[m]) = {}
    <2>1. CASE k = l
      BY <2>1, <1>2, <1>4
    <2>2. CASE m = l
      BY <2>2, <1>2, <1>4
    <2>3. CASE k # l /\ m # l
      BY <2>3, <1>1, <1>2, <1>4
    <2>4. QED BY <2>1, <2>2, <2>3
  <1>5. Shape(g, u, r)
    BY <1>2, <1>3, <1>4 DEF Shape
  <1>6. QED BY <1>5 DEF r

\* The link of an element on no list does not matter.
LEMMA ShapeFree ==
  ASSUME NEW q, NEW f, NEW t, Shape(f, t, q), NEW x \in Elem,
         \A m \in List : x \notin ToSet(q[m])
  PROVE  Shape([f EXCEPT ![x] = NULL], t, q)
  <1> DEFINE g == [f EXCEPT ![x] = NULL]
  <1>1. /\ g \in [Elem -> Elem \cup {NULL}]
        /\ \A y \in Elem \ {x} : g[y] = f[y]
    BY DEF Shape
  <1> HIDE DEF g
  <1>2. ASSUME NEW m \in List PROVE Chain(g, t[m], q[m])
    <2>1. q[m] \in Seq(Elem) /\ Circle(f, q[m]) /\ t[m] = IF q[m] = <<>> THEN NULL ELSE Last(q[m])
      BY DEF Shape, Chain
    <2>2. \A y \in ToSet(q[m]) : g[y] = f[y]
      BY <1>1, <2>1, ElementsOf
    <2>3. Circle(g, q[m])
      BY <2>1, <2>2, CircleSame
    <2>4. QED BY <2>1, <2>3 DEF Chain
  <1>3. Shape(g, t, q)
    BY <1>1, <1>2 DEF Shape
  <1>4. QED BY <1>3 DEF g

-----------------------------------------------------------------------------
(* The macros *)

\* clist_enqueue: at the end.
LEMMA EnqueueShape ==
  ASSUME NEW q, Shape(next, tail, q), NEW l \in List, NEW e \in Elem,
         \A m \in List : e \notin ToSet(q[m])
  PROVE  Shape(Enqueued(e, l).next, Enqueued(e, l).tail, [q EXCEPT ![l] = Append(q[l], e)])
  <1> DEFINE s == q[l]
             g == Enqueued(e, l).next
             u == Enqueued(e, l).tail
             c == Append(s, e)
  <1>1. /\ next \in [Elem -> Elem \cup {NULL}] /\ tail \in [List -> Elem \cup {NULL}]
        /\ \A m \in List \ {l} : ToSet(s) \cap ToSet(q[m]) = {}
        /\ \A m \in List \ {l} : ToSet(q[m]) \subseteq Elem
    BY ChainAt DEF Shape
  <1>2. /\ c \in Seq(Elem) /\ c # <<>> /\ Last(c) = e /\ ToSet(c) = ToSet(s) \cup {e}
    <2>1. s \in Seq(Elem)
      BY ChainAt
    <2>2. QED BY <2>1, AppendElements, PushOf
  <1>3. /\ g \in [Elem -> Elem \cup {NULL}] /\ u = [tail EXCEPT ![l] = e] /\ Circle(g, c)
        /\ \A x \in Elem : x # e /\ x \notin ToSet(s) => g[x] = next[x]
    <2>1. CASE tail[l] = NULL
      <3>1. g = [next EXCEPT ![e] = e] /\ u = [tail EXCEPT ![l] = e] /\ s = <<>>
        BY <2>1, ChainAt DEF Enqueued
      <3>2. c = <<e>> /\ g[e] = e
        BY <3>1, <1>1
      <3>3. Circle(g, c)
        BY <3>2, CircleOne
      <3>4. QED BY <3>1, <3>3, <1>1
    <2>2. CASE tail[l] # NULL
      <3>1. /\ g = [next EXCEPT ![e] = First(l), ![tail[l]] = e] /\ u = [tail EXCEPT ![l] = e]
        BY <2>2 DEF Enqueued
      <3>2. /\ s \in Seq(Elem) /\ s # <<>> /\ Circle(next, s) /\ ToSet(s) \subseteq Elem
            /\ tail[l] = Last(s) /\ tail[l] \in Elem /\ tail[l] \in ToSet(s)
            /\ First(l) = next[Last(s)] /\ First(l) \in Elem
        BY <2>2, ChainAt DEF First
      <3> HIDE DEF s, g
      <3>3. /\ g \in [Elem -> Elem \cup {NULL}] /\ g[tail[l]] = e /\ e # tail[l]
            /\ g[e] = next[Last(s)]
            /\ \A x \in Elem : x # e /\ x # tail[l] => g[x] = next[x]
        <4>1. e # tail[l]
          BY <3>2 DEF s
        <4>2. QED BY <4>1, <3>1, <3>2, <1>1
      <3>4. \A x \in ToSet(s) : x # Last(s) => g[x] = next[x]
        BY <3>2, <3>3 DEF s
      <3>5. Circle(g, c)
        <4>1. e \notin ToSet(s)
          BY DEF s
        <4>2. QED BY <3>2, <3>3, <3>4, <4>1, CircleAdd
      <3>6. QED BY <3>1, <3>2, <3>3, <3>5
    <2>3. QED BY <2>1, <2>2
  <1> HIDE DEF g, u, c, s
  <1>4. Chain(g, u[l], c)
    BY <1>1, <1>2, <1>3 DEF Chain
  <1>5. ASSUME NEW m \in List \ {l}
        PROVE  /\ u[m] = tail[m] /\ ToSet(c) \cap ToSet(q[m]) = {}
               /\ \A x \in ToSet(q[m]) : g[x] = next[x]
    <2>1. e \notin ToSet(q[m])
      OBVIOUS
    <2>2. QED BY <2>1, <1>1, <1>2, <1>3
  <1>6. u \in [List -> Elem \cup {NULL}]
    BY <1>1, <1>3
  <1>7. Shape(g, u, [q EXCEPT ![l] = c])
    BY <1>3, <1>4, <1>5, <1>6, ShapeChange
  <1>8. QED BY <1>7 DEF g, u, c, s

\* clist_push: at the head.
LEMMA PushShape ==
  ASSUME NEW q, Shape(next, tail, q), NEW l \in List, NEW e \in Elem,
         \A m \in List : e \notin ToSet(q[m])
  PROVE  Shape(Pushed(e, l).next, Pushed(e, l).tail, [q EXCEPT ![l] = <<e>> \o q[l]])
  <1> DEFINE s == q[l]
             g == Pushed(e, l).next
             u == Pushed(e, l).tail
             c == <<e>> \o s
  <1>1. /\ next \in [Elem -> Elem \cup {NULL}] /\ tail \in [List -> Elem \cup {NULL}]
        /\ \A m \in List \ {l} : ToSet(s) \cap ToSet(q[m]) = {}
        /\ \A m \in List \ {l} : ToSet(q[m]) \subseteq Elem
    BY ChainAt DEF Shape
  <1>2. /\ c \in Seq(Elem) /\ c # <<>> /\ ToSet(c) = ToSet(s) \cup {e}
        /\ Last(c) = IF s = <<>> THEN e ELSE Last(s)
    <2>1. s \in Seq(Elem) /\ <<e>> \in Seq(Elem) /\ Len(<<e>>) = 1 /\ <<e>>[1] = e
      BY ChainAt
    <2> HIDE DEF s
    <2>2. c \in Seq(Elem) /\ Len(c) = 1 + Len(s) /\ Len(s) \in Nat
      BY <2>1, ConcatProperties, LenProperties
    <2>3. \A i \in 1 .. 1 + Len(s) : c[i] = IF i <= 1 THEN e ELSE s[i - 1]
      BY <2>1, <2>2, ConcatProperties
    <2>4. ToSet(c) = ToSet(s) \cup {e}
      <3>1. ToSet(<<e>>) = {e}
        BY DEF ToSet
      <3> DEFINE a == <<e>>
      <3>2. a \in Seq(Elem) /\ c = a \o s /\ ToSet(a) = {e}
        BY <2>1, <3>1
      <3> HIDE DEF a, c
      <3>3. ToSet(a \o s) = ToSet(a) \cup ToSet(s)
        BY <2>1, <3>2, ConcatElements
      <3>4. QED BY <3>2, <3>3
    <2>5. c # <<>>
      BY <2>2
    <2>6. Last(c) = c[1 + Len(s)]
      BY <2>2, <2>5, LastOf
    <2>7. CASE s = <<>>
      <3>1. Len(s) = 0
        BY <2>7
      <3>2. QED BY <2>2, <2>3, <2>4, <2>5, <2>6, <2>7, <3>1
    <2>8. CASE s # <<>>
      <3>1. Len(s) > 0 /\ Last(s) = s[Len(s)]
        BY <2>1, <2>8, LastOf
      <3>2. 1 + Len(s) \in 1 .. 1 + Len(s) /\ ~(1 + Len(s) <= 1) /\ (1 + Len(s)) - 1 = Len(s)
        BY <3>1, <2>2
      <3>3. c[1 + Len(s)] = s[Len(s)]
        BY <3>2, <2>3
      <3>4. QED BY <3>1, <3>3, <2>2, <2>4, <2>5, <2>6, <2>8
    <2>9. QED BY <2>7, <2>8
  <1>3. /\ g \in [Elem -> Elem \cup {NULL}] /\ Circle(g, c)
        /\ u = IF s = <<>> THEN [tail EXCEPT ![l] = e] ELSE tail
        /\ \A x \in Elem : x # e /\ x \notin ToSet(s) => g[x] = next[x]
    <2>1. CASE tail[l] = NULL
      <3>1. g = [next EXCEPT ![e] = e] /\ u = [tail EXCEPT ![l] = e] /\ s = <<>>
        BY <2>1, ChainAt DEF Pushed
      <3>2. c = <<e>> /\ g[e] = e
        BY <3>1, <1>1
      <3>3. Circle(g, c)
        BY <3>2, CircleOne
      <3>4. QED BY <3>1, <3>3, <1>1
    <2>2. CASE tail[l] # NULL
      <3>1. g = [next EXCEPT ![e] = First(l), ![tail[l]] = e] /\ u = tail
        BY <2>2 DEF Pushed
      <3>2. /\ s \in Seq(Elem) /\ s # <<>> /\ Circle(next, s) /\ ToSet(s) \subseteq Elem
            /\ tail[l] = Last(s) /\ tail[l] \in Elem /\ tail[l] \in ToSet(s)
            /\ First(l) = next[Last(s)] /\ First(l) \in Elem
        BY <2>2, ChainAt DEF First
      <3> HIDE DEF s, g
      <3>3. /\ g \in [Elem -> Elem \cup {NULL}] /\ g[tail[l]] = e /\ e # tail[l]
            /\ g[e] = next[Last(s)]
            /\ \A x \in Elem : x # e /\ x # tail[l] => g[x] = next[x]
        <4>1. e # tail[l]
          BY <3>2 DEF s
        <4>2. QED BY <4>1, <3>1, <3>2, <1>1
      <3>4. \A x \in ToSet(s) : x # Last(s) => g[x] = next[x]
        BY <3>2, <3>3 DEF s
      <3>5. Circle(g, c)
        <4>1. e \notin ToSet(s)
          BY DEF s
        <4>2. QED BY <3>2, <3>3, <3>4, <4>1, CircleAdd
      <3>6. QED BY <3>1, <3>2, <3>3, <3>5
    <2>3. QED BY <2>1, <2>2
  <1>4. tail[l] = IF s = <<>> THEN NULL ELSE Last(s)
    BY ChainAt
  <1> HIDE DEF g, u, c, s
  <1>5. Chain(g, u[l], c)
    BY <1>1, <1>2, <1>3, <1>4 DEF Chain
  <1>6. ASSUME NEW m \in List \ {l}
        PROVE  /\ u[m] = tail[m] /\ ToSet(c) \cap ToSet(q[m]) = {}
               /\ \A x \in ToSet(q[m]) : g[x] = next[x]
    <2>1. e \notin ToSet(q[m])
      OBVIOUS
    <2>2. QED BY <2>1, <1>1, <1>2, <1>3
  <1>7. u \in [List -> Elem \cup {NULL}]
    BY <1>1, <1>3
  <1>8. Shape(g, u, [q EXCEPT ![l] = c])
    BY <1>3, <1>5, <1>6, <1>7, ShapeChange
  <1>9. QED BY <1>8 DEF g, u, c, s

\* What is left of a sequence of several elements.
LEMMA RestOf ==
  ASSUME NEW S, NEW s \in Seq(S), IsInjective(s), Len(s) > 1, NEW i \in 1 .. Len(s)
  PROVE  /\ RemoveAt(s, i) \in Seq(S) /\ RemoveAt(s, i) # <<>>
         /\ Last(RemoveAt(s, i)) = IF i = Len(s) THEN s[Len(s) - 1] ELSE Last(s)
         /\ ToSet(RemoveAt(s, i)) = ToSet(s) \ {s[i]}
         /\ i = 1 => RemoveAt(s, i) = Tail(s)
  <1> DEFINE c == RemoveAt(s, i)
  <1>1. /\ c \in Seq(S) /\ Len(c) = Len(s) - 1 /\ Len(s) \in Nat
        /\ \A j \in 1 .. Len(s) - 1 : c[j] = IF j < i THEN s[j] ELSE s[j + 1]
        /\ ToSet(c) = ToSet(s) \ {s[i]}
    BY RemovePoints, RemoveElements, LenProperties
  <1> HIDE DEF c
  <1>2. c # <<>> /\ Last(c) = c[Len(s) - 1]
    <2>1. c # <<>>
      BY <1>1
    <2>2. QED BY <1>1, <2>1, LastOf
  <1>3. Last(s) = s[Len(s)]
    <2>1. s # <<>>
      BY <1>1
    <2>2. QED BY <2>1, LastOf
  <1>4. Last(c) = IF i = Len(s) THEN s[Len(s) - 1] ELSE Last(s)
    <2>1. Len(s) - 1 \in 1 .. Len(s) - 1 /\ (Len(s) - 1) + 1 = Len(s)
      BY <1>1
    <2>2. c[Len(s) - 1] = IF Len(s) - 1 < i THEN s[Len(s) - 1] ELSE s[Len(s)]
      BY <1>1, <2>1
    <2>3. Len(s) - 1 < i <=> i = Len(s)
      BY <1>1
    <2>4. QED BY <1>2, <1>3, <2>2, <2>3
  <1>5. i = 1 => c = Tail(s)
    <2>1. SUFFICES ASSUME i = 1 PROVE c = Tail(s)
      OBVIOUS
    <2>2. s # <<>>
      BY <1>1
    <2>3. Tail(s) \in Seq(S) /\ Len(Tail(s)) = Len(s) - 1
          /\ \A j \in 1 .. Len(Tail(s)) : Tail(s)[j] = s[j + 1]
      BY <2>2, HeadTailProperties
    <2>4. \A j \in 1 .. Len(s) - 1 : c[j] = Tail(s)[j]
      <3>1. \A j \in 1 .. Len(s) - 1 : ~(j < i)
        BY <2>1, <1>1
      <3>2. QED BY <3>1, <2>3, <1>1
    <2>5. QED BY <1>1, <2>3, <2>4, SeqEqual
  <1>6. QED BY <1>1, <1>2, <1>4, <1>5 DEF c

\* Unlinking the i-th of several elements, where p links to it; the list
\* pointer moves when it was the last.
LEMMA UnlinkShape ==
  ASSUME NEW q, Shape(next, tail, q), NEW l \in List, Len(q[l]) > 1,
         NEW i \in 1 .. Len(q[l]), NEW p \in ToSet(q[l]), next[p] = q[l][i]
  PROVE  Shape([next EXCEPT ![p] = next[q[l][i]]],
               IF i = Len(q[l]) THEN [tail EXCEPT ![l] = p] ELSE tail,
               [q EXCEPT ![l] = RemoveAt(q[l], i)])
  <1> DEFINE s == q[l]
             e == s[i]
             g == [next EXCEPT ![p] = next[e]]
             u == IF i = Len(s) THEN [tail EXCEPT ![l] = p] ELSE tail
             c == RemoveAt(s, i)
  <1>1. /\ next \in [Elem -> Elem \cup {NULL}] /\ tail \in [List -> Elem \cup {NULL}]
        /\ \A m \in List \ {l} : ToSet(s) \cap ToSet(q[m]) = {}
        /\ \A m \in List \ {l} : ToSet(q[m]) \subseteq Elem
        /\ s \in Seq(Elem) /\ IsInjective(s) /\ Circle(next, s) /\ ToSet(s) \subseteq Elem
        /\ Len(s) \in Nat /\ s # <<>> /\ tail[l] = Last(s)
    <2>1. /\ s \in Seq(Elem) /\ IsInjective(s) /\ Circle(next, s) /\ ToSet(s) \subseteq Elem
          /\ Len(s) \in Nat /\ (s # <<>> => tail[l] = Last(s))
      BY ChainAt
    <2>2. s # <<>>
      BY <2>1
    <2>3. QED BY <2>1, <2>2, ChainAt DEF Shape
  <1>2. Len(s) > 1 /\ i \in 1 .. Len(s) /\ p \in ToSet(s) /\ next[p] = e /\ p \in Elem
    BY <1>1
  <1> HIDE DEF s
  <1>3. e \in ToSet(s) /\ next[e] \in ToSet(s)
    BY <1>1, <1>2, CircleLinks, ElementsOf
  <1>4. /\ g \in [Elem -> Elem \cup {NULL}] /\ g[p] = next[e]
        /\ \A x \in Elem : x # p => g[x] = next[x]
    BY <1>1, <1>2, <1>3
  <1> HIDE DEF g
  <1>5. Circle(g, c) /\ p = IF i = 1 THEN Last(s) ELSE s[i - 1]
    <2>1. \A x \in ToSet(s) : x \notin {p, e} => g[x] = next[x]
      BY <1>1, <1>4
    <2>2. QED BY <1>1, <1>2, <1>4, <2>1, CircleRemove
  <1>6. /\ c \in Seq(Elem) /\ c # <<>> /\ ToSet(c) = ToSet(s) \ {e}
        /\ Last(c) = IF i = Len(s) THEN s[Len(s) - 1] ELSE Last(s)
    BY <1>1, <1>2, RestOf
  <1> HIDE DEF c, e
  <1>7. u \in [List -> Elem \cup {NULL}] /\ u[l] = Last(c) /\ \A m \in List \ {l} : u[m] = tail[m]
    <2>1. CASE i = Len(s)
      <3>1. p = s[Len(s) - 1]
        BY <2>1, <1>2, <1>5
      <3>2. u = [tail EXCEPT ![l] = p]
        BY <2>1
      <3>3. QED BY <2>1, <3>1, <3>2, <1>1, <1>2, <1>6
    <2>2. CASE i # Len(s)
      BY <2>2, <1>1, <1>6
    <2>3. QED BY <2>1, <2>2
  <1> HIDE DEF u
  <1>8. Chain(g, u[l], c)
    BY <1>5, <1>6, <1>7 DEF Chain
  <1>9. ASSUME NEW m \in List \ {l}
        PROVE  /\ u[m] = tail[m] /\ ToSet(c) \cap ToSet(q[m]) = {}
               /\ \A x \in ToSet(q[m]) : g[x] = next[x]
    BY <1>1, <1>2, <1>4, <1>6, <1>7
  <1>10. Shape(g, u, [q EXCEPT ![l] = c])
    <2>1. g \in [Elem -> Elem \cup {NULL}] /\ u \in [List -> Elem \cup {NULL}]
      BY <1>4, <1>7
    <2>2. QED BY <2>1, <1>8, <1>9, ShapeChange
  <1>11. QED BY <1>10 DEF g, u, c, e, s

\* clist_dequeue: the first element.
LEMMA DequeueShape ==
  ASSUME NEW q, Shape(next, tail, q), NEW l \in List, q[l] # <<>>
  PROVE  Shape(Dequeued(l).next, Dequeued(l).tail, [q EXCEPT ![l] = Tail(q[l])])
  <1> DEFINE s == q[l]
  <1>1. /\ s \in Seq(Elem) /\ IsInjective(s) /\ ToSet(s) \subseteq Elem /\ Circle(next, s)
        /\ Len(s) \in Nat /\ Len(s) > 0 /\ tail[l] = s[Len(s)] /\ First(l) = s[1]
        /\ tail[l] \in ToSet(s)
    BY ChainAt DEF First
  <1> HIDE DEF s
  <1>2. CASE Len(s) = 1
    <2>1. tail[l] = First(l)
      BY <1>1, <1>2
    <2>2. Dequeued(l).next = next /\ Dequeued(l).tail = [tail EXCEPT ![l] = NULL]
      BY <2>1 DEF Dequeued
    <2>3. Tail(s) = <<>>
      <3>1. s # <<>>
        BY <1>2
      <3>2. Tail(s) \in Seq(Elem) /\ Len(Tail(s)) = 0
        BY <1>1, <1>2, <3>1, HeadTailProperties
      <3>3. QED BY <3>2, EmptySeq
    <2>4. Chain(next, NULL, <<>>) /\ ToSet(<<>>) = {}
      BY DEF Chain, Circle, IsInjective, ToSet
    <2>5. /\ next \in [Elem -> Elem \cup {NULL}]
          /\ [tail EXCEPT ![l] = NULL] \in [List -> Elem \cup {NULL}]
          /\ [tail EXCEPT ![l] = NULL][l] = NULL
          /\ \A m \in List \ {l} : [tail EXCEPT ![l] = NULL][m] = tail[m]
      BY DEF Shape
    <2> DEFINE u == [tail EXCEPT ![l] = NULL]
    <2> HIDE DEF u
    <2>6. Shape(next, u, [q EXCEPT ![l] = <<>>])
      <3>1. u \in [List -> Elem \cup {NULL}] /\ Chain(next, u[l], <<>>)
            /\ \A m \in List \ {l} : u[m] = tail[m]
        BY <2>4, <2>5 DEF u
      <3>2. QED BY <3>1, <2>4, <2>5, ShapeChange
    <2>7. QED BY <2>2, <2>3, <2>6 DEF u, s
  <1>3. CASE Len(s) # 1
    <2>1. Len(s) > 1 /\ 1 \in 1 .. Len(s) /\ 1 # Len(s) /\ Len(s) \in 1 .. Len(s)
      <3>1. \A n \in Nat : n > 0 /\ n # 1 => n > 1 /\ 1 \in 1 .. n /\ 1 # n /\ n \in 1 .. n
        OBVIOUS
      <3>2. QED BY <3>1, <1>1, <1>3, Zenon
    <2>2. tail[l] # First(l) /\ next[tail[l]] = s[1]
      BY <1>1, <2>1, CircleAt DEF First
    <2>3. Dequeued(l).next = [next EXCEPT ![tail[l]] = next[s[1]]] /\ Dequeued(l).tail = tail
      BY <1>1, <2>2 DEF Dequeued
    <2>4. RemoveAt(s, 1) = Tail(s)
      BY <1>1, <2>1, RestOf
    <2>5. Shape([next EXCEPT ![tail[l]] = next[s[1]]],
                IF 1 = Len(s) THEN [tail EXCEPT ![l] = tail[l]] ELSE tail,
                [q EXCEPT ![l] = RemoveAt(s, 1)])
      BY <1>1, <2>1, <2>2, UnlinkShape DEF s
    <2>6. QED BY <2>1, <2>3, <2>4, <2>5 DEF s
  <1>4. QED BY <1>2, <1>3

\* clist_delete and clist_foreach_delete: an element behind the first.
LEMMA RemoveShape ==
  ASSUME NEW q, Shape(next, tail, q), NEW l \in List, NEW i \in 2 .. Len(q[l])
  PROVE  Shape(Unlinked(q[l][i], q[l][i - 1], l).next, Unlinked(q[l][i], q[l][i - 1], l).tail,
               [q EXCEPT ![l] = RemoveAt(q[l], i)])
  <1> DEFINE s == q[l]
  <1>1. /\ s \in Seq(Elem) /\ IsInjective(s) /\ Circle(next, s) /\ Len(s) \in Nat
        /\ s # <<>> => tail[l] = s[Len(s)]
    BY ChainAt
  <1>2. i \in 2 .. Len(s)
    OBVIOUS
  <1> HIDE DEF s
  <1>3. /\ i \in 1 .. Len(s) /\ i - 1 \in 1 .. Len(s) /\ i - 1 # Len(s) /\ (i - 1) + 1 = i
        /\ Len(s) > 1 /\ Len(s) \in 1 .. Len(s) /\ s # <<>>
    <2>1. /\ i \in 1 .. Len(s) /\ i - 1 \in 1 .. Len(s) /\ i - 1 # Len(s) /\ (i - 1) + 1 = i
          /\ Len(s) > 1 /\ Len(s) \in 1 .. Len(s)
      BY <1>1, <1>2
    <2>2. QED BY <2>1
  <1>4. next[s[i - 1]] = s[i] /\ s[i - 1] \in ToSet(s) /\ (tail[l] = s[i] <=> i = Len(s))
    BY <1>1, <1>3, CircleAt
  <1>5. Shape([next EXCEPT ![s[i - 1]] = next[s[i]]],
              IF i = Len(s) THEN [tail EXCEPT ![l] = s[i - 1]] ELSE tail,
              [q EXCEPT ![l] = RemoveAt(s, i)])
    BY <1>1, <1>3, <1>4, UnlinkShape DEF s
  <1>6. /\ Unlinked(s[i], s[i - 1], l).next = [next EXCEPT ![s[i - 1]] = next[s[i]]]
        /\ Unlinked(s[i], s[i - 1], l).tail
              = IF i = Len(s) THEN [tail EXCEPT ![l] = s[i - 1]] ELSE tail
    BY <1>4 DEF Unlinked
  <1>7. QED BY <1>5, <1>6 DEF s

\* clist_foreach_add: between two elements.
LEMMA AddShape ==
  ASSUME NEW q, Shape(next, tail, q), NEW l \in List, NEW i \in 2 .. Len(q[l]), NEW e \in Elem,
         \A m \in List : e \notin ToSet(q[m])
  PROVE  Shape(Added(e, q[l][i], q[l][i - 1], l).next, Added(e, q[l][i], q[l][i - 1], l).tail,
               [q EXCEPT ![l] = InsertAt(q[l], i, e)])
  <1> DEFINE s == q[l]
             p == s[i - 1]
             g == [next EXCEPT ![e] = s[i], ![p] = e]
             c == InsertAt(s, i, e)
  <1>1. /\ s \in Seq(Elem) /\ IsInjective(s) /\ Circle(next, s) /\ Len(s) \in Nat
        /\ ToSet(s) \subseteq Elem /\ ToSet(s) = {s[j] : j \in 1 .. Len(s)}
        /\ s # <<>> => tail[l] = Last(s)
        /\ next \in [Elem -> Elem \cup {NULL}] /\ tail \in [List -> Elem \cup {NULL}]
    <2>1. /\ s \in Seq(Elem) /\ IsInjective(s) /\ Circle(next, s) /\ Len(s) \in Nat
          /\ ToSet(s) \subseteq Elem /\ (s # <<>> => tail[l] = Last(s))
      BY ChainAt
    <2>2. ToSet(s) = {s[j] : j \in 1 .. Len(s)}
      BY <2>1, CircleAt
    <2>3. QED BY <2>1, <2>2 DEF Shape
  <1>2. /\ i \in 2 .. Len(s) /\ e \notin ToSet(s)
        /\ \A m \in List \ {l} : ToSet(s) \cap ToSet(q[m]) = {} /\ ToSet(q[m]) \subseteq Elem
    BY ChainAt DEF Shape
  <1> HIDE DEF s
  <1>3. /\ i \in 1 .. Len(s) /\ i - 1 \in 1 .. Len(s) /\ Len(s) > 0 /\ Len(s) \in 1 .. Len(s)
    BY <1>1, <1>2
  <1>4. p \in ToSet(s) /\ p \in Elem /\ s[i] \in ToSet(s) /\ s[i] \in Elem /\ p # e
    BY <1>1, <1>2, <1>3
  <1>5. s # <<>>
    BY <1>3, <1>1
  <1> HIDE DEF p
  <1>6. /\ g \in [Elem -> Elem \cup {NULL}] /\ g[e] = s[i] /\ g[p] = e
        /\ \A x \in Elem : x # e /\ x # p => g[x] = next[x]
    BY <1>1, <1>4
  <1> HIDE DEF g
  <1>7. Circle(g, c)
    <2>1. \A x \in ToSet(s) : x # p => g[x] = next[x]
      BY <1>1, <1>2, <1>6
    <2>2. QED BY <1>1, <1>2, <1>6, <2>1, CircleInsert DEF p
  <1>8. /\ c \in Seq(Elem) /\ ToSet(c) = ToSet(s) \cup {e} /\ Len(c) = Len(s) + 1
        /\ \A j \in 1 .. Len(s) + 1 : c[j] = IF j < i THEN s[j] ELSE IF j = i THEN e ELSE s[j - 1]
    <2>1. s \in Seq(Elem) /\ e \in Elem /\ i \in 1 .. Len(s)
      BY <1>1, <1>3
    <2>2. QED BY <2>1, InsertPoints
  <1> HIDE DEF c
  <1>9. c # <<>> /\ Last(c) = Last(s)
    <2>1. c # <<>>
      BY <1>8, <1>1
    <2>2. Last(c) = c[Len(s) + 1] /\ Last(s) = s[Len(s)]
      BY <2>1, <1>1, <1>5, <1>8, LastOf
    <2>3. Len(s) + 1 \in 1 .. Len(s) + 1 /\ ~(Len(s) + 1 < i) /\ Len(s) + 1 # i /\ (Len(s) + 1) - 1 = Len(s)
      BY <1>1, <1>3
    <2>4. c[Len(s) + 1] = s[Len(s)]
      BY <1>8, <2>3
    <2>5. QED BY <2>1, <2>2, <2>4
  <1>10. Chain(g, tail[l], c)
    BY <1>1, <1>5, <1>7, <1>8, <1>9 DEF Chain
  <1>11. ASSUME NEW m \in List \ {l}
         PROVE  /\ ToSet(c) \cap ToSet(q[m]) = {}
                /\ \A x \in ToSet(q[m]) : g[x] = next[x]
    <2>1. e \notin ToSet(q[m])
      OBVIOUS
    <2>2. QED BY <2>1, <1>2, <1>4, <1>6, <1>8
  <1>12. Shape(g, tail, [q EXCEPT ![l] = c])
    <2>1. g \in [Elem -> Elem \cup {NULL}] /\ tail \in [List -> Elem \cup {NULL}]
      BY <1>1, <1>6
    <2>2. \A m \in List \ {l} : tail[m] = tail[m]
      OBVIOUS
    <2>3. QED BY <2>1, <2>2, <1>10, <1>11, ShapeChange
  <1>13. p # NULL
    BY <1>4, SizeOf
  <1>14. Added(e, s[i], p, l).next = g /\ Added(e, s[i], p, l).tail = tail
    BY <1>13 DEF Added, g
  <1>15. QED BY <1>12, <1>14 DEF c, p, s

-----------------------------------------------------------------------------
(* The steps: what becomes of the sequences, and CInv *)

LEMMA InitInv == Init => CInv /\ Queue = [l \in List |-> IF l = Free THEN [i \in Elem |-> i] ELSE <<>>]
  <1>1. SUFFICES ASSUME Init
                 PROVE  CInv /\ Queue = [l \in List |-> IF l = Free THEN [i \in Elem |-> i] ELSE <<>>]
    OBVIOUS
  <1> DEFINE s == [i \in Elem |-> i]
             q == [l \in List |-> IF l = Free THEN s ELSE <<>>]
  <1>2. /\ N \in Nat /\ N > 0 /\ NULL \notin Elem /\ Elem = 1 .. N
        /\ next = [e \in Elem |-> IF e = N THEN 1 ELSE e + 1]
        /\ tail = [l \in List |-> IF l = Free THEN N ELSE NULL]
        /\ loop = Idle /\ answer = "missing"
    BY <1>1, SizeOf DEF Init, Elem
  <1>3. /\ next \in [Elem -> Elem \cup {NULL}] /\ tail \in [List -> Elem \cup {NULL}]
    <2>1. N \in Elem /\ \A e \in Elem : (IF e = N THEN 1 ELSE e + 1) \in Elem
      BY <1>2
    <2>2. QED BY <2>1, <1>2
  <1>4. s \in Seq(Elem) /\ Len(s) = N /\ s # <<>> /\ Last(s) = N /\ Circle(next, s)
    <2>1. s \in Seq(Elem) /\ Len(s) = N /\ \A i \in 1 .. N : s[i] = i
      BY <1>2
    <2> HIDE DEF s
    <2>2. s # <<>>
      BY <2>1, <1>2
    <2>3. DOMAIN s = 1 .. N /\ Last(s) = s[N] /\ N \in 1 .. N
      BY <2>1, <2>2, <1>2, LastOf
    <2>4. IsInjective(s)
      BY <2>1, <2>3 DEF IsInjective
    <2>5. \A i \in 1 .. N : next[s[i]] = IF i = N THEN s[1] ELSE s[i + 1]
      <3>1. \A i \in 1 .. N : (i # N => i + 1 \in 1 .. N) /\ 1 \in 1 .. N
        BY <1>2
      <3>2. QED BY <3>1, <2>1, <1>2
    <2>6. QED BY <2>1, <2>2, <2>3, <2>4, <2>5 DEF Circle
  <1>5. \A l \in List : Chain(next, tail[l], q[l])
    <2>1. Circle(next, <<>>) /\ <<>> \in Seq(Elem)
      BY DEF Circle, IsInjective
    <2> HIDE DEF s
    <2>2. QED BY <1>2, <1>4, <2>1 DEF Chain
  <1>6. ToSet(<<>>) = {}
    BY DEF ToSet
  <1>7. Shape(next, tail, q)
    <2>1. <<>> \in Seq(Elem)
      OBVIOUS
    <2> HIDE DEF s
    <2>2. QED BY <1>3, <1>4, <1>5, <1>6, <2>1 DEF Shape
  <1> HIDE DEF q
  <1>8. Queue = q
    BY <1>7, QueueNow
  <1>9. loop.op = "idle"
    BY <1>2 DEF Idle
  <1>10. CInv
    BY <1>2, <1>7, <1>8, <1>9 DEF CInv, LoopType, DeleteInv, ForeachInv
  <1>11. QED BY <1>8, <1>10 DEF q

\* The links change to those of the sequences q.
LEMMA Changes ==
  ASSUME NEW q, Shape(next', tail', q)
  PROVE  Queue' = q /\ Shape(next', tail', Queue')
  BY QueueThen

\* The links stay.
LEMMA Stays ==
  ASSUME CInv, UNCHANGED <<next, tail>>
  PROVE  Queue' = Queue /\ Shape(next', tail', Queue')
  <1>1. PICK q : q = Queue
    OBVIOUS
  <1>2. Shape(next', tail', q)
    BY <1>1 DEF CInv
  <1>3. QED BY <1>1, <1>2, Changes

\* Between macros.
LEMMA NoLoop ==
  ASSUME Shape(next', tail', Queue'), answer' \in {"found", "missing"}, loop' = Idle
  PROVE  CInv'
  <1>1. loop'.op = "idle"
    BY DEF Idle
  <1>2. LoopType' /\ DeleteInv' /\ ForeachInv'
    BY <1>1 DEF LoopType, DeleteInv, ForeachInv
  <1>3. QED BY <1>2 DEF CInv, Shape

\* Detached is off all sequences.
LEMMA OffAll ==
  ASSUME CInv, NEW e, Detached(e)
  PROVE  \A l \in List : e \notin ToSet(Queue[l])
  <1>1. PICK q : q = Queue
    OBVIOUS
  <1>2. Shape(next, tail, q)
    BY <1>1 DEF CInv
  <1>3. QED BY <1>1, <1>2, QueueNow DEF Detached

LEMMA EnqueueStep ==
  ASSUME CInv, NEW e \in Elem, NEW l \in List, Enqueue(e, l)
  PROVE  CInv' /\ Queue' = [Queue EXCEPT ![l] = Append(Queue[l], e)]
  <1>1. PICK q : q = Queue
    OBVIOUS
  <1>2. Shape(next, tail, q) /\ \A m \in List : e \notin ToSet(q[m])
    BY <1>1, OffAll DEF CInv, Enqueue
  <1>3. Shape(next', tail', [q EXCEPT ![l] = Append(q[l], e)])
    <2>1. Shape(Enqueued(e, l).next, Enqueued(e, l).tail, [q EXCEPT ![l] = Append(q[l], e)])
      BY <1>2, EnqueueShape
    <2>2. next' = Enqueued(e, l).next /\ tail' = Enqueued(e, l).tail
      BY DEF Enqueue, Becomes
    <2>3. QED BY <2>1, <2>2
  <1>4. loop' = Idle /\ answer' \in {"found", "missing"}
    BY DEF Enqueue, CInv
  <1>5. QED BY <1>1, <1>3, <1>4, Changes, NoLoop

LEMMA PushStep ==
  ASSUME CInv, NEW e \in Elem, NEW l \in List, Push(e, l)
  PROVE  CInv' /\ Queue' = [Queue EXCEPT ![l] = <<e>> \o Queue[l]]
  <1>1. PICK q : q = Queue
    OBVIOUS
  <1>2. Shape(next, tail, q) /\ \A m \in List : e \notin ToSet(q[m])
    BY <1>1, OffAll DEF CInv, Push
  <1>3. Shape(next', tail', [q EXCEPT ![l] = <<e>> \o q[l]])
    <2>1. Shape(Pushed(e, l).next, Pushed(e, l).tail, [q EXCEPT ![l] = <<e>> \o q[l]])
      BY <1>2, PushShape
    <2>2. next' = Pushed(e, l).next /\ tail' = Pushed(e, l).tail
      BY DEF Push, Becomes
    <2>3. QED BY <2>1, <2>2
  <1>4. loop' = Idle /\ answer' \in {"found", "missing"}
    BY DEF Push, CInv
  <1>5. QED BY <1>1, <1>3, <1>4, Changes, NoLoop

\* The first element, with what DequeueShape says of it.
LEMMA DequeueStep ==
  ASSUME CInv, NEW l \in List, Dequeue(l)
  PROVE  CInv' /\ Queue[l] # <<>> /\ Queue' = [Queue EXCEPT ![l] = Tail(Queue[l])]
  <1>1. PICK q : q = Queue
    OBVIOUS
  <1>2. Shape(next, tail, q) /\ q[l] # <<>>
    BY <1>1, ChainAt DEF CInv, Dequeue
  <1>3. Shape(next', tail', [q EXCEPT ![l] = Tail(q[l])])
    <2>1. Shape(Dequeued(l).next, Dequeued(l).tail, [q EXCEPT ![l] = Tail(q[l])])
      BY <1>2, DequeueShape
    <2>2. next' = Dequeued(l).next /\ tail' = Dequeued(l).tail
      BY DEF Dequeue, Becomes
    <2>3. QED BY <2>1, <2>2
  <1>4. loop' = Idle /\ answer' \in {"found", "missing"}
    BY DEF Dequeue, CInv
  <1>5. QED BY <1>1, <1>2, <1>3, <1>4, Changes, NoLoop

\* allocPcb clears the link of an element that has just left all lists.
LEMMA AllocStep ==
  ASSUME CInv, Alloc
  PROVE  CInv' /\ Queue[Free] # <<>> /\ Queue' = [Queue EXCEPT ![Free] = Tail(Queue[Free])]
  <1>0. Free \in List
    BY ClistAssumption
  <1>1. PICK q : q = Queue
    OBVIOUS
  <1>2. Shape(next, tail, q) /\ q[Free] # <<>>
    BY <1>0, <1>1, ChainAt DEF CInv, Alloc
  <1> DEFINE r == [q EXCEPT ![Free] = Tail(q[Free])]
             g == Dequeued(Free).next
             u == Dequeued(Free).tail
             x == First(Free)
  <1>3. Shape(g, u, r)
    BY <1>0, <1>2, DequeueShape
  <1>4. x \in Elem /\ x = Head(q[Free]) /\ x \in ToSet(q[Free]) /\ IsInjective(q[Free])
        /\ q[Free] \in Seq(Elem)
    BY <1>0, <1>2, ChainAt DEF First
  <1> HIDE DEF x
  <1>5. ASSUME NEW m \in List PROVE x \notin ToSet(r[m])
    <2>1. CASE m = Free
      <3>1. r[m] = Tail(q[Free])
        BY <2>1, <1>2 DEF Shape
      <3>2. QED BY <3>1, <1>2, <1>4, TailElements
    <2>2. CASE m # Free
      BY <2>2, <1>0, <1>2, <1>4 DEF Shape
    <2>3. QED BY <2>1, <2>2
  <1> HIDE DEF g, u, r
  <1>6. Shape([g EXCEPT ![x] = NULL], u, r)
    BY <1>3, <1>4, <1>5, ShapeFree
  <1>7. next' = [g EXCEPT ![x] = NULL] /\ tail' = u
    BY DEF Alloc, g, u, x
  <1>8. loop' = Idle /\ answer' \in {"found", "missing"}
    BY DEF Alloc, CInv
  <1>9. Shape(next', tail', r)
    BY <1>6, <1>7
  <1>10. QED BY <1>1, <1>2, <1>8, <1>9, Changes, NoLoop DEF r

-----------------------------------------------------------------------------
(* The loops *)

\* The removal of the i-th of distinct elements is that of the element.
LEMMA RemovalOf ==
  ASSUME NEW S, NEW s \in Seq(S), IsInjective(s), NEW i \in 1 .. Len(s)
  PROVE  /\ RemoveFirst(s, s[i]) = RemoveAt(s, i)
         /\ s[i] \in ToSet(s)
         /\ RemoveAt(s, 1) = Tail(s)
         /\ ToSet(RemoveAt(s, i)) = ToSet(s) \ {s[i]}
         /\ RemoveAt(s, i) \in Seq(S) /\ Len(RemoveAt(s, i)) = Len(s) - 1
  <1>1. s[i] \in ToSet(s) /\ DOMAIN s = 1 .. Len(s) /\ Len(s) \in Nat
    BY ElementsOf, LenProperties
  <1>2. RemoveFirst(s, s[i]) = RemoveAt(s, i)
    <2>1. PICK j \in 1 .. Len(s) : s[j] = s[i] /\ RemoveFirst(s, s[i]) = RemoveAt(s, j)
      BY <1>1, RemoveFirstAt
    <2>2. j = i
      BY <1>1, <2>1 DEF IsInjective
    <2>3. QED BY <2>1, <2>2
  <1>3. RemoveAt(s, 1) = Tail(s)
    <2>1. 1 \in 1 .. Len(s) /\ s # <<>>
      BY <1>1
    <2>2. /\ RemoveAt(s, 1) \in Seq(S) /\ Len(RemoveAt(s, 1)) = Len(s) - 1
          /\ \A j \in 1 .. Len(s) - 1 : RemoveAt(s, 1)[j] = IF j < 1 THEN s[j] ELSE s[j + 1]
      BY <2>1, RemovePoints
    <2>3. Tail(s) \in Seq(S) /\ Len(Tail(s)) = Len(s) - 1
          /\ \A j \in 1 .. Len(Tail(s)) : Tail(s)[j] = s[j + 1]
      BY <2>1, HeadTailProperties
    <2>4. \A j \in 1 .. Len(s) - 1 : RemoveAt(s, 1)[j] = Tail(s)[j]
      <3>1. \A j \in 1 .. Len(s) - 1 : ~(j < 1)
        BY <1>1
      <3>2. QED BY <3>1, <2>2, <2>3
    <2>5. QED BY <2>2, <2>3, <2>4, SeqEqual
  <1>4. QED BY <1>1, <1>2, <1>3, RemoveElements, RemovePoints

\* A removal of e from l, with its answer, as ListSpec has it.
Removal(e, l) ==
  /\ Queue' = [Queue EXCEPT ![l] = RemoveFirst(Queue[l], e)]
  /\ answer' = IF e \in ToSet(Queue[l]) THEN "found" ELSE "missing"

\* The removal of an element that is not there.
LEMMA NothingThere ==
  ASSUME CInv, NEW l \in List, NEW e, e \notin ToSet(Queue[l]),
         Queue' = Queue, answer' = "missing"
  PROVE  Removal(e, l)
  <1>1. Queue[l] \in Seq(Elem) /\ Queue = [Queue EXCEPT ![l] = Queue[l]]
    BY DEF CInv, Shape
  <1>2. RemoveFirst(Queue[l], e) = Queue[l]
    BY <1>1, RemoveFirstMissing
  <1>3. QED BY <1>1, <1>2 DEF Removal

\* clist_delete finds the list empty, the element at its head, or starts to
\* look behind the head.
LEMMA DeleteStep ==
  ASSUME CInv, NEW e \in Elem, NEW l \in List, Delete(e, l)
  PROVE  CInv' /\ (Removal(e, l) \/ UNCHANGED <<Queue, answer>>)
  <1>1. PICK q : q = Queue
    OBVIOUS
  <1>2. Shape(next, tail, q) /\ loop = Idle /\ answer \in {"found", "missing"}
    BY <1>1 DEF CInv, Delete
  <1> DEFINE s == q[l]
  <1>3. /\ s \in Seq(Elem) /\ IsInjective(s) /\ Len(s) \in Nat
        /\ tail[l] = NULL <=> s = <<>>
        /\ s # <<>> => First(l) = s[1] /\ Len(s) > 0 /\ s[1] \in Elem
    BY <1>2, ChainAt DEF First
  <1>4. CASE tail[l] = NULL
    <2>1. UNCHANGED <<next, tail, loop>> /\ answer' = "missing"
      BY <1>4 DEF Delete
    <2>2. e \notin ToSet(Queue[l])
      BY <1>1, <1>3, <1>4, ElementsOf
    <2>3. Queue' = Queue /\ Shape(next', tail', Queue')
      BY <2>1, Stays
    <2>4. Removal(e, l)
      BY <2>1, <2>2, <2>3, NothingThere
    <2>5. QED BY <1>2, <2>1, <2>3, <2>4, NoLoop
  <1>5. CASE tail[l] # NULL /\ First(l) = e
    <2>1. /\ next' = Dequeued(l).next /\ tail' = Dequeued(l).tail
          /\ answer' = "found" /\ loop' = Idle
      BY <1>2, <1>5 DEF Delete, Becomes
    <2>2. Shape(Dequeued(l).next, Dequeued(l).tail, [q EXCEPT ![l] = Tail(q[l])])
      BY <1>2, <1>3, <1>5, DequeueShape
    <2>3. Queue' = [q EXCEPT ![l] = Tail(q[l])] /\ Shape(next', tail', Queue')
      BY <2>1, <2>2, Changes
    <2>4. 1 \in 1 .. Len(s) /\ s[1] = e
      BY <1>3, <1>5
    <2> HIDE DEF s
    <2>5. RemoveFirst(s, e) = Tail(s) /\ e \in ToSet(s)
      BY <1>3, <2>4, RemovalOf
    <2>6. Removal(e, l)
      BY <1>1, <2>1, <2>3, <2>5 DEF Removal, s
    <2>7. QED BY <2>1, <2>3, <2>6, NoLoop
  <1>6. CASE tail[l] # NULL /\ First(l) # e
    <2>1. /\ UNCHANGED <<next, tail, answer>>
          /\ loop' = [op |-> "delete", elem |-> e, list |-> l, scan |-> First(l),
                      tmp |-> NULL, retval |-> "missing"]
      BY <1>6 DEF Delete
    <2>2. Queue' = Queue /\ Shape(next', tail', Queue')
      BY <2>1, Stays
    <2>3. s # <<>> /\ First(l) = s[1] /\ Len(s) > 0 /\ First(l) \in Elem /\ s[1] # e /\ Queue'[l] = s
      BY <1>1, <1>3, <1>6, <2>2
    <2> HIDE DEF s
    <2>4. LoopType'
      BY <2>1, <2>3 DEF LoopType
    <2>5. /\ 1 \in 1 .. Len(s) + 1 /\ ~(1 > Len(s))
          /\ \A j \in 1 .. Len(s) : j <= 1 => j = 1
      BY <1>3, <2>3
    <2>6. DeleteInv'
      BY <2>1, <2>3, <2>5 DEF DeleteInv, DeleteAt, Around
    <2>7. ForeachInv'
      BY <2>1 DEF ForeachInv
    <2>8. QED BY <1>2, <2>1, <2>2, <2>4, <2>6, <2>7 DEF CInv, Shape
  <1>7. QED BY <1>4, <1>5, <1>6

\* The record of a deletion in progress, and where it is.
LEMMA Deleting ==
  ASSUME CInv, loop.op = "delete"
  PROVE  /\ loop \in [op : {"delete"}, elem : Elem, list : List, scan : Elem \cup {NULL},
                      tmp : Elem \cup {NULL}, retval : {"found", "missing"}]
         /\ loop.elem \in Elem /\ loop.list \in List
         /\ Queue[loop.list] # <<>>
         /\ \E k \in 1 .. Len(Queue[loop.list]) + 1 : DeleteAt(Queue[loop.list], k)
         /\ loop.retval = "found" => answer = "found"
  <1>1. loop \in [op : {"delete"}, elem : Elem, list : List, scan : Elem \cup {NULL},
                      tmp : Elem \cup {NULL}, retval : {"found", "missing"}]
    BY DEF CInv, LoopType, Idle
  <1>2. QED BY <1>1 DEF CInv, DeleteInv

\* The end is only reached at the first element again, all others seen.
LEMMA DeleteEndStep ==
  ASSUME CInv, DeleteEnd
  PROVE  /\ CInv'
         /\ Removal(loop.elem, loop.list) \/ UNCHANGED <<Queue, answer>>
  <1>1. /\ UNCHANGED <<next, tail>> /\ loop' = Idle /\ answer' = loop.retval
        /\ loop.op = "delete" /\ loop.scan = loop.tmp
    BY DEF DeleteEnd
  <1>2. Queue' = Queue /\ Shape(next', tail', Queue')
    BY <1>1, Stays
  <1>3. /\ loop.retval \in {"found", "missing"}
        /\ loop.elem \in Elem /\ loop.list \in List
        /\ loop.retval = "found" => answer = "found"
    BY <1>1, Deleting
  <1>4. CInv'
    BY <1>1, <1>2, <1>3, NoLoop
  <1>5. loop.elem \notin ToSet(Queue[loop.list])
    <2> DEFINE s == Queue[loop.list]
    <2>1. s # <<>>
      BY <1>1, Deleting
    <2>2. PICK k \in 1 .. Len(s) + 1 : DeleteAt(s, k)
      BY <1>1, Deleting
    <2>3. PICK q : q = Queue
      OBVIOUS
    <2>4. /\ s \in Seq(Elem) /\ Circle(next, s) /\ Len(s) \in Nat /\ Len(s) > 0
          /\ ToSet(s) \subseteq Elem /\ s[1] \in ToSet(s)
      <3>1. Shape(next, tail, q)
        BY <2>3 DEF CInv
      <3>2. QED BY <3>1, <2>1, <2>3, <1>3, ChainAt
    <2> HIDE DEF s
    <2>5. ToSet(s) = {s[j] : j \in 1 .. Len(s)} /\ \A i, j \in 1 .. Len(s) : s[i] = s[j] => i = j
      BY <2>4, CircleAt
    <2>6. k # 1
      <3>1. SUFFICES ASSUME k = 1 PROVE FALSE
        OBVIOUS
      <3>2. ~(1 > Len(s))
        BY <2>4
      <3>3. loop.scan = s[1] /\ loop.tmp = NULL
        BY <2>2, <3>1, <3>2 DEF DeleteAt, Around
      <3>4. QED BY <3>3, <1>1, <2>4, SizeOf
    <2>7. k > Len(s)
      <3>1. SUFFICES ASSUME ~(k > Len(s)) PROVE FALSE
        OBVIOUS
      <3>2. k \in 1 .. Len(s) /\ 1 \in 1 .. Len(s)
        BY <3>1, <2>2, <2>4
      <3>3. s[k] = s[1]
        BY <2>2, <2>6, <3>1, <1>1 DEF DeleteAt, Around
      <3>4. QED BY <3>2, <3>3, <2>5, <2>6
    <2>8. \A j \in 1 .. Len(s) : j <= k
      BY <2>2, <2>4, <2>7
    <2>9. QED BY <2>2, <2>5, <2>8 DEF DeleteAt, s
  <1>6. CASE loop.retval = "missing"
    BY <1>1, <1>2, <1>3, <1>4, <1>5, <1>6, NothingThere
  <1>7. CASE loop.retval = "found"
    BY <1>1, <1>2, <1>3, <1>4, <1>7
  <1>8. QED BY <1>3, <1>6, <1>7

\* The macro in progress stands at the k-th element of its list, ...
At(k) ==
  IF loop.op = "delete" THEN DeleteAt(Queue[loop.list], k) ELSE ForeachAt(Queue[loop.list], k)

\* ... and goes on to the next.
Forward ==
  \E k \in 1 .. Len(Queue[loop.list]) :
    /\ At(k) /\ At(k + 1)'
    /\ Queue[loop.list]' # <<>> /\ Len(Queue[loop.list])' \in k .. Len(Queue[loop.list])

\* Where it then stands.
LEMMA NextPlace ==
  ASSUME Forward
  PROVE  \E k \in 1 .. Len(Queue[loop.list])' + 1 : At(k)' /\ Queue[loop.list]' # <<>>
  <1>1. PICK k \in 1 .. Len(Queue[loop.list]) :
          /\ At(k + 1)' /\ Queue[loop.list]' # <<>>
          /\ Len(Queue[loop.list])' \in k .. Len(Queue[loop.list])
    BY DEF Forward
  <1>2. k + 1 \in 1 .. Len(Queue[loop.list])' + 1
    BY <1>1
  <1>3. QED BY <1>1, <1>2

\* One iteration: the next element is the one looked for, and leaves, or
\* has been seen.
LEMMA DeleteLoopStep ==
  ASSUME CInv, DeleteLoop
  PROVE  /\ CInv'
         /\ Removal(loop.elem, loop.list) \/ UNCHANGED <<Queue, answer>>
         /\ Forward
  <1> DEFINE e == loop.elem
             l == loop.list
             s == Queue[l]
             hit == next[loop.scan] = e
  <1>1. /\ loop.op = "delete" /\ loop.scan # loop.tmp
        /\ IF hit THEN Becomes(Unlinked(e, loop.scan, l)) ELSE UNCHANGED <<next, tail>>
        /\ loop' = [loop EXCEPT !.scan = next'[loop.scan],
                                !.tmp = next'[tail'[l]],
                                !.retval = IF hit THEN "found" ELSE @]
        /\ answer' = IF hit THEN "found" ELSE answer
    BY DEF DeleteLoop
  <1>2. /\ loop \in [op : {"delete"}, elem : Elem, list : List, scan : Elem \cup {NULL},
                     tmp : Elem \cup {NULL}, retval : {"found", "missing"}]
        /\ e \in Elem /\ l \in List /\ s # <<>>
        /\ loop.retval = "found" => answer = "found"
        /\ answer \in {"found", "missing"}
    BY <1>1, Deleting DEF CInv
  <1>3. PICK k \in 1 .. Len(s) + 1 : DeleteAt(s, k)
    BY <1>1, Deleting
  <1>4. PICK q : q = Queue /\ Shape(next, tail, q)
    BY DEF CInv
  <1>5. /\ s \in Seq(Elem) /\ IsInjective(s) /\ Circle(next, s) /\ Len(s) \in Nat /\ Len(s) > 0
        /\ ToSet(s) \subseteq Elem /\ next[tail[l]] = s[1]
    BY <1>2, <1>4, ChainAt
  <1>6. s = q[l]
    BY <1>4
  <1> HIDE DEF s
  <1>7. /\ \A i, j \in 1 .. Len(s) : s[i] = s[j] => i = j
        /\ \A i \in 1 .. Len(s) : next[s[i]] = IF i = Len(s) THEN s[1] ELSE s[i + 1]
        /\ ToSet(s) = {s[i] : i \in 1 .. Len(s)}
    BY <1>5, CircleAt
  <1>8. k \in 1 .. Len(s) /\ loop.scan = s[k] /\ 1 \in 1 .. Len(s)
    <2>1. k > Len(s) => k # 1
      BY <1>3, <1>5
    <2>2. ~(k > Len(s))
      BY <1>1, <1>3, <2>1 DEF DeleteAt, Around
    <2>3. QED BY <1>3, <1>5, <2>2 DEF DeleteAt, Around
  <1>9. s[1] # e
    <2>1. 1 <= k
      BY <1>8, <1>5
    <2>2. QED BY <1>3, <1>8, <2>1 DEF DeleteAt
  <1>10. /\ loop'.op = "delete" /\ loop'.elem = e /\ loop'.list = l
         /\ loop'.scan = next'[s[k]] /\ loop'.tmp = next'[tail'[l]]
         /\ loop'.retval = IF hit THEN "found" ELSE loop.retval
    BY <1>1, <1>2, <1>8
  <1>11. ForeachInv'
    BY <1>10 DEF ForeachInv
  <1>12. CASE hit
    <2>1. k # Len(s) /\ e = s[k + 1]
      BY <1>7, <1>8, <1>9, <1>12
    <2>2. k + 1 \in 2 .. Len(s) /\ k + 1 \in 1 .. Len(s) /\ (k + 1) - 1 = k /\ Len(s) > 1
      BY <1>5, <1>8, <2>1
    <2> DEFINE c == RemoveAt(s, k + 1)
    <2>3. Shape(Unlinked(e, s[k], l).next, Unlinked(e, s[k], l).tail, [q EXCEPT ![l] = c])
      <3>1. Shape(Unlinked(q[l][k + 1], q[l][(k + 1) - 1], l).next,
                  Unlinked(q[l][k + 1], q[l][(k + 1) - 1], l).tail,
                  [q EXCEPT ![l] = RemoveAt(q[l], k + 1)])
        BY <1>2, <1>4, <1>6, <2>2, RemoveShape
      <3>2. QED BY <3>1, <1>6, <2>1, <2>2
    <2>4. /\ c \in Seq(Elem) /\ Len(c) = Len(s) - 1 /\ ToSet(c) = ToSet(s) \ {e}
          /\ RemoveFirst(s, e) = c /\ e \in ToSet(s)
          /\ c[k] = s[k] /\ c[1] = s[1]
      <3>1. \A j \in 1 .. Len(s) - 1 : c[j] = IF j < k + 1 THEN s[j] ELSE s[j + 1]
        BY <1>5, <2>2, RemovePoints
      <3>2. k \in 1 .. Len(s) - 1 /\ k < k + 1 /\ 1 \in 1 .. Len(s) - 1 /\ 1 < k + 1
        BY <1>5, <1>8, <2>1
      <3> HIDE DEF c
      <3>3. c[k] = s[k] /\ c[1] = s[1]
        BY <3>1, <3>2
      <3>4. QED BY <1>5, <2>1, <2>2, <3>3, RemovalOf DEF c
    <2> HIDE DEF c
    <2>5. next' = Unlinked(e, s[k], l).next /\ tail' = Unlinked(e, s[k], l).tail /\ answer' = "found"
      BY <1>1, <1>8, <1>12 DEF Becomes
    <2>6. Shape(next', tail', [q EXCEPT ![l] = c])
      BY <2>3, <2>5
    <2>7. Queue' = [q EXCEPT ![l] = c] /\ Shape(next', tail', Queue')
      BY <2>6, Changes
    <2>8. Queue'[l] = c
      BY <2>7, <1>2, <1>4 DEF Shape
    <2>9. Removal(e, l)
      BY <1>4, <1>6, <2>4, <2>5, <2>7 DEF Removal
    <2>10. c # <<>> /\ next'[tail'[l]] = c[1] /\ next'[s[k]] = Around(c, k + 1)
           /\ c[1] \in Elem /\ next'[s[k]] \in Elem
      <3>1. Len(c) > 0 /\ k \in 1 .. Len(c) /\ 1 \in 1 .. Len(c) /\ (k = Len(c) <=> k + 1 > Len(c))
        BY <1>5, <1>8, <2>1, <2>4
      <3>2. c # <<>>
        BY <3>1
      <3>3. Circle(next', c) /\ next'[tail'[l]] = c[1]
        <4>1. PICK r : r = Queue' /\ Shape(next', tail', r) /\ r[l] = c
          BY <2>7, <2>8
        <4>2. QED BY <1>2, <3>2, <4>1, ChainAt
      <3>4. next'[c[k]] = IF k = Len(c) THEN c[1] ELSE c[k + 1]
        BY <2>4, <3>1, <3>3, CircleAt
      <3>5. next'[s[k]] = Around(c, k + 1)
        BY <3>1, <3>4, <2>4 DEF Around
      <3>6. c[1] \in Elem
        BY <2>4, <3>1, ElementOfSeq
      <3>7. k # Len(c) => k + 1 \in 1 .. Len(c)
        BY <3>1, <2>4, <1>5
      <3>8. k # Len(c) => c[k + 1] \in Elem
        BY <2>4, <3>7, ElementOfSeq
      <3>9. QED BY <2>4, <3>2, <3>3, <3>4, <3>5, <3>6, <3>8
    <2>11. LoopType'
      BY <1>1, <1>2, <1>8, <2>10 DEF LoopType
    <2>12. Forward
      <3>1. k + 1 # 1 /\ Len(c) \in k .. Len(s)
        BY <1>5, <1>8, <2>2, <2>4
      <3>2. \A j \in 1 .. Len(c) : c[j] # e
        BY <2>4, ElementsOf
      <3>3. At(k + 1)'
        BY <1>10, <2>8, <2>10, <3>1, <3>2 DEF At, DeleteAt
      <3>4. At(k)
        BY <1>1, <1>3 DEF At, s
      <3>5. Queue[loop.list]' = c
        BY <1>10, <2>8
      <3>6. QED BY <1>8, <2>10, <3>1, <3>3, <3>4, <3>5 DEF Forward, s
    <2>13. DeleteInv'
      BY <1>10, <2>5, <2>12, NextPlace DEF DeleteInv, At
    <2>14. QED BY <1>11, <2>5, <2>7, <2>9, <2>11, <2>12, <2>13 DEF CInv, Shape
  <1>13. CASE ~hit
    <2>1. UNCHANGED <<next, tail>> /\ answer' = answer
      BY <1>1, <1>13
    <2>2. Queue' = Queue /\ Shape(next', tail', Queue')
      BY <2>1, Stays
    <2>3. Queue'[l] = s /\ next'[tail'[l]] = s[1]
      BY <1>4, <1>5, <1>6, <2>1, <2>2
    <2>4. next'[s[k]] = IF k = Len(s) THEN s[1] ELSE s[k + 1]
      BY <1>7, <1>8, <2>1
    <2>5. k = Len(s) <=> k + 1 > Len(s)
      BY <1>5, <1>8
    <2>6. next'[s[k]] = Around(s, k + 1)
      BY <2>4, <2>5 DEF Around
    <2>7. next'[s[k]] # e
      BY <1>8, <1>13, <2>1
    <2>8. s[1] \in Elem /\ next'[s[k]] \in Elem
      <3>1. k # Len(s) => k + 1 \in 1 .. Len(s)
        BY <1>5, <1>8
      <3>2. QED BY <1>5, <1>7, <1>8, <2>4, <3>1
    <2>9. LoopType'
      BY <1>1, <1>2, <1>8, <1>13, <2>3, <2>8 DEF LoopType
    <2>10. Forward
      <3>1. k + 1 # 1 /\ Len(s) \in k .. Len(s)
        BY <1>5, <1>8
      <3>2. ASSUME NEW j \in 1 .. Len(s), j <= k + 1 PROVE s[j] # e
        <4>1. CASE j <= k
          BY <1>3, <4>1 DEF DeleteAt
        <4>2. CASE ~(j <= k)
          <5>1. j = k + 1 /\ k # Len(s)
            BY <3>2, <4>2, <1>5, <1>8
          <5>2. QED BY <5>1, <2>4, <2>7
        <4>3. QED BY <4>1, <4>2
      <3>3. At(k + 1)'
        BY <1>10, <2>3, <2>6, <3>1, <3>2 DEF At, DeleteAt
      <3>4. At(k)
        BY <1>1, <1>3 DEF At, s
      <3>5. Queue[loop.list]' = s
        BY <1>10, <2>3
      <3>6. QED BY <1>2, <1>8, <3>1, <3>3, <3>4, <3>5 DEF Forward, s
    <2>11. DeleteInv'
      BY <1>2, <1>10, <1>13, <2>1, <2>10, NextPlace DEF DeleteInv, At
    <2>12. QED BY <1>2, <1>11, <2>1, <2>2, <2>9, <2>10, <2>11 DEF CInv, Shape
  <1>14. QED BY <1>12, <1>13

\* clist_foreach starts at the first element, if there is one.
LEMMA ForeachStart ==
  ASSUME CInv, NEW op \in {"out", "insert"}, NEW e \in Elem, NEW l \in List, Foreach(op, e, l),
         op = "insert" => \A m \in List : e \notin ToSet(Queue[m])
  PROVE  CInv' /\ UNCHANGED <<Queue, answer>>
  <1> DEFINE s == Queue[l]
  <1>1. /\ UNCHANGED <<next, tail, answer>> /\ loop = Idle
        /\ loop' = [op |-> op, elem |-> e, list |-> l, tmp |-> NULL,
                    scan |-> IF tail[l] = NULL THEN NULL ELSE First(l)]
    BY DEF Foreach
  <1>2. Queue' = Queue /\ Shape(next', tail', Queue')
    BY <1>1, Stays
  <1>3. PICK q : q = Queue /\ Shape(next, tail, q)
    BY DEF CInv
  <1>4. /\ s \in Seq(Elem) /\ Len(s) \in Nat
        /\ tail[l] = NULL <=> s = <<>>
        /\ s # <<>> => First(l) = s[1] /\ Len(s) > 0 /\ s[1] \in Elem
    BY <1>3, ChainAt DEF First
  <1>5. Queue'[l] = s /\ Queue'[loop'.list] = s
    BY <1>1, <1>2
  <1> HIDE DEF s
  <1>6. LoopType'
    BY <1>1, <1>4 DEF LoopType
  <1>7. DeleteInv'
    BY <1>1 DEF DeleteInv
  <1>8. ForeachInv'
    <2>1. 1 \in 1 .. Len(s) + 1 /\ \A j \in 1 .. Len(s) : ~(j < 1)
      BY <1>4
    <2>2. s # <<>> => ~(1 > Len(s))
      BY <1>4
    <2>3. s # <<>> => ForeachAt(s, 1)'
      BY <1>1, <1>4, <2>1, <2>2, <1>5, <1>2 DEF ForeachAt, Around, s
    <2>4. s = <<>> => loop'.scan = NULL /\ loop'.tmp = NULL
      BY <1>1, <1>4
    <2>5. loop'.op = "insert" => \A m \in List : loop'.elem \notin ToSet(Queue'[m])
      BY <1>1, <1>2
    <2>6. QED BY <1>2, <1>5, <2>1, <2>3, <2>4, <2>5 DEF ForeachInv, s
  <1>9. QED BY <1>1, <1>2, <1>6, <1>7, <1>8 DEF CInv, Shape

\* The record of a clist_foreach in progress.
LEMMA Looping ==
  ASSUME CInv, loop.op \in {"out", "insert"}
  PROVE  /\ loop \in [op : {"out", "insert"}, elem : Elem, list : List, scan : Elem \cup {NULL},
                      tmp : Elem \cup {NULL}]
         /\ loop.elem \in Elem /\ loop.list \in List
         /\ LET s == Queue[loop.list]
            IN /\ s \in Seq(Elem) /\ IsInjective(s) /\ Circle(next, s) /\ Len(s) \in Nat
               /\ tail[loop.list] = NULL <=> s = <<>>
               /\ ToSet(s) = {s[i] : i \in 1 .. Len(s)}
               /\ \A i \in 1 .. Len(s) : s[i] \in Elem
               /\ s = <<>> => loop.scan = NULL /\ loop.tmp = NULL
               /\ s # <<>> => /\ Len(s) > 0 /\ tail[loop.list] = s[Len(s)]
                              /\ tail[loop.list] # NULL /\ First(loop.list) = s[1]
                              /\ \E k \in 1 .. Len(s) + 1 : ForeachAt(s, k)
  <1> DEFINE s == Queue[loop.list]
  <1>1. loop \in [op : {"out", "insert"}, elem : Elem, list : List, scan : Elem \cup {NULL},
                      tmp : Elem \cup {NULL}]
    BY DEF CInv, LoopType, Idle
  <1>2. loop.elem \in Elem /\ loop.list \in List
    BY <1>1
  <1>3. /\ s = <<>> => loop.scan = NULL /\ loop.tmp = NULL
        /\ s # <<>> => \E k \in 1 .. Len(s) + 1 : ForeachAt(s, k)
    BY DEF CInv, ForeachInv
  <1>4. PICK q : q = Queue /\ Shape(next, tail, q)
    BY DEF CInv
  <1>5. /\ s \in Seq(Elem) /\ IsInjective(s) /\ Circle(next, s) /\ Len(s) \in Nat
        /\ tail[loop.list] = NULL <=> s = <<>>
        /\ s # <<>> => /\ Len(s) > 0 /\ tail[loop.list] = s[Len(s)] /\ First(loop.list) = s[1]
    BY <1>2, <1>4, ChainAt DEF First
  <1>6. /\ ToSet(s) = {s[i] : i \in 1 .. Len(s)}
        /\ \A i \in 1 .. Len(s) : s[i] \in Elem
    BY <1>5, ElementsOf, ElementOfSeq
  <1>7. QED BY <1>1, <1>2, <1>3, <1>5, <1>6

\* While it goes on, scan is an element not looked at and tmp the one before.
LEMMA GoesOn ==
  ASSUME CInv, loop.op \in {"out", "insert"}, ~LoopDone
  PROVE  LET s == Queue[loop.list]
         IN \E k \in 1 .. Len(s) :
              /\ ForeachAt(s, k)
              /\ loop.scan = s[k] /\ loop.tmp = IF k = 1 THEN NULL ELSE s[k - 1]
  <1> DEFINE s == Queue[loop.list]
  <1>1. loop.scan # NULL /\ loop.tmp # tail[loop.list]
    BY DEF LoopDone
  <1>2. /\ s # <<>> /\ Len(s) \in Nat /\ Len(s) > 0 /\ tail[loop.list] = s[Len(s)]
        /\ \E k \in 1 .. Len(s) + 1 : ForeachAt(s, k)
    BY <1>1, Looping
  <1> HIDE DEF s
  <1>3. PICK k \in 1 .. Len(s) + 1 : ForeachAt(s, k)
    BY <1>2
  <1>4. k # Len(s) + 1
    <2>1. SUFFICES ASSUME k = Len(s) + 1 PROVE FALSE
      OBVIOUS
    <2>2. k # 1 /\ k - 1 = Len(s)
      BY <1>2, <2>1
    <2>3. QED BY <1>1, <1>2, <1>3, <2>2 DEF ForeachAt
  <1>5. k \in 1 .. Len(s) /\ ~(k > Len(s))
    BY <1>2, <1>3, <1>4
  <1>6. ForeachAt(s, k) /\ loop.scan = s[k] /\ loop.tmp = IF k = 1 THEN NULL ELSE s[k - 1]
    BY <1>3, <1>5 DEF ForeachAt, Around
  <1>7. QED BY <1>5, <1>6 DEF s

\* When it is done, it has been past all elements.
LEMMA PastAll ==
  ASSUME CInv, loop.op \in {"out", "insert"}, LoopDone
  PROVE  LET s == Queue[loop.list]
         IN \A j \in 1 .. Len(s) : /\ loop.op = "out" => s[j] # loop.elem
                                   /\ loop.op = "insert" => s[j] < loop.elem
  <1> DEFINE s == Queue[loop.list]
             l == loop.list
  <1>1. /\ Circle(next, s) /\ Len(s) \in Nat /\ s \in Seq(Elem)
        /\ tail[l] = NULL <=> s = <<>>
        /\ \A i \in 1 .. Len(s) : s[i] \in Elem
        /\ s # <<>> => /\ Len(s) > 0 /\ tail[l] = s[Len(s)] /\ tail[l] # NULL
                       /\ \E k \in 1 .. Len(s) + 1 : ForeachAt(s, k)
    BY Looping
  <1> HIDE DEF s
  <1>2. CASE s = <<>>
    BY <1>2 DEF s
  <1>3. CASE s # <<>>
    <2>1. PICK k \in 1 .. Len(s) + 1 : ForeachAt(s, k)
      BY <1>1, <1>3
    <2>2. loop.scan # NULL
      <3>1. CASE k > Len(s)
        <4>1. 1 \in 1 .. Len(s)
          BY <1>1, <1>3
        <4>2. QED BY <1>1, <2>1, <3>1, <4>1, SizeOf DEF ForeachAt, Around
      <3>2. CASE ~(k > Len(s))
        <4>1. k \in 1 .. Len(s)
          BY <1>1, <2>1, <3>2
        <4>2. QED BY <1>1, <2>1, <3>2, <4>1, SizeOf DEF ForeachAt, Around
      <3>3. QED BY <3>1, <3>2
    <2>3. loop.tmp = tail[l]
      BY <2>2 DEF LoopDone
    <2>4. k # 1
      BY <1>1, <1>3, <2>1, <2>3 DEF ForeachAt
    <2>5. s[k - 1] = s[Len(s)]
      BY <1>1, <1>3, <2>1, <2>3, <2>4 DEF ForeachAt
    <2>6. k - 1 \in 1 .. Len(s) /\ Len(s) \in 1 .. Len(s)
      BY <1>1, <1>3, <2>1, <2>4
    <2>7. k - 1 = Len(s)
      BY <1>1, <2>5, <2>6, CircleAt
    <2>8. \A j \in 1 .. Len(s) : j < k
      BY <1>1, <2>1, <2>7
    <2>9. QED BY <2>1, <2>8 DEF ForeachAt, s
  <1>4. QED BY <1>2, <1>3

\* It goes past an element that is not the one, or smaller.
LEMMA AdvanceStep ==
  ASSUME CInv, loop.op \in {"out", "insert"}, ~LoopDone, Advance,
         loop.op = "out" => loop.scan # loop.elem,
         loop.op = "insert" => loop.scan < loop.elem
  PROVE  CInv' /\ Forward /\ UNCHANGED <<Queue, answer>>
  <1> DEFINE s == Queue[loop.list]
             l == loop.list
  <1>1. /\ loop \in [op : {"out", "insert"}, elem : Elem, list : List, scan : Elem \cup {NULL},
                     tmp : Elem \cup {NULL}]
        /\ loop.elem \in Elem /\ l \in List
        /\ s \in Seq(Elem) /\ Circle(next, s) /\ Len(s) \in Nat
        /\ \A i \in 1 .. Len(s) : s[i] \in Elem
    BY Looping
  <1>2. PICK k \in 1 .. Len(s) : ForeachAt(s, k) /\ loop.scan = s[k]
    BY GoesOn
  <1>3. /\ UNCHANGED <<next, tail, answer>>
        /\ loop' = [loop EXCEPT !.tmp = loop.scan, !.scan = next[loop.scan]]
    BY DEF Advance
  <1>4. Queue' = Queue /\ Shape(next', tail', Queue')
    BY <1>3, Stays
  <1>5. /\ loop'.op = loop.op /\ loop'.elem = loop.elem /\ loop'.list = l
        /\ loop'.tmp = s[k] /\ loop'.scan = next[s[k]] /\ Queue'[l] = s
    BY <1>1, <1>2, <1>3, <1>4
  <1>6. loop.op = "insert" => \A m \in List : loop.elem \notin ToSet(Queue[m])
    BY DEF CInv, ForeachInv
  <1> HIDE DEF s
  <1>7. next[s[k]] = IF k = Len(s) THEN s[1] ELSE s[k + 1]
    BY <1>1, CircleAt
  <1>8. next[s[k]] \in Elem /\ next[s[k]] = Around(s, k + 1)
    <2>1. 1 \in 1 .. Len(s) /\ (k # Len(s) => k + 1 \in 1 .. Len(s)) /\ (k = Len(s) <=> k + 1 > Len(s))
      BY <1>1
    <2>2. QED BY <1>1, <1>7, <2>1 DEF Around
  <1>9. LoopType'
    BY <1>1, <1>2, <1>3, <1>8 DEF LoopType
  <1>10. DeleteInv'
    BY <1>5 DEF DeleteInv
  <1>11. answer' \in {"found", "missing"}
    BY <1>3 DEF CInv
  <1>12. Forward
    <2>1. k + 1 # 1 /\ (k + 1) - 1 = k /\ s # <<>> /\ Len(s) \in k .. Len(s)
      BY <1>1
    <2>2. ASSUME NEW j \in 1 .. Len(s), j < k + 1
          PROVE  /\ loop.op = "out" => s[j] # loop.elem
                 /\ loop.op = "insert" => s[j] < loop.elem
      <3>1. CASE j < k
        BY <1>2, <3>1 DEF ForeachAt
      <3>2. CASE ~(j < k)
        <4>1. j = k
          BY <1>1, <2>2, <3>2
        <4>2. QED BY <4>1, <1>2
      <3>3. QED BY <3>1, <3>2
    <2>3. At(k + 1)'
      BY <1>1, <1>5, <1>8, <2>1, <2>2 DEF At, ForeachAt
    <2>4. At(k)
      BY <1>1, <1>2 DEF At, s
    <2>5. Queue[loop.list]' = s
      BY <1>5
    <2>6. QED BY <1>2, <2>1, <2>3, <2>4, <2>5 DEF Forward, s
  <1>13. ForeachInv'
    <2>1. loop'.op = "insert" => \A m \in List : loop'.elem \notin ToSet(Queue'[m])
      BY <1>4, <1>5, <1>6
    <2>2. loop'.op # "delete" /\ Queue[loop.list]' # <<>>
      BY <1>1, <1>5, <1>12 DEF Forward
    <2>3. QED BY <2>1, <2>2, <1>12, NextPlace DEF ForeachInv, At
  <1>14. QED BY <1>3, <1>4, <1>9, <1>10, <1>11, <1>12, <1>13 DEF CInv, Shape

\* outProcQ and outBlocked take the element out where they find it.
LEMMA OutLoopStep ==
  ASSUME CInv, OutLoop
  PROVE  /\ CInv'
         /\ Removal(loop.elem, loop.list) \/ UNCHANGED <<Queue, answer>>
  <1> DEFINE e == loop.elem
             l == loop.list
             s == Queue[l]
  <1>1. loop.op = "out" /\ ~LoopDone
    BY DEF OutLoop
  <1>2. CASE loop.scan # e
    <2>1. Advance
      BY <1>2 DEF OutLoop
    <2>2. QED BY <1>1, <1>2, <2>1, AdvanceStep
  <1>3. CASE loop.scan = e
    <2>1. /\ Becomes(IF First(l) = e THEN Dequeued(l) ELSE Unlinked(e, loop.tmp, l))
          /\ answer' = "found" /\ loop' = Idle
      BY <1>3 DEF OutLoop
    <2>2. /\ l \in List /\ s \in Seq(Elem) /\ IsInjective(s) /\ Circle(next, s) /\ Len(s) \in Nat
          /\ s # <<>> => First(l) = s[1]
      BY <1>1, Looping
    <2>3. PICK k \in 1 .. Len(s) : e = s[k] /\ loop.tmp = IF k = 1 THEN NULL ELSE s[k - 1]
      BY <1>1, <1>3, GoesOn
    <2>4. PICK q : q = Queue /\ Shape(next, tail, q)
      BY DEF CInv
    <2>5. s = q[l]
      BY <2>4
    <2> HIDE DEF s
    <2>6. 1 \in 1 .. Len(s) /\ s # <<>> /\ (k # 1 => k \in 2 .. Len(s))
      BY <2>2, <2>3
    <2>7. First(l) = e <=> k = 1
      BY <2>2, <2>3, <2>6, CircleAt
    <2>8. RemoveFirst(s, e) = RemoveAt(s, k) /\ e \in ToSet(s) /\ RemoveAt(s, 1) = Tail(s)
      BY <2>2, <2>3, RemovalOf
    <2>9. Shape(next', tail', [q EXCEPT ![l] = RemoveAt(s, k)])
      <3>1. CASE k = 1
        <4>1. next' = Dequeued(l).next /\ tail' = Dequeued(l).tail
          BY <2>1, <2>7, <3>1 DEF Becomes
        <4>2. Shape(Dequeued(l).next, Dequeued(l).tail, [q EXCEPT ![l] = Tail(q[l])])
          BY <2>2, <2>4, <2>5, <2>6, DequeueShape
        <4>3. QED BY <2>5, <2>8, <3>1, <4>1, <4>2
      <3>2. CASE k # 1
        <4>1. next' = Unlinked(s[k], s[k - 1], l).next /\ tail' = Unlinked(s[k], s[k - 1], l).tail
          BY <2>1, <2>3, <2>7, <3>2 DEF Becomes
        <4>2. k \in 2 .. Len(q[l])
          BY <2>5, <2>6, <3>2
        <4>3. Shape(Unlinked(q[l][k], q[l][k - 1], l).next, Unlinked(q[l][k], q[l][k - 1], l).tail,
                    [q EXCEPT ![l] = RemoveAt(q[l], k)])
          BY <2>2, <2>4, <4>2, RemoveShape
        <4>4. QED BY <2>5, <4>1, <4>3
      <3>3. QED BY <3>1, <3>2
    <2>10. Queue' = [q EXCEPT ![l] = RemoveAt(s, k)] /\ Shape(next', tail', Queue')
      BY <2>9, Changes
    <2>11. Removal(e, l)
      BY <2>1, <2>4, <2>5, <2>8, <2>10 DEF Removal
    <2>12. QED BY <2>1, <2>10, <2>11, NoLoop
  <1>4. QED BY <1>2, <1>3

\* They answer NULL only for an element that is not there.
LEMMA OutEndStep ==
  ASSUME CInv, OutEnd
  PROVE  CInv' /\ Removal(loop.elem, loop.list)
  <1>1. /\ loop.op = "out" /\ LoopDone /\ answer' = "missing" /\ loop' = Idle
        /\ UNCHANGED <<next, tail>>
    BY DEF OutEnd
  <1>2. Queue' = Queue /\ Shape(next', tail', Queue')
    BY <1>1, Stays
  <1>3. loop.elem \notin ToSet(Queue[loop.list]) /\ loop.list \in List
    BY <1>1, PastAll, Looping
  <1>4. Removal(loop.elem, loop.list)
    BY <1>1, <1>2, <1>3, NothingThere
  <1>5. QED BY <1>1, <1>2, <1>4, NoLoop

\* An insertion of e into l, as ListSpec has it.
Insertion(e, l) ==
  /\ \E i \in 0 .. Len(Queue[l]) :
       /\ \A j \in 1 .. i : Queue[l][j] < e
       /\ i < Len(Queue[l]) => Queue[l][i + 1] > e
       /\ Queue' = [Queue EXCEPT ![l] = SubSeq(Queue[l], 1, i) \o <<e>>
                                          \o SubSeq(Queue[l], i + 1, Len(Queue[l]))]
  /\ UNCHANGED answer

\* insertBlocked stops at the first greater element.
LEMMA InsertLoopStep ==
  ASSUME CInv, InsertLoop
  PROVE  /\ CInv'
         /\ \/ Insertion(loop.elem, loop.list)
            \/ UNCHANGED <<Queue, answer>>
  <1> DEFINE e == loop.elem
             l == loop.list
             s == Queue[l]
  <1>1. loop.op = "insert" /\ ~LoopDone
    BY DEF InsertLoop
  <1>2. /\ l \in List /\ e \in Elem /\ s \in Seq(Elem) /\ Len(s) \in Nat
        /\ ToSet(s) = {s[i] : i \in 1 .. Len(s)} /\ \A i \in 1 .. Len(s) : s[i] \in Elem
        /\ \A m \in List : e \notin ToSet(Queue[m])
    BY <1>1, Looping DEF CInv, ForeachInv
  <1>3. PICK k \in 1 .. Len(s) : /\ ForeachAt(s, k) /\ loop.scan = s[k]
                                 /\ loop.tmp = IF k = 1 THEN NULL ELSE s[k - 1]
    BY <1>1, GoesOn
  <1>4. s[k] \in Int /\ e \in Int /\ s[k] # e /\ s[k] \in Elem
    BY <1>2, SizeOf DEF Elem
  <1>5. CASE ~(e < loop.scan)
    <2>1. Advance
      BY <1>5 DEF InsertLoop
    <2>2. loop.scan < e
      BY <1>3, <1>4, <1>5
    <2>3. QED BY <1>1, <2>1, <2>2, AdvanceStep
  <1>6. CASE e < loop.scan
    <2>1. Becomes(Added(e, loop.scan, loop.tmp, l)) /\ loop' = Idle /\ answer' = answer
      BY <1>6 DEF InsertLoop
    <2>2. PICK q : q = Queue /\ Shape(next, tail, q)
      BY DEF CInv
    <2>3. s = q[l] /\ \A m \in List : e \notin ToSet(q[m])
      BY <1>2, <2>2
    <2> DEFINE r == SubSeq(s, 1, k - 1) \o <<e>> \o SubSeq(s, (k - 1) + 1, Len(s))
    <2> HIDE DEF s
    <2>4. k - 1 \in 0 .. Len(s) /\ (k - 1) + 1 = k /\ (k # 1 => k \in 2 .. Len(s))
      BY <1>2, <1>3
    <2>5. Shape(next', tail', [q EXCEPT ![l] = r])
      <3>1. CASE k = 1
        <4>1. loop.tmp = NULL
          BY <1>3, <3>1
        <4>2. next' = Pushed(e, l).next /\ tail' = Pushed(e, l).tail
          BY <2>1, <4>1 DEF Becomes, Added
        <4>3. SubSeq(s, 1, 0) = <<>> /\ SubSeq(s, 1, Len(s)) = s
          BY <1>2, SubSeqEmpty, SubSeqFull
        <4>4. r = <<>> \o <<e>> \o s
          BY <2>4, <3>1, <4>3
        <4>5. <<>> \o <<e>> = <<e>>
          <5>1. <<e>> \in Seq(Elem)
            BY <1>2
          <5>2. QED BY <5>1, ConcatEmptySeq
        <4>6. Shape(Pushed(e, l).next, Pushed(e, l).tail, [q EXCEPT ![l] = <<e>> \o q[l]])
          BY <1>2, <2>2, <2>3, PushShape
        <4> HIDE DEF r
        <4>7. QED BY <2>3, <4>2, <4>4, <4>5, <4>6
      <3>2. CASE k # 1
        <4>1. loop.tmp = s[k - 1] /\ loop.scan = s[k]
          BY <1>3, <3>2
        <4>2. next' = Added(e, s[k], s[k - 1], l).next /\ tail' = Added(e, s[k], s[k - 1], l).tail
          BY <2>1, <4>1 DEF Becomes
        <4>3. r = InsertAt(s, k, e)
          BY <2>4 DEF InsertAt
        <4>4. k \in 2 .. Len(q[l])
          BY <2>3, <2>4, <3>2
        <4>5. Shape(Added(e, q[l][k], q[l][k - 1], l).next, Added(e, q[l][k], q[l][k - 1], l).tail,
                    [q EXCEPT ![l] = InsertAt(q[l], k, e)])
          BY <1>2, <2>2, <2>3, <4>4, AddShape
        <4> HIDE DEF r
        <4>6. QED BY <2>3, <4>2, <4>3, <4>5
      <3>3. QED BY <3>1, <3>2
    <2>6. Queue' = [q EXCEPT ![l] = r] /\ Shape(next', tail', Queue')
      BY <2>5, Changes
    <2>7. \A j \in 1 .. k - 1 : s[j] < e
      <3>1. \A j \in 1 .. k - 1 : j \in 1 .. Len(s) /\ j < k
        BY <1>2
      <3>2. QED BY <3>1, <1>1, <1>3 DEF ForeachAt
    <2>8. s[(k - 1) + 1] > e
      BY <1>3, <1>4, <1>6, <2>4
    <2>9. Insertion(e, l)
      BY <2>1, <2>2, <2>4, <2>6, <2>7, <2>8 DEF Insertion, s, r
    <2>10. answer' \in {"found", "missing"}
      BY <2>1 DEF CInv
    <2>11. QED BY <2>1, <2>6, <2>9, <2>10, NoLoop
  <1>7. QED BY <1>5, <1>6

\* It enqueues an element greater than all.
LEMMA InsertEndStep ==
  ASSUME CInv, InsertEnd
  PROVE  CInv' /\ Insertion(loop.elem, loop.list)
  <1> DEFINE e == loop.elem
             l == loop.list
             s == Queue[l]
  <1>1. /\ loop.op = "insert" /\ LoopDone /\ loop' = Idle /\ answer' = answer
        /\ next' = Enqueued(e, l).next /\ tail' = Enqueued(e, l).tail
    BY DEF InsertEnd, Becomes
  <1>2. /\ l \in List /\ e \in Elem /\ s \in Seq(Elem) /\ Len(s) \in Nat
        /\ \A m \in List : e \notin ToSet(Queue[m])
    BY <1>1, Looping DEF CInv, ForeachInv
  <1>3. \A j \in 1 .. Len(s) : s[j] < e
    BY <1>1, PastAll
  <1>4. PICK q : q = Queue /\ Shape(next, tail, q)
    BY DEF CInv
  <1>5. s = q[l] /\ \A m \in List : e \notin ToSet(q[m])
    BY <1>2, <1>4
  <1>6. Shape(Enqueued(e, l).next, Enqueued(e, l).tail, [q EXCEPT ![l] = Append(q[l], e)])
    BY <1>2, <1>4, <1>5, EnqueueShape
  <1>7. Queue' = [q EXCEPT ![l] = Append(q[l], e)] /\ Shape(next', tail', Queue')
    <2>1. Shape(next', tail', [q EXCEPT ![l] = Append(q[l], e)])
      BY <1>1, <1>6
    <2>2. QED BY <2>1, Changes
  <1> DEFINE r == SubSeq(s, 1, Len(s)) \o <<e>> \o SubSeq(s, Len(s) + 1, Len(s))
  <1> HIDE DEF s
  <1>8. r = Append(s, e)
    <2>1. SubSeq(s, 1, Len(s)) = s
      BY <1>2, SubSeqFull
    <2>2. SubSeq(s, Len(s) + 1, Len(s)) = <<>>
      <3>1. Len(s) \in Int /\ Len(s) + 1 \in Int /\ Len(s) < Len(s) + 1
        BY <1>2
      <3>2. QED BY <3>1, SubSeqEmpty
    <2>3. <<e>> \in Seq(Elem) /\ s \o <<e>> \in Seq(Elem)
      BY <1>2, ConcatProperties
    <2>4. s \o <<e>> \o <<>> = s \o <<e>>
      BY <2>3, ConcatEmptySeq
    <2>5. s \o <<e>> = Append(s, e)
      BY <1>2, AppendIsConcat
    <2>6. QED BY <2>1, <2>2, <2>4, <2>5
  <1> HIDE DEF r
  <1>9. Queue' = [q EXCEPT ![l] = r]
    BY <1>5, <1>7, <1>8
  <1>10. Len(s) \in 0 .. Len(s) /\ ~(Len(s) < Len(s))
    BY <1>2
  <1>11. Insertion(e, l)
    BY <1>1, <1>3, <1>4, <1>9, <1>10 DEF Insertion, s, r
  <1>12. answer' \in {"found", "missing"}
    BY <1>1 DEF CInv
  <1>13. QED BY <1>1, <1>7, <1>11, <1>12, NoLoop

-----------------------------------------------------------------------------
(* Theorems *)

\* CInv is an invariant.
THEOREM ClistInvariant == Spec => []CInv
  <1>1. CInv /\ [Next]_vars => CInv'
    <2>1. SUFFICES ASSUME CInv, [Next]_vars PROVE CInv'
      OBVIOUS
    <2>2. CASE Step
      BY <2>1, <2>2, DeleteLoopStep, DeleteEndStep, OutLoopStep, OutEndStep, InsertLoopStep,
         InsertEndStep DEF Step
    <2>3. CASE Alloc
      BY <2>1, <2>3, AllocStep
    <2>4. ASSUME NEW l \in List, Dequeue(l) PROVE CInv'
      BY <2>1, <2>4, DequeueStep
    <2>5. ASSUME NEW l \in List, NEW e \in Elem, Enqueue(e, l) PROVE CInv'
      BY <2>1, <2>5, EnqueueStep
    <2>6. ASSUME NEW l \in List, NEW e \in Elem, Push(e, l) PROVE CInv'
      BY <2>1, <2>6, PushStep
    <2>7. ASSUME NEW l \in List, NEW e \in Elem, Delete(e, l) PROVE CInv'
      BY <2>1, <2>7, DeleteStep
    <2>8. ASSUME NEW l \in List, NEW e \in Elem, OutBegin(e, l) PROVE CInv'
      BY <2>1, <2>8, ForeachStart DEF OutBegin
    <2>9. ASSUME NEW l \in List, NEW e \in Elem, InsertBegin(e, l) PROVE CInv'
      BY <2>1, <2>9, ForeachStart, OffAll DEF InsertBegin
    <2>10. CASE UNCHANGED vars
      <3>1. UNCHANGED <<next, tail, loop, answer>>
        BY <2>10 DEF vars
      <3>2. Queue' = Queue /\ Shape(next', tail', Queue')
        BY <2>1, <3>1, Stays
      <3>3. /\ answer' \in {"found", "missing"} /\ LoopType' /\ DeleteInv' /\ ForeachInv'
        BY <2>1, <3>1, <3>2
           DEF CInv, LoopType, DeleteInv, DeleteAt, ForeachInv, ForeachAt, Around
      <3>4. QED BY <3>2, <3>3 DEF CInv, Shape
    <2>11. QED BY <2>1, <2>2, <2>3, <2>4, <2>5, <2>6, <2>7, <2>8, <2>9, <2>10 DEF Next
  <1>2. QED BY <1>1, InitInv, PTL DEF Spec

LEMMA InvRings == CInv => Rings
  <1>1. SUFFICES ASSUME CInv PROVE Rings
    OBVIOUS
  <1>2. PICK q : q = Queue /\ Shape(next, tail, q)
    BY <1>1 DEF CInv
  <1>3. /\ next \in [Elem -> Elem \cup {NULL}] /\ tail \in [List -> Elem \cup {NULL}]
        /\ \A l, m \in List : l # m => ToSet(q[l]) \cap ToSet(q[m]) = {}
    BY <1>2 DEF Shape
  <1>4. ASSUME NEW l \in List
        PROVE  /\ Ring(l) = ToSet(q[l])
               /\ tail[l] # NULL => tail[l] \in ToSet(q[l]) /\ next[tail[l]] # NULL
    BY <1>2, QueueNow, ChainAt, SizeOf
  <1>5. /\ loop.op \in {"idle", "delete", "out", "insert"}
        /\ loop # Idle => /\ loop.elem \in Elem /\ loop.list \in List
                          /\ loop.scan \in Elem \cup {NULL} /\ loop.tmp \in Elem \cup {NULL}
    BY <1>1 DEF CInv, LoopType, Idle
  <1>6. TypeOK
    BY <1>1, <1>3, <1>4, <1>5 DEF TypeOK, CInv
  <1>7. QED BY <1>3, <1>4, <1>6 DEF Rings

\* The lists are disjoint rings, each closed at its last element, at every
\* iteration of every macro.
THEOREM RingsHold == Spec => []Rings
  BY ClistInvariant, InvRings, PTL

\* The helpers that ListSpec and Clist have in common.
LEMMA SameHelpers ==
  /\ \A s, e : Lists!RemoveFirst(s, e) = RemoveFirst(s, e)
  /\ \A s : Lists!ToSet(s) = ToSet(s)
  /\ Lists!Elem = Elem
  <1>1. ASSUME NEW s, NEW e PROVE Lists!RemoveFirst(s, e) = RemoveFirst(s, e)
    BY DEF Lists!RemoveFirst, RemoveFirst, Lists!RemoveAt, RemoveAt,
           Lists!SelectInSeq, SelectInSeq, Lists!Min, Min
  <1>2. ASSUME NEW s PROVE Lists!ToSet(s) = ToSet(s)
    BY DEF Lists!ToSet, ToSet
  <1>3. Lists!Elem = Elem
    BY DEF Lists!Elem, Elem
  <1>4. QED BY <1>1, <1>2, <1>3

\* Removals and insertions are those of ListSpec.
LEMMA RemovalRefines ==
  ASSUME NEW e, NEW l, Removal(e, l)
  PROVE  Lists!TakeOut(e, l)
  BY SameHelpers DEF Removal, Lists!TakeOut, Queue

LEMMA DetachedRefines ==
  ASSUME NEW e, \A l \in List : e \notin ToSet(Queue[l])
  PROVE  Lists!Detached(e)
  BY SameHelpers DEF Lists!Detached, Queue

LEMMA InsertionRefines ==
  ASSUME CInv, loop.op = "insert", Insertion(loop.elem, loop.list)
  PROVE  Lists!Insert(loop.elem, loop.list)
  <1>1. \A l \in List : loop.elem \notin ToSet(Queue[l])
    BY DEF CInv, ForeachInv
  <1>2. Lists!Detached(loop.elem)
    BY <1>1, DetachedRefines
  <1>3. QED BY <1>2 DEF Insertion, Lists!Insert, Queue

\* The macros implement queues: every step is one of ListSpec, on the
\* sequences the links stand for, or changes neither them nor an answer.
THEOREM ClistImplements == Spec => ImplementsQueues
  <1>1. Init => Lists!Init
    <2>1. SUFFICES ASSUME Init PROVE Lists!Init
      OBVIOUS
    <2>2. Queue = [l \in List |-> IF l = Free THEN [i \in Elem |-> i] ELSE <<>>]
      BY <2>1, InitInv
    <2>3. answer = "missing"
      BY <2>1 DEF Init
    <2>4. QED BY <2>2, <2>3, SameHelpers DEF Lists!Init, Queue
  <1>2. CInv /\ [Next]_vars => [Lists!Next]_<<Queue, answer>>
    <2>1. SUFFICES ASSUME CInv, [Next]_vars PROVE [Lists!Next]_<<Queue, answer>>
      OBVIOUS
    <2>2. ASSUME NEW l \in List, NEW e \in Elem,
                 \/ Removal(e, l) \/ Lists!Insert(e, l) \/ Lists!Enqueue(e, l)
                 \/ Lists!Push(e, l)
          PROVE  Lists!Next
      BY <2>2, RemovalRefines, SameHelpers DEF Lists!Next
    <2>3. ASSUME NEW l \in List, Lists!Dequeue(l) PROVE Lists!Next
      BY <2>3 DEF Lists!Next
    <2>4. CASE Step
      <3>1. CASE DeleteLoop
        <4>1. loop.elem \in Elem /\ loop.list \in List
          BY <2>1, <3>1, Deleting DEF DeleteLoop
        <4>2. QED BY <2>1, <2>2, <3>1, <4>1, DeleteLoopStep
      <3>2. CASE DeleteEnd
        <4>1. loop.elem \in Elem /\ loop.list \in List
          BY <2>1, <3>2, Deleting DEF DeleteEnd
        <4>2. QED BY <2>1, <2>2, <3>2, <4>1, DeleteEndStep
      <3>3. CASE OutLoop
        <4>1. loop.elem \in Elem /\ loop.list \in List
          BY <2>1, <3>3, Looping DEF OutLoop
        <4>2. QED BY <2>1, <2>2, <3>3, <4>1, OutLoopStep
      <3>4. CASE OutEnd
        <4>1. loop.elem \in Elem /\ loop.list \in List
          BY <2>1, <3>4, Looping DEF OutEnd
        <4>2. QED BY <2>1, <2>2, <3>4, <4>1, OutEndStep
      <3>5. CASE InsertLoop
        <4>1. loop.elem \in Elem /\ loop.list \in List /\ loop.op = "insert"
          BY <2>1, <3>5, Looping DEF InsertLoop
        <4>2. QED BY <2>1, <2>2, <3>5, <4>1, InsertLoopStep, InsertionRefines
      <3>6. CASE InsertEnd
        <4>1. loop.elem \in Elem /\ loop.list \in List /\ loop.op = "insert"
          BY <2>1, <3>6, Looping DEF InsertEnd
        <4>2. QED BY <2>1, <2>2, <3>6, <4>1, InsertEndStep, InsertionRefines
      <3>7. QED BY <2>4, <3>1, <3>2, <3>3, <3>4, <3>5, <3>6 DEF Step
    <2>5. ASSUME NEW l \in List, Queue[l] # <<>>, Queue' = [Queue EXCEPT ![l] = Tail(Queue[l])],
                 UNCHANGED answer
          PROVE  Lists!Next
      BY <2>3, <2>5 DEF Lists!Dequeue, Queue
    <2>6. CASE Alloc
      <3>1. Free \in List /\ UNCHANGED answer
        BY <2>6, ClistAssumption DEF Alloc
      <3>2. QED BY <2>1, <2>5, <2>6, <3>1, AllocStep
    <2>7. ASSUME NEW l \in List, Dequeue(l) PROVE Lists!Next
      BY <2>1, <2>5, <2>7, DequeueStep DEF Dequeue
    <2>8. ASSUME NEW l \in List, NEW e \in Elem, Enqueue(e, l) PROVE Lists!Next
      <3>1. Lists!Detached(e) /\ UNCHANGED answer
        BY <2>1, <2>8, OffAll, DetachedRefines DEF Enqueue
      <3>2. Queue' = [Queue EXCEPT ![l] = Append(Queue[l], e)]
        BY <2>1, <2>8, EnqueueStep
      <3>3. Lists!Enqueue(e, l)
        BY <3>1, <3>2 DEF Lists!Enqueue, Queue
      <3>4. QED BY <2>2, <3>3
    <2>9. ASSUME NEW l \in List, NEW e \in Elem, Push(e, l) PROVE Lists!Next
      <3>1. Lists!Detached(e) /\ UNCHANGED answer
        BY <2>1, <2>9, OffAll, DetachedRefines DEF Push
      <3>2. Queue' = [Queue EXCEPT ![l] = <<e>> \o Queue[l]]
        BY <2>1, <2>9, PushStep
      <3>3. Lists!Push(e, l)
        BY <3>1, <3>2 DEF Lists!Push, Queue
      <3>4. QED BY <2>2, <3>3
    <2>10. ASSUME NEW l \in List, NEW e \in Elem, Delete(e, l)
           PROVE  [Lists!Next]_<<Queue, answer>>
      BY <2>1, <2>2, <2>10, DeleteStep
    <2>11. ASSUME NEW l \in List, NEW e \in Elem, OutBegin(e, l)
           PROVE  UNCHANGED <<Queue, answer>>
      BY <2>1, <2>11, ForeachStart DEF OutBegin
    <2>12. ASSUME NEW l \in List, NEW e \in Elem, InsertBegin(e, l)
           PROVE  UNCHANGED <<Queue, answer>>
      BY <2>1, <2>12, ForeachStart, OffAll DEF InsertBegin
    <2>13. CASE UNCHANGED vars
      BY <2>1, <2>13, Stays DEF vars
    <2>14. QED BY <2>1, <2>4, <2>6, <2>7, <2>8, <2>9, <2>10, <2>11, <2>12, <2>13 DEF Next
  <1>3. CInv /\ [Next]_vars => [Lists!Next]_<<[l \in List |-> Content(l)], answer>>
    BY <1>2 DEF Queue
  <1>4. QED BY <1>1, <1>3, ClistInvariant, PTL DEF Spec, ImplementsQueues, Lists!Spec

-----------------------------------------------------------------------------
(* The loops are bounded *)

\* Where in its list the macro in progress stands, and how many steps of its
\* are left at most.
Place == CHOOSE k \in 1 .. Len(Queue[loop.list]) + 1 : At(k)

ToGo ==
  IF loop = Idle THEN 0
  ELSE IF Queue[loop.list] = <<>> THEN 1 ELSE Len(Queue[loop.list]) + 2 - Place

\* An iteration for each element that may be on the list, and the end.
LoopsBounded == ToGo \in 0 .. N + 1

\* A macro once begun is not left before its end, and each of its steps
\* brings the end nearer.
Nears == loop # Idle => Step /\ ToGo' < ToGo

\* What CInv says of a macro in progress.
Standing ==
  loop # Idle =>
    /\ Queue[loop.list] \in Seq(Elem) /\ Len(Queue[loop.list]) \in 0 .. N
    /\ Queue[loop.list] = <<>> => ToGo = 1
    /\ Queue[loop.list] # <<>> =>
         /\ \E k \in 1 .. Len(Queue[loop.list]) + 1 : At(k)
         /\ \A k \in 1 .. Len(Queue[loop.list]) + 1 :
              At(k) => ToGo = Len(Queue[loop.list]) + 2 - k

LEMMA StandingHolds == CInv => Standing
  <1>1. SUFFICES ASSUME CInv, loop # Idle PROVE Standing
    BY DEF Standing
  <1> DEFINE s == Queue[loop.list]
             n == Len(s)
  <1>2. loop.list \in List /\ loop.op \in {"delete", "out", "insert"}
    BY <1>1 DEF CInv, LoopType
  <1>3. PICK q : q = Queue /\ Shape(next, tail, q)
    BY <1>1 DEF CInv
  <1>4. s \in Seq(Elem) /\ IsInjective(s) /\ Circle(next, s) /\ n \in Nat /\ (s # <<>> => n > 0)
    BY <1>2, <1>3, ChainAt
  <1>5. n \in 0 .. N
    BY <1>4, AtMostN, SizeOf
  <1>6. s # <<>> => \E k \in 1 .. n + 1 : At(k)
    BY <1>1, <1>2 DEF CInv, DeleteInv, ForeachInv, At
  <1> HIDE DEF s
  <1>7. /\ \A i, j \in 1 .. n : s[i] = s[j] => i = j
        /\ \A i \in 1 .. n : s[i] \in Elem
    BY <1>4, CircleAt, ElementOfSeq
  <1>8. ASSUME s # <<>>, NEW j \in 1 .. n + 1, NEW k \in 1 .. n + 1, At(j), At(k)
        PROVE  j = k
    <2>1. s[1] # NULL /\ 1 \in 1 .. n
      BY <1>4, <1>7, <1>8, SizeOf
    <2>2. CASE loop.op = "delete"
      <3>1. DeleteAt(s, j) /\ DeleteAt(s, k)
        BY <1>8, <2>2 DEF At, s
      <3>2. j = 1 <=> k = 1
        BY <2>1, <3>1 DEF DeleteAt
      <3>3. CASE j # 1 /\ k # 1
        <4>1. Around(s, j) = Around(s, k)
          BY <3>1 DEF DeleteAt
        <4>2. /\ j \in 1 .. n \/ j = n + 1
              /\ k \in 1 .. n \/ k = n + 1
              /\ j \in 1 .. n => ~(j > n)
              /\ k \in 1 .. n => ~(k > n)
              /\ n + 1 > n
          BY <1>4
        <4>3. QED BY <1>7, <2>1, <3>3, <4>1, <4>2 DEF Around
      <3>4. QED BY <3>2, <3>3
    <2>3. CASE loop.op # "delete"
      <3>1. ForeachAt(s, j) /\ ForeachAt(s, k)
        BY <1>8, <2>3 DEF At, s
      <3>2. \A i \in 1 .. n + 1 : i # 1 => i - 1 \in 1 .. n
        BY <1>4
      <3>3. \A i \in 1 .. n + 1 : i # 1 => s[i - 1] # NULL
        BY <1>7, <3>2, SizeOf
      <3>4. j = 1 <=> k = 1
        BY <3>1, <3>3 DEF ForeachAt
      <3>5. CASE j # 1 /\ k # 1
        <4>1. s[j - 1] = s[k - 1]
          BY <3>1, <3>5 DEF ForeachAt
        <4>2. j - 1 = k - 1
          BY <1>7, <3>2, <3>5, <4>1
        <4>3. QED BY <1>4, <4>2
      <3>6. QED BY <3>4, <3>5
    <2>4. QED BY <2>2, <2>3
  <1>9. ASSUME s # <<>>, NEW k \in 1 .. n + 1, At(k) PROVE ToGo = n + 2 - k
    <2>1. Place = k
      BY <1>8, <1>9 DEF Place, s
    <2>2. QED BY <1>1, <1>9, <2>1 DEF ToGo, s
  <1>10. s = <<>> => ToGo = 1
    BY <1>1 DEF ToGo, s
  <1>11. QED BY <1>4, <1>5, <1>6, <1>9, <1>10 DEF Standing, s

LEMMA BoundedByList == CInv => LoopsBounded
  <1>1. SUFFICES ASSUME CInv PROVE LoopsBounded
    OBVIOUS
  <1>2. N \in Nat
    BY SizeOf
  <1>3. CASE loop = Idle
    BY <1>2, <1>3 DEF LoopsBounded, ToGo
  <1>4. CASE loop # Idle
    <2> DEFINE n == Len(Queue[loop.list])
    <2>1. Standing
      BY <1>1, StandingHolds
    <2>2. n \in 0 .. N
      BY <1>4, <2>1 DEF Standing
    <2>3. \/ ToGo = 1
          \/ \E k \in 1 .. n + 1 : ToGo = n + 2 - k
      BY <1>4, <2>1 DEF Standing
    <2> HIDE DEF n
    <2>4. QED BY <1>2, <2>2, <2>3 DEF LoopsBounded
  <1>5. QED BY <1>3, <1>4


\* A step forward.
LEMMA ForwardNears ==
  ASSUME Standing, Standing', loop # Idle, loop' # Idle, Forward
  PROVE  ToGo' < ToGo
  <1> DEFINE s == Queue[loop.list]
             t == Queue[loop.list]'
  <1>1. PICK k \in 1 .. Len(s) : /\ At(k) /\ At(k + 1)'
                                 /\ t # <<>> /\ Len(t) \in k .. Len(s)
    BY DEF Forward
  <1>2. Len(s) \in Nat /\ (s = <<>> => Len(s) = 0)
    BY DEF Standing
  <1>3. s # <<>> /\ k \in 1 .. Len(s) + 1 /\ k + 1 \in 1 .. Len(t) + 1
    BY <1>1, <1>2
  <1>4. ToGo = Len(s) + 2 - k
    BY <1>1, <1>3 DEF Standing
  <1>5. ToGo' = Len(t) + 2 - (k + 1)
    BY <1>1, <1>3 DEF Standing
  <1> HIDE DEF s, t
  <1>6. QED BY <1>1, <1>2, <1>4, <1>5

LEMMA StepNears ==
  ASSUME CInv, Standing, Standing', [Next]_vars, vars' # vars, loop # Idle
  PROVE  Step /\ ToGo' < ToGo
  <1>1. Step
    BY DEF Next, Alloc, Dequeue, Enqueue, Push, Delete, OutBegin, InsertBegin, Foreach
  <1>2. ToGo \in Nat /\ ToGo > 0
    <2> DEFINE n == Len(Queue[loop.list])
    <2>1. n \in Nat
      BY DEF Standing
    <2>2. \/ ToGo = 1
          \/ \E k \in 1 .. n + 1 : ToGo = n + 2 - k
      BY DEF Standing
    <2> HIDE DEF n
    <2>3. QED BY <2>1, <2>2
  <1>3. CASE loop' = Idle
    BY <1>1, <1>2, <1>3 DEF ToGo
  <1>4. CASE loop' # Idle
    <2>1. DeleteLoop \/ OutLoop \/ InsertLoop
      BY <1>1, <1>4 DEF Step, DeleteEnd, OutEnd, InsertEnd
    <2>2. CASE DeleteLoop
      BY <1>1, <1>4, <2>2, DeleteLoopStep, ForwardNears
    <2>3. CASE OutLoop
      <3>1. loop.op = "out" /\ ~LoopDone /\ loop.scan # loop.elem /\ Advance
        BY <1>4, <2>3 DEF OutLoop
      <3>2. QED BY <1>1, <1>4, <3>1, AdvanceStep, ForwardNears
    <2>4. CASE InsertLoop
      <3>1. loop.op = "insert" /\ ~LoopDone /\ ~(loop.elem < loop.scan) /\ Advance
        BY <1>4, <2>4 DEF InsertLoop
      <3>2. loop.scan < loop.elem
        <4> DEFINE s == Queue[loop.list]
        <4>1. /\ loop.elem \in Elem /\ loop.list \in List /\ s \in Seq(Elem)
              /\ ToSet(s) = {s[i] : i \in 1 .. Len(s)}
              /\ \A i \in 1 .. Len(s) : s[i] \in Elem
              /\ loop.elem \notin ToSet(s)
          BY <3>1, Looping DEF CInv, ForeachInv
        <4>2. PICK k \in 1 .. Len(s) : loop.scan = s[k]
          BY <3>1, GoesOn
        <4> HIDE DEF s
        <4>3. loop.scan \in Elem /\ loop.scan # loop.elem
          BY <4>1, <4>2
        <4>4. \A x, y \in Elem : ~(y < x) /\ x # y => x < y
          BY SizeOf DEF Elem
        <4>5. QED BY <3>1, <4>1, <4>3, <4>4
      <3>3. QED BY <1>1, <1>4, <3>1, <3>2, AdvanceStep, ForwardNears
    <2>5. QED BY <2>1, <2>2, <2>3, <2>4
  <1>5. QED BY <1>3, <1>4

\* Every macro ends after at most an iteration for each element, the last step
\* included: LoopsEnd without the fairness it takes to make the steps.
THEOREM LoopsAreBounded == Spec => []LoopsBounded /\ [][Nears]_vars
  <1>1. CInv /\ Standing /\ Standing' /\ [Next]_vars => [Nears]_vars
    BY StepNears DEF Nears
  <1>2. QED BY <1>1, BoundedByList, StandingHolds, ClistInvariant, PTL DEF Spec
=============================================================================
