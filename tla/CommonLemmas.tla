----------------------------- MODULE CommonLemmas -----------------------------
(***************************************************************************)
(* The lemmas the proofs of several components need.  First induction over *)
(* numbers and functions defined by recursion: a set that holds 0 and with *)
(* each number the next holds them all, and a function on 0 .. m that is   *)
(* defined from its value at the number before exists and satisfies its    *)
(* definition; from these, what FlattenSeq joins.  Then the operators of   *)
(* module Lattice, for all words: which of them start at a code point,     *)
(* which code points chains of them reach, and what such chains are.       *)
(***************************************************************************)
EXTENDS Lattice, SequencesExt, FiniteSetTheorems, SequenceTheorems, WellFoundedInduction, TLAPS

LEMMA LeastNumber ==
  ASSUME NEW T, T \subseteq Nat, T # {}
  PROVE  \E m \in T : \A k \in T : m <= k
<1>1. IsWellFoundedOn(OpToRel(<, Nat), Nat)
  BY NatLessThanWellFounded
<1>2. PICK m \in T : \A k \in T : ~(<<k, m>> \in OpToRel(<, Nat))
  BY <1>1, WFMin
<1>3. ASSUME NEW k \in T PROVE m <= k
  <2>1. ~(k < m)
    BY <1>2 DEF OpToRel
  <2>. QED
    BY <2>1
<1>. QED
  BY <1>3

\* Induction: what holds of 0, and of the next number whenever it holds of one,
\* holds of all.
LEMMA Induction ==
  ASSUME NEW H, 0 \in H, \A k \in Nat : k \in H => k + 1 \in H
  PROVE  \A k \in Nat : k \in H
<1>. DEFINE T == {k \in Nat : k \notin H}
<1>1. ASSUME T # {} PROVE FALSE
  <2>1. PICK m \in T : \A k \in T : m <= k
    BY <1>1, LeastNumber
  <2>2. m \in Nat \ {0}
    BY <2>1
  <2>3. m - 1 \in Nat /\ m - 1 \notin T /\ (m - 1) + 1 = m
    BY <2>1, <2>2
  <2>. QED
    BY <2>1, <2>3
<1>. QED
  BY <1>1

\* Induction up to a bound.
LEMMA InductionTo ==
  ASSUME NEW a \in Int, NEW b \in Int, NEW H,
         a \in H, \A k \in a .. b - 1 : k \in H => k + 1 \in H
  PROVE  \A k \in a .. b : k \in H
<1>. DEFINE G == {d \in Nat : a + d <= b => a + d \in H}
<1>1. 0 \in G
  OBVIOUS
<1>2. ASSUME NEW d \in Nat, d \in G PROVE d + 1 \in G
  <2>1. CASE a + (d + 1) <= b
    <3>1. a + d \in H /\ a + d \in a .. b - 1
      BY <1>2, <2>1
    <3>2. (a + d) + 1 \in H
      BY <3>1
    <3>. QED
      BY <3>2
  <2>2. CASE ~(a + (d + 1) <= b)
    BY <2>2
  <2>. QED
    BY <2>1, <2>2
<1>3. \A d \in Nat : d \in G
  <2>. HIDE DEF G
  <2>. QED
    BY <1>1, <1>2, Induction
<1>4. ASSUME NEW k \in a .. b PROVE k \in H
  <2>1. k - a \in Nat /\ a + (k - a) = k
    OBVIOUS
  <2>2. k - a \in G
    BY <1>3, <2>1
  <2>. QED
    BY <2>1, <2>2
<1>. QED
  BY <1>4

\* Induction over all the numbers before.
LEMMA CourseInduction ==
  ASSUME NEW m \in Int, NEW H, \A k \in 0 .. m : (\A j \in 0 .. k - 1 : j \in H) => k \in H
  PROVE  \A k \in 0 .. m : k \in H
<1>. DEFINE T == {k \in 0 .. m : k \notin H}
<1>1. ASSUME T # {} PROVE FALSE
  <2>1. T \subseteq Nat
    OBVIOUS
  <2>2. PICK k \in T : \A j \in T : k <= j
    <3>. HIDE DEF T
    <3>. QED
      BY <1>1, <2>1, LeastNumber
  <2>3. \A j \in 0 .. k - 1 : j \in 0 .. m /\ ~(k <= j)
    OBVIOUS
  <2>4. \A j \in 0 .. k - 1 : j \in H
    BY <2>2, <2>3
  <2>. QED
    BY <2>4
<1>. QED
  BY <1>1

\* The function with value c at 0, and G[<<k, v>>] at k where v is its value at
\* the number before.
IsRecursive(f, m, c, G) == f = [k \in 0 .. m |-> IF k = 0 THEN c ELSE G[<<k, f[k - 1]>>]]

LEMMA RecursionExists ==
  ASSUME NEW m \in Nat, NEW V, NEW c \in V, NEW G \in [(1 .. m) \X V -> V]
  PROVE  \E f \in [0 .. m -> V] : IsRecursive(f, m, c, G)
<1>. DEFINE Upto(d) == \E f \in [0 .. d -> V] : IsRecursive(f, d, c, G)
            H == {d \in Nat : d <= m => Upto(d)}
<1>1. 0 \in H
  <2>1. [k \in 0 .. 0 |-> c] \in [0 .. 0 -> V]
    OBVIOUS
  <2>2. IsRecursive([k \in 0 .. 0 |-> c], 0, c, G)
    <3>1. \A k \in 0 .. 0 : k = 0
      OBVIOUS
    <3>. QED
      BY <3>1 DEF IsRecursive
  <2>. QED
    BY <2>1, <2>2
<1>2. ASSUME NEW d \in Nat, d \in H PROVE d + 1 \in H
  <2>. SUFFICES ASSUME d + 1 <= m PROVE Upto(d + 1)
    OBVIOUS
  <2>1. PICK f \in [0 .. d -> V] : IsRecursive(f, d, c, G)
    BY <1>2
  <2>. DEFINE g == [k \in 0 .. d + 1 |-> IF k = d + 1 THEN G[<<d + 1, f[d]>>] ELSE f[k]]
  <2>2. d + 1 \in 1 .. m /\ d \in 0 .. d /\ f[d] \in V
    BY <2>1
  <2>3. G[<<d + 1, f[d]>>] \in V
    BY <2>2
  <2>4. g \in [0 .. d + 1 -> V]
    BY <2>1, <2>3
  <2>5. ASSUME NEW k \in 0 .. d + 1
        PROVE  g[k] = IF k = 0 THEN c ELSE G[<<k, g[k - 1]>>]
    <3>1. CASE k = d + 1
      <4>1. g[k] = G[<<k, f[d]>>] /\ k # 0 /\ k - 1 = d /\ g[k - 1] = f[d]
        BY <3>1
      <4>. QED
        BY <4>1
    <3>2. CASE k # d + 1
      <4>1. k \in 0 .. d /\ g[k] = f[k]
        BY <3>2
      <4>2. k # 0 => g[k - 1] = f[k - 1]
        BY <4>1
      <4>3. f[k] = IF k = 0 THEN c ELSE G[<<k, f[k - 1]>>]
        <5>1. f = [j \in 0 .. d |-> IF j = 0 THEN c ELSE G[<<j, f[j - 1]>>]]
          BY <2>1 DEF IsRecursive
        <5>. DEFINE h == [j \in 0 .. d |-> IF j = 0 THEN c ELSE G[<<j, f[j - 1]>>]]
        <5>2. h[k] = IF k = 0 THEN c ELSE G[<<k, f[k - 1]>>]
          BY <4>1
        <5>3. f = h
          BY <5>1
        <5>. HIDE DEF h
        <5>. QED
          BY <5>2, <5>3
      <4>. QED
        BY <4>1, <4>2, <4>3
    <3>. QED
      BY <3>1, <3>2
  <2>. DEFINE h == [k \in 0 .. d + 1 |-> IF k = 0 THEN c ELSE G[<<k, g[k - 1]>>]]
  <2>6. g = h
    <3>1. \A k \in 0 .. d + 1 : g[k] = h[k]
      BY <2>5
    <3>2. DOMAIN g = 0 .. d + 1 /\ DOMAIN h = 0 .. d + 1
      OBVIOUS
    <3>. QED
      BY <3>1, <3>2
  <2>7. IsRecursive(g, d + 1, c, G)
    BY <2>6 DEF IsRecursive
  <2>. QED
    BY <2>4, <2>7
<1>3. m \in H
  <2>. HIDE DEF H
  <2>. QED
    BY <1>1, <1>2, Induction
<1>. QED
  BY <1>3

\* Two functions that start alike and go on alike are the same up to m.
GoOnAlike(f, g, m) == \A k \in 1 .. m : f[k - 1] = g[k - 1] => f[k] = g[k]
AlikeUpTo(f, g, m) == \A k \in 0 .. m : f[k] = g[k]

LEMMA SameRecursion ==
  ASSUME NEW m \in Nat, NEW f, NEW g, f[0] = g[0], GoOnAlike(f, g, m)
  PROVE  AlikeUpTo(f, g, m)
<1>. DEFINE H == {k \in Nat : f[k] = g[k]}
<1>1. ASSUME NEW k \in 0 .. m - 1, k \in H PROVE k + 1 \in H
  <2>1. k + 1 \in 1 .. m /\ (k + 1) - 1 = k
    OBVIOUS
  <2>. QED
    BY <1>1, <2>1 DEF GoOnAlike
<1>2. 0 \in H
  OBVIOUS
<1>3. \A k \in 0 .. m : k \in H
  <2>. HIDE DEF H
  <2>. QED
    BY <1>1, <1>2, InductionTo
<1>. QED
  BY <1>3 DEF AlikeUpTo
-----------------------------------------------------------------------------
\* Recursion over all the values before: a history is the numbers so far and
\* what the function was there.
ValuesBefore(f, k) == [j \in 0 .. k - 1 |-> f[j]]
Histories(m, V) == UNION {{k} \X [0 .. k - 1 -> V] : k \in 0 .. m}
IsCourse(f, m, G) == f = [k \in 0 .. m |-> G[<<k, ValuesBefore(f, k)>>]]

LEMMA CourseExists ==
  ASSUME NEW m \in Nat, NEW V, NEW G \in [Histories(m, V) -> V]
  PROVE  \E f \in [0 .. m -> V] : IsCourse(f, m, G)
<1>. DEFINE Upto(d) == \E f \in [0 .. d -> V] : IsCourse(f, d, G)
            H == {d \in Nat : d <= m => Upto(d)}
<1>1. ASSUME NEW k \in 0 .. m, NEW f, \A j \in 0 .. k - 1 : f[j] \in V
      PROVE  G[<<k, ValuesBefore(f, k)>>] \in V
  <2>1. ValuesBefore(f, k) \in [0 .. k - 1 -> V]
    BY <1>1 DEF ValuesBefore
  <2>2. <<k, ValuesBefore(f, k)>> \in Histories(m, V)
    BY <2>1 DEF Histories
  <2>. QED
    BY <2>2
<1>2. 0 \in H
  <2>. DEFINE f == [k \in 0 .. 0 |-> G[<<0, [j \in 0 .. 0 - 1 |-> 0]>>]]
  <2>1. ValuesBefore(f, 0) = [j \in 0 .. 0 - 1 |-> 0]
    <3>1. 0 .. 0 - 1 = {}
      OBVIOUS
    <3>. QED
      BY <3>1 DEF ValuesBefore
  <2>2. G[<<0, ValuesBefore(f, 0)>>] \in V
    <3>1. 0 \in 0 .. m /\ \A j \in 0 .. 0 - 1 : f[j] \in V
      OBVIOUS
    <3>. HIDE DEF f
    <3>. QED
      BY <1>1, <3>1
  <2>3. \A k \in 0 .. 0 : f[k] = G[<<k, ValuesBefore(f, k)>>]
    <3>1. \A k \in 0 .. 0 : k = 0 /\ f[k] = G[<<0, [j \in 0 .. 0 - 1 |-> 0]>>]
      OBVIOUS
    <3>. HIDE DEF f
    <3>. QED
      BY <2>1, <3>1
  <2>4. f = [k \in 0 .. 0 |-> f[k]]
    OBVIOUS
  <2>. HIDE DEF f
  <2>5. f = [k \in 0 .. 0 |-> G[<<k, ValuesBefore(f, k)>>]]
    BY <2>3, <2>4
  <2>6. f \in [0 .. 0 -> V]
    <3>1. \A k \in 0 .. 0 : f[k] \in V
      BY <2>2, <2>3
    <3>. QED
      BY <2>4, <3>1
  <2>. QED
    BY <2>5, <2>6 DEF IsCourse
<1>3. ASSUME NEW d \in Nat, d \in H PROVE d + 1 \in H
  <2>. SUFFICES ASSUME d + 1 <= m PROVE Upto(d + 1)
    OBVIOUS
  <2>1. PICK f \in [0 .. d -> V] : IsCourse(f, d, G)
    BY <1>3
  <2>. DEFINE new == G[<<d + 1, ValuesBefore(f, d + 1)>>]
              g == [k \in 0 .. d + 1 |-> IF k = d + 1 THEN new ELSE f[k]]
  <2>2. new \in V
    <3>1. d + 1 \in 0 .. m /\ \A j \in 0 .. (d + 1) - 1 : j \in 0 .. d
      OBVIOUS
    <3>. QED
      BY <1>1, <2>1, <3>1
  <2>3. \A k \in 0 .. d : g[k] = f[k] /\ k \in 0 .. d + 1 /\ k # d + 1
    OBVIOUS
  <2>4. \A k \in 0 .. d + 1 : ValuesBefore(g, k) = ValuesBefore(f, k)
    <3>1. ASSUME NEW k \in 0 .. d + 1 PROVE ValuesBefore(g, k) = ValuesBefore(f, k)
      <4>1. \A j \in 0 .. k - 1 : j \in 0 .. d
        OBVIOUS
      <4>2. \A j \in 0 .. k - 1 : g[j] = f[j]
        BY <2>3, <4>1
      <4>. HIDE DEF g
      <4>. QED
        BY <4>2 DEF ValuesBefore
    <3>. QED
      BY <3>1
  <2>5. \A k \in 0 .. d : f[k] = G[<<k, ValuesBefore(f, k)>>]
    <3>1. f = [k \in 0 .. d |-> G[<<k, ValuesBefore(f, k)>>]]
      BY <2>1 DEF IsCourse
    <3>. DEFINE h == [k \in 0 .. d |-> G[<<k, ValuesBefore(f, k)>>]]
    <3>2. \A k \in 0 .. d : h[k] = G[<<k, ValuesBefore(f, k)>>]
      OBVIOUS
    <3>3. f = h
      BY <3>1
    <3>. HIDE DEF h
    <3>. QED
      BY <3>2, <3>3
  <2>6. g[d + 1] = new /\ d + 1 \in 0 .. d + 1
    OBVIOUS
  <2>7. \A k \in 0 .. d + 1 : k \in 0 .. d \/ k = d + 1
    OBVIOUS
  <2>8. g = [k \in 0 .. d + 1 |-> g[k]]
    OBVIOUS
  <2>. HIDE DEF g
  <2>9. \A k \in 0 .. d + 1 : g[k] = G[<<k, ValuesBefore(g, k)>>]
    BY <2>3, <2>4, <2>5, <2>6, <2>7
  <2>10. g = [k \in 0 .. d + 1 |-> G[<<k, ValuesBefore(g, k)>>]]
    BY <2>8, <2>9
  <2>11. g \in [0 .. d + 1 -> V]
    <3>. HIDE DEF new
    <3>1. \A k \in 0 .. d + 1 : g[k] \in V
      BY <2>1, <2>2, <2>3, <2>6, <2>7
    <3>. QED
      BY <2>8, <3>1
  <2>. QED
    BY <2>10, <2>11 DEF IsCourse
<1>4. m \in H
  <2>. HIDE DEF H
  <2>. QED
    BY <1>2, <1>3, Induction
<1>. QED
  BY <1>4

-----------------------------------------------------------------------------
(* Joining the members of a sequence of sequences *)

\* The sequences q[1], q[1] \o q[2] and so on.
Joins(q, f) == f = [k \in 1 .. Len(q) |-> IF k = 1 THEN q[k] ELSE f[k - 1] \o q[k]]

\* They exist and are the only ones.
LEMMA JoinsExist ==
  ASSUME NEW C, NEW q \in Seq(Seq(C))
  PROVE  \E f \in [1 .. Len(q) -> Seq(C)] : Joins(q, f)
<1>. DEFINE V == Seq(C)
            G == [p \in (1 .. Len(q)) \X V |-> IF p[1] = 1 THEN q[1] ELSE p[2] \o q[p[1]]]
<1>1. Len(q) \in Nat /\ <<>> \in V /\ \A k \in 1 .. Len(q) : q[k] \in V
  OBVIOUS
<1>2. G \in [(1 .. Len(q)) \X V -> V]
  <2>1. \A p \in (1 .. Len(q)) \X V : (IF p[1] = 1 THEN q[1] ELSE p[2] \o q[p[1]]) \in V
    <3>1. \A v, w \in V : v \o w \in V
      BY ConcatProperties
    <3>2. \A p \in (1 .. Len(q)) \X V : p[1] \in 1 .. Len(q) /\ p[2] \in V
      OBVIOUS
    <3>. QED
      BY <1>1, <3>1, <3>2
  <2>. QED
    BY <2>1
<1>3. PICK g \in [0 .. Len(q) -> V] : IsRecursive(g, Len(q), <<>>, G)
  <2>. HIDE DEF V, G
  <2>. QED
    BY <1>1, <1>2, RecursionExists
<1>4. ASSUME NEW k \in 1 .. Len(q)
      PROVE  /\ g[k] \in V
             /\ g[k] = IF k = 1 THEN q[k] ELSE g[k - 1] \o q[k]
  <2>1. k \in 0 .. Len(q) /\ k # 0 /\ k - 1 \in 0 .. Len(q) /\ g[k - 1] \in V
    <3>1. k \in 0 .. Len(q) /\ k # 0 /\ k - 1 \in 0 .. Len(q)
      BY <1>1
    <3>. HIDE DEF V, G
    <3>. QED
      BY <1>3, <3>1
  <2>2. g[k] = G[<<k, g[k - 1]>>]
    <3>. DEFINE h == [j \in 0 .. Len(q) |-> IF j = 0 THEN <<>> ELSE G[<<j, g[j - 1]>>]]
    <3>1. g = h
      BY <1>3 DEF IsRecursive
    <3>2. h[k] = G[<<k, g[k - 1]>>]
      BY <2>1
    <3>. HIDE DEF h
    <3>. QED
      BY <3>1, <3>2
  <2>3. <<k, g[k - 1]>> \in (1 .. Len(q)) \X V
    BY <2>1
  <2>. QED
    BY <1>3, <2>1, <2>2, <2>3
<1>. DEFINE f == [k \in 1 .. Len(q) |-> g[k]]
<1>5. f \in [1 .. Len(q) -> V]
  BY <1>4
<1>6. f = [k \in 1 .. Len(q) |-> IF k = 1 THEN q[k] ELSE f[k - 1] \o q[k]]
  <2>1. \A k \in 1 .. Len(q) : k # 1 => k - 1 \in 1 .. Len(q) /\ f[k - 1] = g[k - 1]
    BY <1>1
  <2>. QED
    BY <1>4, <2>1
<1>. QED
  BY <1>5, <1>6 DEF Joins

Alike(f, g, m) == \A k \in 1 .. m : f[k] = g[k]

LEMMA JoinsSame ==
  ASSUME NEW q, NEW p, NEW f, NEW g, NEW m \in Nat,
         Joins(q, f), Joins(p, g), m <= Len(q), m <= Len(p),
         Len(q) \in Nat, Len(p) \in Nat, Alike(q, p, m)
  PROVE  Alike(f, g, m)
<1>. DEFINE H == {k \in Nat : k = 0 \/ f[k] = g[k]}
<1>1. \A k \in 1 .. m : /\ f[k] = IF k = 1 THEN q[k] ELSE f[k - 1] \o q[k]
                        /\ g[k] = IF k = 1 THEN p[k] ELSE g[k - 1] \o p[k]
  <2>. DEFINE a == [k \in 1 .. Len(q) |-> IF k = 1 THEN q[k] ELSE f[k - 1] \o q[k]]
              b == [k \in 1 .. Len(p) |-> IF k = 1 THEN p[k] ELSE g[k - 1] \o p[k]]
  <2>1. f = a /\ g = b
    BY DEF Joins
  <2>2. ASSUME NEW k \in 1 .. m
        PROVE  /\ a[k] = IF k = 1 THEN q[k] ELSE f[k - 1] \o q[k]
               /\ b[k] = IF k = 1 THEN p[k] ELSE g[k - 1] \o p[k]
    <3>1. k \in 1 .. Len(q) /\ k \in 1 .. Len(p)
      OBVIOUS
    <3>. QED
      BY <3>1
  <2>. HIDE DEF a, b
  <2>. QED
    BY <2>1, <2>2
<1>2. ASSUME NEW k \in 0 .. m - 1, k \in H PROVE k + 1 \in H
  <2>1. k + 1 \in 1 .. m /\ (k + 1) - 1 = k /\ (k = 0 <=> k + 1 = 1)
    OBVIOUS
  <2>2. q[k + 1] = p[k + 1]
    BY <2>1 DEF Alike
  <2>. QED
    BY <1>1, <1>2, <2>1, <2>2
<1>3. 0 \in H
  OBVIOUS
<1>4. \A k \in 0 .. m : k \in H
  <2>. HIDE DEF H
  <2>. QED
    BY <1>2, <1>3, InductionTo
<1>. QED
  BY <1>4 DEF Alike

LEMMA FlattenIsLast ==
  ASSUME NEW C, NEW q \in Seq(Seq(C)), q # <<>>, NEW f, Joins(q, f)
  PROVE  FlattenSeq(q) = f[Len(q)] /\ FlattenSeq(q) \in Seq(C)
<1>1. Len(q) \in Nat \ {0} /\ Len(q) # 0
  OBVIOUS
<1>. DEFINE g == CHOOSE h : Joins(q, h)
<1>2. FlattenSeq(q) = g[Len(q)]
  BY <1>1 DEF FlattenSeq, Joins
<1>3. PICK h \in [1 .. Len(q) -> Seq(C)] : Joins(q, h)
  BY JoinsExist
<1>4. Joins(q, g)
  BY <1>3
<1>. HIDE DEF g
<1>5. Len(q) \in 1 .. Len(q) /\ g[Len(q)] = h[Len(q)] /\ g[Len(q)] = f[Len(q)]
  <2>1. Len(q) \in 1 .. Len(q)
    BY <1>1
  <2>2. Alike(q, q, Len(q))
    BY DEF Alike
  <2>3. Alike(g, h, Len(q)) /\ Alike(g, f, Len(q))
    BY <1>1, <1>3, <1>4, <2>2, JoinsSame
  <2>. QED
    BY <2>1, <2>3 DEF Alike
<1>6. h[Len(q)] \in Seq(C)
  BY <1>3, <1>5
<1>. QED
  BY <1>2, <1>5, <1>6

LEMMA AppendedOne ==
  ASSUME NEW S, NEW q \in Seq(S), NEW e \in S
  PROVE  /\ Append(q, e) \in Seq(S) /\ Append(q, e) # <<>>
         /\ Len(q) \in Nat /\ Len(Append(q, e)) = Len(q) + 1
         /\ \A k \in 1 .. Len(q) : Append(q, e)[k] = q[k]
         /\ Append(q, e)[Len(q) + 1] = e
OBVIOUS

\* Joining one sequence more appends it.
LEMMA FlattenOneMore ==
  ASSUME NEW C, NEW q \in Seq(Seq(C)), NEW e \in Seq(C)
  PROVE  /\ FlattenSeq(q) \in Seq(C)
         /\ FlattenSeq(Append(q, e)) = FlattenSeq(q) \o e
<1>. DEFINE p == Append(q, e)
<1>1. /\ p \in Seq(Seq(C)) /\ Len(p) = Len(q) + 1 /\ p # <<>> /\ Len(q) \in Nat
      /\ p[Len(q) + 1] = e /\ \A k \in 1 .. Len(q) : p[k] = q[k]
  BY AppendedOne
<1>2. PICK f \in [1 .. Len(q) -> Seq(C)] : Joins(q, f)
  BY JoinsExist
<1>3. PICK g \in [1 .. Len(p) -> Seq(C)] : Joins(p, g)
  BY <1>1, JoinsExist
<1>4. FlattenSeq(p) = g[Len(p)]
  <2>. HIDE DEF p
  <2>. QED
    BY <1>1, <1>3, FlattenIsLast
<1>5. g[Len(p)] = IF Len(p) = 1 THEN e ELSE g[Len(q)] \o e
  <2>. DEFINE b == [k \in 1 .. Len(p) |-> IF k = 1 THEN p[k] ELSE g[k - 1] \o p[k]]
  <2>1. g = b
    BY <1>3 DEF Joins
  <2>2. b[Len(p)] = IF Len(p) = 1 THEN p[Len(p)] ELSE g[Len(p) - 1] \o p[Len(p)]
    BY <1>1
  <2>3. Len(p) - 1 = Len(q) /\ p[Len(p)] = e
    BY <1>1
  <2>. HIDE DEF b, p
  <2>. QED
    BY <2>1, <2>2, <2>3
<1>6. CASE q = <<>>
  <2>1. FlattenSeq(q) = <<>> /\ Len(q) = 0
    BY <1>6 DEF FlattenSeq
  <2>2. <<>> \o e = e /\ <<>> \in Seq(C)
    BY ConcatProperties
  <2>. QED
    BY <1>1, <1>4, <1>5, <2>1, <2>2
<1>7. CASE q # <<>>
  <2>1. FlattenSeq(q) = f[Len(q)] /\ FlattenSeq(q) \in Seq(C)
    BY <1>2, <1>7, FlattenIsLast
  <2>2. Len(q) \in 1 .. Len(q) /\ Len(p) # 1
    BY <1>1, <1>7
  <2>3. Alike(f, g, Len(q))
    <3>1. Len(q) <= Len(q) /\ Len(q) <= Len(p) /\ Len(p) \in Nat /\ Alike(q, p, Len(q))
      BY <1>1 DEF Alike
    <3>2. Joins(q, f) /\ Joins(p, g) /\ Len(q) \in Nat
      BY <1>1, <1>2, <1>3
    <3>. HIDE DEF p
    <3>. QED
      BY <3>1, <3>2, JoinsSame
  <2>4. f[Len(q)] = g[Len(q)]
    BY <2>2, <2>3 DEF Alike
  <2>. QED
    BY <1>4, <1>5, <2>1, <2>2, <2>4
<1>. QED
  BY <1>6, <1>7

\* What is joined comes from a member.
LEMMA FlattenFrom ==
  ASSUME NEW C, NEW q \in Seq(Seq(C))
  PROVE  /\ FlattenSeq(q) \in Seq(C)
         /\ \A i \in DOMAIN FlattenSeq(q) :
              \E k \in DOMAIN q : \E j \in DOMAIN q[k] : FlattenSeq(q)[i] = q[k][j]
<1>. DEFINE From(v) == \E k \in DOMAIN q : \E j \in DOMAIN q[k] : v = q[k][j]
            D == {v \in C : From(v)}
<1>1. Len(q) \in Nat /\ DOMAIN q = 1 .. Len(q)
  OBVIOUS
<1>2. ASSUME NEW k \in 1 .. Len(q) PROVE q[k] \in Seq(D)
  <2>1. q[k] \in Seq(C)
    BY <1>1
  <2>2. \A j \in DOMAIN q[k] : q[k][j] \in D
    <3>1. \A j \in DOMAIN q[k] : q[k][j] \in C
      BY <2>1
    <3>. QED
      BY <1>1, <3>1
  <2>. HIDE DEF D
  <2>. QED
    BY <2>1, <2>2
<1>3. q \in Seq(Seq(D))
  <2>. HIDE DEF D
  <2>. QED
    BY <1>1, <1>2
<1>4. FlattenSeq(q) \in Seq(D)
  <2>1. CASE q = <<>>
    <3>. HIDE DEF D
    <3>. QED
      BY <2>1 DEF FlattenSeq
  <2>2. CASE q # <<>>
    <3>. HIDE DEF D
    <3>1. PICK f \in [1 .. Len(q) -> Seq(D)] : Joins(q, f)
      BY <1>3, JoinsExist
    <3>. QED
      BY <1>3, <2>2, <3>1, FlattenIsLast
  <2>. QED
    BY <2>1, <2>2
<1>5. FlattenSeq(q) \in Seq(C)
  <2>1. D \subseteq C
    OBVIOUS
  <2>. HIDE DEF D
  <2>2. PICK v \in Seq(D) : v = FlattenSeq(q)
    BY <1>4
  <2>3. \A i \in 1 .. Len(v) : v[i] \in C
    BY <2>1
  <2>4. v \in Seq(C)
    BY <2>3
  <2>. QED
    BY <2>2, <2>4
<1>6. \A i \in DOMAIN FlattenSeq(q) : FlattenSeq(q)[i] \in D
  <2>. HIDE DEF D
  <2>. QED
    BY <1>4
<1>. QED
  BY <1>5, <1>6

\* A sequence that goes on after another one holds the members of both.
LEMMA ConcatMembers ==
  ASSUME NEW C, NEW x \in Seq(C), NEW y \in Seq(C)
  PROVE  /\ x \o y \in Seq(C)
         /\ \A v : v \in ToSet(x \o y) <=> v \in ToSet(x) \/ v \in ToSet(y)
<1>1. x \o y \in Seq(C) /\ Len(x \o y) = Len(x) + Len(y)
  BY ConcatProperties
<1>2. Len(x) \in Nat /\ Len(y) \in Nat /\ DOMAIN x = 1 .. Len(x) /\ DOMAIN y = 1 .. Len(y)
  OBVIOUS
<1>3. DOMAIN (x \o y) = 1 .. Len(x) + Len(y)
  BY <1>1
<1>4. ASSUME NEW i \in DOMAIN x PROVE i \in DOMAIN (x \o y) /\ (x \o y)[i] = x[i]
  BY <1>2, <1>3, ConcatProperties
<1>5. ASSUME NEW i \in DOMAIN y
      PROVE  Len(x) + i \in DOMAIN (x \o y) /\ (x \o y)[Len(x) + i] = y[i]
  <2>1. Len(x) + i \in 1 .. Len(x) + Len(y) /\ Len(x) + i > Len(x) /\ (Len(x) + i) - Len(x) = i
    BY <1>2
  <2>. QED
    BY <1>2, <1>3, <2>1, ConcatProperties
<1>. DEFINE z == x \o y
<1>6. ASSUME NEW v, v \in ToSet(x) PROVE v \in ToSet(z)
  <2>1. PICK i \in DOMAIN x : v = x[i]
    BY <1>6 DEF ToSet
  <2>2. i \in DOMAIN z /\ z[i] = x[i]
    BY <1>4
  <2>. HIDE DEF z
  <2>. QED
    BY <2>1, <2>2 DEF ToSet
<1>7. ASSUME NEW v, v \in ToSet(y) PROVE v \in ToSet(z)
  <2>1. PICK i \in DOMAIN y : v = y[i]
    BY <1>7 DEF ToSet
  <2>2. Len(x) + i \in DOMAIN z /\ z[Len(x) + i] = y[i]
    BY <1>5
  <2>. HIDE DEF z
  <2>. QED
    BY <2>1, <2>2 DEF ToSet
<1>8. ASSUME NEW v, v \in ToSet(z) PROVE v \in ToSet(x) \/ v \in ToSet(y)
  <2>1. PICK i \in DOMAIN z : v = z[i]
    BY <1>8 DEF ToSet
  <2>2. i \in 1 .. Len(x) + Len(y)
    BY <1>3
  <2>3. CASE i \in DOMAIN x
    <3>1. v = x[i]
      BY <1>4, <2>1, <2>3
    <3>. QED
      BY <2>3, <3>1 DEF ToSet
  <2>4. CASE i \notin DOMAIN x
    <3>. DEFINE k == i - Len(x)
    <3>1. k \in DOMAIN y /\ Len(x) + k = i
      BY <1>2, <2>2, <2>4
    <3>2. v = y[k]
      BY <1>5, <2>1, <3>1
    <3>. HIDE DEF k
    <3>. QED
      BY <3>1, <3>2 DEF ToSet
  <2>. QED
    BY <2>3, <2>4
<1>. QED
  BY <1>1, <1>6, <1>7, <1>8

\* Every member of a member is joined.
LEMMA FlattenHolds ==
  ASSUME NEW C, NEW q \in Seq(Seq(C)), NEW k \in DOMAIN q, NEW j \in DOMAIN q[k]
  PROVE  \E i \in DOMAIN FlattenSeq(q) : FlattenSeq(q)[i] = q[k][j]
<1>. DEFINE Held(x) == q[k][j] \in ToSet(x)
<1>1. /\ Len(q) \in Nat /\ k \in 1 .. Len(q) /\ q # <<>>
      /\ \A l \in 1 .. Len(q) : q[l] \in Seq(C)
  OBVIOUS
<1>2. PICK f \in [1 .. Len(q) -> Seq(C)] : Joins(q, f)
  BY JoinsExist
<1>3. \A l \in 1 .. Len(q) : f[l] = IF l = 1 THEN q[l] ELSE f[l - 1] \o q[l]
  <2>. DEFINE g == [l \in 1 .. Len(q) |-> IF l = 1 THEN q[l] ELSE f[l - 1] \o q[l]]
  <2>1. f = g
    BY <1>2 DEF Joins
  <2>2. \A l \in 1 .. Len(q) : g[l] = IF l = 1 THEN q[l] ELSE f[l - 1] \o q[l]
    OBVIOUS
  <2>. HIDE DEF g
  <2>. QED
    BY <2>1, <2>2
<1>4. Held(q[k])
  BY DEF ToSet
<1>5. \A x, y \in Seq(C) : Held(x) \/ Held(y) => Held(x \o y)
  BY ConcatMembers
<1>. HIDE DEF Held
<1>. DEFINE H == {l \in Nat : Held(f[l])}
<1>6. k \in H
  <2>1. k \in Nat
    BY <1>1
  <2>2. CASE k = 1
    BY <1>1, <1>3, <1>4, <2>1, <2>2
  <2>3. CASE k # 1
    <3>1. k - 1 \in 1 .. Len(q)
      BY <1>1, <2>3
    <3>2. f[k - 1] \in Seq(C) /\ q[k] \in Seq(C) /\ f[k] = f[k - 1] \o q[k]
      BY <1>1, <1>2, <1>3, <2>3, <3>1
    <3>. QED
      BY <1>4, <1>5, <2>1, <3>2
  <2>. QED
    BY <2>2, <2>3
<1>7. ASSUME NEW l \in k .. Len(q) - 1, l \in H PROVE l + 1 \in H
  <2>1. l \in 1 .. Len(q) /\ l + 1 \in 1 .. Len(q) /\ (l + 1) - 1 = l /\ l + 1 # 1 /\ l + 1 \in Nat
    BY <1>1
  <2>2. f[l] \in Seq(C) /\ q[l + 1] \in Seq(C) /\ f[l + 1] = f[l] \o q[l + 1]
    BY <1>1, <1>2, <1>3, <2>1
  <2>. QED
    BY <1>5, <1>7, <2>1, <2>2
<1>8. Len(q) \in H
  <2>1. k \in Int /\ Len(q) \in Int /\ Len(q) \in k .. Len(q)
    BY <1>1
  <2>. HIDE DEF H
  <2>2. \A l \in k .. Len(q) : l \in H
    BY <1>6, <1>7, <2>1, InductionTo
  <2>. QED
    BY <2>1, <2>2
<1>9. FlattenSeq(q) = f[Len(q)]
  BY <1>1, <1>2, FlattenIsLast
<1>. QED
  BY <1>8, <1>9 DEF Held, ToSet

\* So the joined sequence holds exactly the members of the members.
LEMMA FlattenMembers ==
  ASSUME NEW C, NEW q \in Seq(Seq(C))
  PROVE  /\ FlattenSeq(q) \in Seq(C)
         /\ \A v : v \in ToSet(FlattenSeq(q)) <=> \E k \in DOMAIN q : v \in ToSet(q[k])
<1>1. /\ FlattenSeq(q) \in Seq(C)
      /\ \A i \in DOMAIN FlattenSeq(q) :
           \E k \in DOMAIN q : \E j \in DOMAIN q[k] : FlattenSeq(q)[i] = q[k][j]
  BY FlattenFrom
<1>2. \A k \in DOMAIN q : \A j \in DOMAIN q[k] :
        \E i \in DOMAIN FlattenSeq(q) : FlattenSeq(q)[i] = q[k][j]
  BY FlattenHolds
<1>. DEFINE f == FlattenSeq(q)
<1>3. ASSUME NEW v, v \in ToSet(f) PROVE \E k \in DOMAIN q : v \in ToSet(q[k])
  <2>1. PICK i \in DOMAIN f : v = f[i]
    BY <1>3 DEF ToSet
  <2>2. PICK k \in DOMAIN q : \E j \in DOMAIN q[k] : f[i] = q[k][j]
    BY <1>1
  <2>. HIDE DEF f
  <2>. QED
    BY <2>1, <2>2 DEF ToSet
<1>4. ASSUME NEW v, NEW k \in DOMAIN q, v \in ToSet(q[k]) PROVE v \in ToSet(f)
  <2>1. PICK j \in DOMAIN q[k] : v = q[k][j]
    BY <1>4 DEF ToSet
  <2>2. PICK i \in DOMAIN f : f[i] = q[k][j]
    BY <1>2
  <2>. HIDE DEF f
  <2>. QED
    BY <2>1, <2>2 DEF ToSet
<1>. QED
  BY <1>1, <1>3, <1>4
-----------------------------------------------------------------------------
(* Counting *)

\* The numbers of P up to m.
UpTo(P, m) == {j \in 1 .. m : j \in P}
CountIn(P, m) == Cardinality(UpTo(P, m))

LEMMA IntervalFinite ==
  ASSUME NEW a \in Int, NEW b \in Int
  PROVE  IsFiniteSet(a .. b)
BY FS_Interval

LEMMA CountSteps ==
  ASSUME NEW P, NEW m \in Nat
  PROVE  /\ IsFiniteSet(UpTo(P, m)) /\ CountIn(P, m) \in Nat
         /\ CountIn(P, 0) = 0
         /\ CountIn(P, m + 1) = CountIn(P, m) + IF m + 1 \in P THEN 1 ELSE 0
<1>1. IsFiniteSet(UpTo(P, m))
  <2>1. IsFiniteSet(1 .. m) /\ UpTo(P, m) \in SUBSET (1 .. m)
    BY IntervalFinite DEF UpTo
  <2>. QED
    BY <2>1, FS_Subset
<1>2. CountIn(P, m) \in Nat
  BY <1>1, FS_CardinalityType DEF CountIn
<1>3. CountIn(P, 0) = 0
  <2>1. UpTo(P, 0) = {}
    BY DEF UpTo
  <2>. QED
    BY <2>1, FS_EmptySet DEF CountIn
<1>4. m + 1 \notin UpTo(P, m)
  BY DEF UpTo
<1>5. CASE m + 1 \in P
  <2>1. UpTo(P, m + 1) = UpTo(P, m) \cup {m + 1}
    BY <1>5 DEF UpTo
  <2>2. Cardinality(UpTo(P, m) \cup {m + 1}) = Cardinality(UpTo(P, m)) + 1
    BY <1>1, <1>4, FS_AddElement
  <2>. QED
    BY <1>1, <1>2, <1>3, <1>5, <2>1, <2>2 DEF CountIn
<1>6. CASE m + 1 \notin P
  <2>1. UpTo(P, m + 1) = UpTo(P, m)
    BY <1>6 DEF UpTo
  <2>. QED
    BY <1>1, <1>2, <1>3, <1>6, <2>1 DEF CountIn
<1>. QED
  BY <1>5, <1>6

LEMMA CountGrows ==
  ASSUME NEW P, NEW m \in Nat, NEW l \in Nat, m <= l
  PROVE  CountIn(P, m) <= CountIn(P, l)
<1>1. IsFiniteSet(UpTo(P, l)) /\ UpTo(P, m) \in SUBSET UpTo(P, l)
  BY CountSteps DEF UpTo
<1>. QED
  BY <1>1, FS_Subset DEF CountIn

\* The members of P are numbered by their count, without a gap.
LEMMA CountOfMember ==
  ASSUME NEW P, NEW m \in Nat, NEW i \in 1 .. m, i \in P
  PROVE  /\ CountIn(P, i) \in 1 .. CountIn(P, m)
         /\ CountIn(P, i) = CountIn(P, i - 1) + 1
<1>1. i - 1 \in Nat /\ (i - 1) + 1 = i
  OBVIOUS
<1>2. CountIn(P, i) = CountIn(P, i - 1) + 1 /\ CountIn(P, i - 1) \in Nat
  BY <1>1, CountSteps
<1>3. CountIn(P, i) <= CountIn(P, m) /\ CountIn(P, m) \in Nat
  BY CountGrows, CountSteps
<1>. QED
  BY <1>2, <1>3

LEMMA CountIsInjective ==
  ASSUME NEW P, NEW i \in Nat \ {0}, NEW j \in Nat \ {0}, i \in P, j \in P,
         CountIn(P, i) = CountIn(P, j)
  PROVE  i = j
<1>1. ASSUME NEW x \in Nat \ {0}, NEW y \in Nat \ {0}, x < y, y \in P
      PROVE  CountIn(P, x) # CountIn(P, y)
  <2>1. x <= y - 1 /\ y - 1 \in Nat
    BY <1>1
  <2>2. CountIn(P, x) <= CountIn(P, y - 1)
    BY <2>1, CountGrows
  <2>3. CountIn(P, y) = CountIn(P, y - 1) + 1
    BY <1>1, CountOfMember
  <2>4. CountIn(P, x) \in Nat /\ CountIn(P, y - 1) \in Nat
    BY <2>1, CountSteps
  <2>. QED
    BY <2>2, <2>3, <2>4
<1>2. i < j \/ j < i \/ i = j
  OBVIOUS
<1>. QED
  BY <1>1, <1>2

Numbered(P, m) == \A k \in 1 .. CountIn(P, m) : \E i \in 1 .. m : i \in P /\ CountIn(P, i) = k

LEMMA CountOnto ==
  ASSUME NEW P, NEW m \in Nat
  PROVE  Numbered(P, m)
<1>. DEFINE H == {k \in Nat : Numbered(P, k)}
<1>1. 0 \in H
  BY CountSteps DEF Numbered
<1>2. ASSUME NEW k \in Nat, k \in H PROVE k + 1 \in H
  <2>1. CountIn(P, k) \in Nat /\ CountIn(P, k + 1) = CountIn(P, k) + IF k + 1 \in P THEN 1 ELSE 0
    BY CountSteps
  <2>2. ASSUME NEW x \in 1 .. CountIn(P, k + 1)
        PROVE  \E i \in 1 .. k + 1 : i \in P /\ CountIn(P, i) = x
    <3>1. CASE x \in 1 .. CountIn(P, k)
      BY <1>2, <3>1 DEF Numbered
    <3>2. CASE x \notin 1 .. CountIn(P, k)
      BY <2>1, <3>2
    <3>. QED
      BY <3>1, <3>2
  <2>. QED
    BY <2>2 DEF Numbered
<1>3. m \in H
  <2>. HIDE DEF H
  <2>. QED
    BY <1>1, <1>2, Induction
<1>. QED
  BY <1>3
-----------------------------------------------------------------------------
(* The words that start at a code point *)

LEMMA OneAppended ==
  ASSUME NEW S, NEW q \in Seq(S), NEW e \in S
  PROVE  /\ q \o <<e>> \in Seq(S) /\ q \o <<>> = q
         /\ DOMAIN (q \o <<e>>) = 1 .. Len(q) + 1 /\ Len(q) \in Nat
         /\ DOMAIN q = 1 .. Len(q)
         /\ \A k \in 1 .. Len(q) : (q \o <<e>>)[k] = q[k]
         /\ (q \o <<e>>)[Len(q) + 1] = e
OBVIOUS

FromSet(s, b) == {j \in DOMAIN s : s[j].from = b}

\* q has, in their order, the members of s at the places of P up to m.
Selected(q, s, P, m) ==
  /\ DOMAIN q = 1 .. CountIn(P, m)
  /\ \A i \in 1 .. m : i \in P => q[CountIn(P, i)] = s[i]

LEMMA SelectedSame ==
  ASSUME NEW S, NEW q \in Seq(S), NEW r \in Seq(S), NEW s, NEW P, NEW m \in Nat,
         Selected(q, s, P, m), Selected(r, s, P, m)
  PROVE  q = r
<1>1. ASSUME NEW k \in 1 .. CountIn(P, m) PROVE q[k] = r[k]
  <2>1. PICK i \in 1 .. m : i \in P /\ CountIn(P, i) = k
    BY CountOnto DEF Numbered
  <2>. QED
    BY <2>1 DEF Selected
<1>2. DOMAIN q = 1 .. CountIn(P, m) /\ DOMAIN r = 1 .. CountIn(P, m)
  BY DEF Selected
<1>3. q = [k \in DOMAIN q |-> q[k]] /\ r = [k \in DOMAIN r |-> r[k]]
  OBVIOUS
<1>. QED
  BY <1>1, <1>2, <1>3

\* The values of the function that defines StartingAt.
Picked(s, b, i) == IF s[i].from = b THEN <<s[i]>> ELSE <<>>
ValuesIn(f, m, V) == \A k \in 0 .. m : f[k] \in V
Gathers(f, s, b) ==
  /\ f[0] = <<>>
  /\ \A i \in 1 .. Len(s) : f[i] = f[i - 1] \o Picked(s, b, i)

LEMMA StartingAtGathers ==
  ASSUME NEW S, NEW s \in Seq(S), NEW b
  PROVE  \E f : /\ Gathers(f, s, b) /\ ValuesIn(f, Len(s), Seq(S))
                /\ StartingAt(s, b) = f[Len(s)]
<1>. DEFINE m == Len(s)
            G == [p \in (1 .. m) \X Seq(S) |-> p[2] \o Picked(s, b, p[1])]
            Eq(f) == f = [i \in 0 .. m |-> IF i = 0 THEN <<>>
                                           ELSE f[i - 1] \o (IF s[i].from = b THEN <<s[i]>> ELSE <<>>)]
<1>4. <<>> \in Seq(S)
  BY EmptySeq
<1>1. m \in Nat
  <2>. HIDE DEF G, Eq
  <2>. QED
    OBVIOUS
<1>2. \A i \in 1 .. m : Picked(s, b, i) \in Seq(S)
  <2>. HIDE DEF G, Eq
  <2>1. ASSUME NEW i \in 1 .. m PROVE s[i] \in S
    OBVIOUS
  <2>. QED
    BY <1>4, <2>1 DEF Picked
<1>3. G \in [(1 .. m) \X Seq(S) -> Seq(S)]
  BY <1>2, ConcatProperties
<1>5. PICK g \in [0 .. m -> Seq(S)] : IsRecursive(g, m, <<>>, G)
  <2>. HIDE DEF G, m
  <2>. QED
    BY <1>1, <1>3, <1>4, RecursionExists
<1>6. Eq(g)
  <2>1. \A k \in 0 .. m : k # 0 => <<k, g[k - 1]>> \in (1 .. m) \X Seq(S)
    <3>1. \A k \in 0 .. m : k # 0 => k - 1 \in 0 .. m /\ k \in 1 .. m
      BY <1>1
    <3>. HIDE DEF G, m
    <3>. QED
      BY <1>5, <3>1
  <2>2. \A k \in 0 .. m : k # 0 => G[<<k, g[k - 1]>>] = g[k - 1] \o (IF s[k].from = b THEN <<s[k]>> ELSE <<>>)
    BY <2>1 DEF Picked
  <2>3. g = [k \in 0 .. m |-> IF k = 0 THEN <<>> ELSE G[<<k, g[k - 1]>>]]
    BY <1>5 DEF IsRecursive
  <2>. HIDE DEF G
  <2>. QED
    BY <2>2, <2>3
<1>. DEFINE f == CHOOSE h : Eq(h)
<1>7. Eq(f)
  BY <1>6
<1>8. StartingAt(s, b) = f[m]
  BY DEF StartingAt
<1>9. Gathers(f, s, b)
  <2>. HIDE DEF f
  <2>1. \A i \in 0 .. m : f[i] = IF i = 0 THEN <<>> ELSE f[i - 1] \o Picked(s, b, i)
    BY <1>7 DEF Picked
  <2>2. 0 \in 0 .. m /\ \A i \in 1 .. m : i \in 0 .. m /\ i # 0
    BY <1>1
  <2>. HIDE DEF m
  <2>3. f[0] = <<>> /\ \A i \in 1 .. m : f[i] = f[i - 1] \o Picked(s, b, i)
    BY <2>1, <2>2
  <2>. QED
    BY <2>3 DEF Gathers, m
<1>10. ValuesIn(f, m, Seq(S))
  <2>. HIDE DEF f, m
  <2>. DEFINE H == {i \in Nat : f[i] \in Seq(S)}
  <2>1. 0 \in H
    BY <1>4, <1>9 DEF Gathers
  <2>2. ASSUME NEW i \in 0 .. m - 1, i \in H PROVE i + 1 \in H
    <3>1. i + 1 \in 1 .. m /\ (i + 1) - 1 = i /\ i + 1 \in Nat
      BY <1>1
    <3>2. f[i + 1] = f[i] \o Picked(s, b, i + 1)
      BY <1>9, <3>1 DEF Gathers, m
    <3>3. Picked(s, b, i + 1) \in Seq(S)
      BY <1>2, <3>1
    <3>4. f[i] \in Seq(S)
      BY <2>2
    <3>5. f[i] \o Picked(s, b, i + 1) \in Seq(S)
      <4>. HIDE DEF G, Eq, H
      <4>. QED
        BY <3>3, <3>4, ConcatProperties
    <3>. QED
      BY <3>1, <3>2, <3>5
  <2>3. \A i \in 0 .. m : i \in H
    <3>. HIDE DEF H, G, Eq
    <3>1. \A i \in 0 .. m - 1 : i \in H => i + 1 \in H
      BY <2>2
    <3>2. 0 \in Int /\ m \in Int
      BY <1>1
    <3>. QED
      BY <2>1, <3>1, <3>2, InductionTo
  <2>. QED
    BY <2>3 DEF ValuesIn
<1>. HIDE DEF f
<1>. QED
  BY <1>8, <1>9, <1>10

\* StartingAt picks exactly the words that start there.
LEMMA StartingAtSelects ==
  ASSUME NEW S, NEW s \in Seq(S), NEW b
  PROVE  /\ StartingAt(s, b) \in Seq(S)
         /\ Selected(StartingAt(s, b), s, FromSet(s, b), Len(s))
<1>1. PICK f : Gathers(f, s, b) /\ ValuesIn(f, Len(s), Seq(S)) /\ StartingAt(s, b) = f[Len(s)]
  BY StartingAtGathers
<1>. DEFINE P == FromSet(s, b)
            H == {i \in Nat : Selected(f[i], s, P, i)}
<1>2. Len(s) \in Nat /\ DOMAIN s = 1 .. Len(s)
  OBVIOUS
<1>3. 0 \in H
  <2>1. DOMAIN f[0] = 1 .. CountIn(P, 0)
    BY <1>1, CountSteps DEF Gathers
  <2>. QED
    BY <2>1 DEF Selected
<1>4. ASSUME NEW i \in 0 .. Len(s) - 1, i \in H PROVE i + 1 \in H
  <2>1. /\ i \in Nat /\ i + 1 \in 1 .. Len(s) /\ (i + 1) - 1 = i
        /\ i \in 0 .. Len(s)
    BY <1>2
  <2>2. f[i + 1] = f[i] \o Picked(s, b, i + 1) /\ f[i] \in Seq(S)
    BY <1>1, <2>1 DEF Gathers, ValuesIn
  <2>3. Selected(f[i], s, P, i)
    BY <1>4
  <2>4. /\ CountIn(P, i) \in Nat
        /\ CountIn(P, i + 1) = CountIn(P, i) + IF i + 1 \in P THEN 1 ELSE 0
    BY <2>1, CountSteps
  <2>5. Len(f[i]) = CountIn(P, i)
    BY <2>2, <2>3, <2>4 DEF Selected
  <2>6. i + 1 \in P <=> s[i + 1].from = b
    BY <1>2, <2>1 DEF FromSet
  <2>7. \A j \in 1 .. i : j \in P => CountIn(P, j) \in 1 .. CountIn(P, i)
    BY <2>1, CountOfMember
  <2>8. CASE i + 1 \in P
    <3>1. PICK q \in Seq(S), e \in S : q = f[i] /\ e = s[i + 1]
      BY <2>1, <2>2
    <3>2. /\ DOMAIN f[i + 1] = 1 .. CountIn(P, i + 1)
          /\ \A k \in 1 .. CountIn(P, i) : f[i + 1][k] = f[i][k]
          /\ f[i + 1][CountIn(P, i + 1)] = s[i + 1]
      <4>1. f[i + 1] = q \o <<e>>
        BY <2>2, <2>6, <2>8, <3>1 DEF Picked
      <4>2. Len(q) = CountIn(P, i) /\ CountIn(P, i + 1) = Len(q) + 1
        BY <2>4, <2>5, <2>8, <3>1
      <4>. HIDE DEF P
      <4>3. /\ DOMAIN (q \o <<e>>) = 1 .. Len(q) + 1
            /\ \A k \in 1 .. Len(q) : (q \o <<e>>)[k] = q[k]
            /\ (q \o <<e>>)[Len(q) + 1] = e
        BY <3>1, OneAppended
      <4>. QED
        BY <3>1, <4>1, <4>2, <4>3
    <3>3. \A j \in 1 .. i + 1 : j \in 1 .. i \/ j = i + 1
      BY <2>1
    <3>4. Selected(f[i + 1], s, P, i + 1)
      BY <2>3, <2>7, <3>2, <3>3 DEF Selected
    <3>. QED
      BY <2>1, <3>4
  <2>9. CASE i + 1 \notin P
    <3>1. f[i + 1] = f[i]
      <4>1. PICK q \in Seq(S) : q = f[i]
        BY <2>2
      <4>2. f[i + 1] = q \o <<>>
        BY <2>2, <2>6, <2>9, <4>1 DEF Picked
      <4>. QED
        BY <4>1, <4>2
    <3>2. \A j \in 1 .. i + 1 : j \in P => j \in 1 .. i
      BY <2>1, <2>9
    <3>3. CountIn(P, i + 1) = CountIn(P, i)
      BY <2>4, <2>9
    <3>4. Selected(f[i + 1], s, P, i + 1)
      BY <2>3, <3>1, <3>2, <3>3 DEF Selected
    <3>. QED
      BY <2>1, <3>4
  <2>. QED
    BY <2>8, <2>9
<1>5. \A i \in 0 .. Len(s) : i \in H
  <2>. HIDE DEF H
  <2>1. 0 \in Int /\ Len(s) \in Int
    BY <1>2
  <2>. QED
    BY <1>3, <1>4, <2>1, InductionTo
<1>6. Len(s) \in 0 .. Len(s)
  BY <1>2
<1>. QED
  BY <1>1, <1>5, <1>6 DEF ValuesIn

\* A sequence that has those words in their order is StartingAt.
LEMMA SelectedIsStartingAt ==
  ASSUME NEW S, NEW s \in Seq(S), NEW b, NEW q \in Seq(S),
         Selected(q, s, FromSet(s, b), Len(s))
  PROVE  q = StartingAt(s, b)
<1>1. Len(s) \in Nat
  OBVIOUS
<1>. QED
  BY <1>1, StartingAtSelects, SelectedSame

\* The same words start at every code point, in the same order.
SameRows(s, t) == \A b : StartingAt(s, b) = StartingAt(t, b)

LEMMA StartingAtConcat ==
  ASSUME NEW S, NEW s \in Seq(S), NEW t \in Seq(S), NEW b
  PROVE  StartingAt(s \o t, b) = StartingAt(s, b) \o StartingAt(t, b)
<1>. DEFINE st == s \o t
<1>1. PICK f : Gathers(f, s, b) /\ ValuesIn(f, Len(s), Seq(S)) /\ StartingAt(s, b) = f[Len(s)]
  BY StartingAtGathers
<1>2. PICK g : Gathers(g, t, b) /\ ValuesIn(g, Len(t), Seq(S)) /\ StartingAt(t, b) = g[Len(t)]
  BY StartingAtGathers
<1>3. /\ st \in Seq(S) /\ Len(st) = Len(s) + Len(t) /\ Len(s) \in Nat /\ Len(t) \in Nat
      /\ \A i \in 1 .. Len(s) : st[i] = s[i]
      /\ \A i \in 1 .. Len(t) : st[Len(s) + i] = t[i]
  BY ConcatProperties
<1>. HIDE DEF st
<1>4. PICK h : Gathers(h, st, b) /\ ValuesIn(h, Len(st), Seq(S)) /\ StartingAt(st, b) = h[Len(st)]
  BY <1>3, StartingAtGathers
<1>5. \A i \in 0 .. Len(s) : h[i] = f[i]
  <2>. DEFINE H == {i \in Nat : h[i] = f[i]}
  <2>1. 0 \in H
    BY <1>1, <1>4 DEF Gathers
  <2>2. ASSUME NEW i \in 0 .. Len(s) - 1, i \in H PROVE i + 1 \in H
    <3>1. /\ i + 1 \in 1 .. Len(s) /\ i + 1 \in 1 .. Len(st) /\ (i + 1) - 1 = i
          /\ i + 1 \in Nat
      BY <1>3
    <3>2. h[i + 1] = h[i] \o Picked(st, b, i + 1) /\ f[i + 1] = f[i] \o Picked(s, b, i + 1)
      BY <1>1, <1>4, <3>1 DEF Gathers
    <3>3. Picked(st, b, i + 1) = Picked(s, b, i + 1)
      BY <1>3, <3>1 DEF Picked
    <3>. QED
      BY <2>2, <3>1, <3>2, <3>3
  <2>3. 0 \in Int /\ Len(s) \in Int
    BY <1>3
  <2>4. \A i \in 0 .. Len(s) : i \in H
    <3>. HIDE DEF H
    <3>. QED
      BY <2>1, <2>2, <2>3, InductionTo
  <2>. QED
    BY <2>4
<1>6. h[Len(s)] = f[Len(s)] /\ f[Len(s)] \in Seq(S)
  BY <1>1, <1>3, <1>5 DEF ValuesIn
<1>7. \A j \in 0 .. Len(t) : h[Len(s) + j] = f[Len(s)] \o g[j]
  <2>. DEFINE H == {j \in Nat : h[Len(s) + j] = f[Len(s)] \o g[j]}
  <2>1. 0 \in H
    <3>1. Len(s) + 0 = Len(s) /\ g[0] = <<>>
      BY <1>2, <1>3 DEF Gathers
    <3>2. f[Len(s)] \o <<>> = f[Len(s)]
      BY <1>6
    <3>. QED
      BY <1>6, <3>1, <3>2
  <2>2. ASSUME NEW j \in 0 .. Len(t) - 1, j \in H PROVE j + 1 \in H
    <3>. DEFINE i == Len(s) + (j + 1)
    <3>1. /\ j + 1 \in 1 .. Len(t) /\ i \in 1 .. Len(st) /\ (j + 1) - 1 = j
          /\ i - 1 = Len(s) + j /\ j + 1 \in Nat /\ j \in 0 .. Len(t)
      BY <1>3
    <3>2. h[i] = h[i - 1] \o Picked(st, b, i)
      BY <1>4, <3>1 DEF Gathers
    <3>3. g[j + 1] = g[j] \o Picked(t, b, j + 1) /\ g[j] \in Seq(S)
      BY <1>2, <3>1 DEF Gathers, ValuesIn
    <3>4. Picked(st, b, i) = Picked(t, b, j + 1)
      BY <1>3, <3>1 DEF Picked
    <3>5. Picked(t, b, j + 1) \in Seq(S)
      <4>1. t[j + 1] \in S
        BY <3>1
      <4>. QED
        BY <4>1, EmptySeq DEF Picked
    <3>. DEFINE x == f[Len(s)]
                y == g[j]
                z == Picked(t, b, j + 1)
    <3>6. (x \o y) \o z = x \o (y \o z)
      <4>1. x \in Seq(S) /\ y \in Seq(S) /\ z \in Seq(S)
        BY <1>6, <3>3, <3>5
      <4>. HIDE DEF x, y, z
      <4>. QED
        BY <4>1, SMTT(60)
    <3>7. h[i - 1] = x \o y
      BY <2>2, <3>1
    <3>. HIDE DEF i
    <3>8. h[i] = f[Len(s)] \o g[j + 1]
      BY <3>2, <3>3, <3>4, <3>6, <3>7
    <3>. QED
      BY <3>1, <3>8 DEF i
  <2>3. 0 \in Int /\ Len(t) \in Int
    BY <1>3
  <2>4. \A j \in 0 .. Len(t) : j \in H
    <3>. HIDE DEF H
    <3>. QED
      BY <2>1, <2>2, <2>3, InductionTo
  <2>. QED
    BY <2>4
<1>8. h[Len(st)] = f[Len(s)] \o g[Len(t)]
  <2>1. Len(t) \in 0 .. Len(t) /\ Len(st) = Len(s) + Len(t)
    BY <1>3
  <2>. QED
    BY <1>7, <2>1
<1>. QED
  BY <1>1, <1>2, <1>4, <1>8 DEF st

LEMMA SameRowsConcat ==
  ASSUME NEW S, NEW s \in Seq(S), NEW t \in Seq(S), NEW u \in Seq(S), SameRows(s, t)
  PROVE  SameRows(s \o u, t \o u)
<1>1. ASSUME NEW b PROVE StartingAt(s \o u, b) = StartingAt(t \o u, b)
  <2>1. StartingAt(s \o u, b) = StartingAt(s, b) \o StartingAt(u, b)
    BY StartingAtConcat
  <2>2. StartingAt(t \o u, b) = StartingAt(t, b) \o StartingAt(u, b)
    BY StartingAtConcat
  <2>3. StartingAt(s, b) = StartingAt(t, b)
    BY DEF SameRows
  <2>. QED
    BY <2>1, <2>2, <2>3
<1>. QED
  BY <1>1 DEF SameRows

\* Every word of s is one of t.
Among(s, t) == \A i \in DOMAIN s : \E j \in DOMAIN t : t[j] = s[i]

LEMMA SameRowsAmong ==
  ASSUME NEW S, NEW s \in Seq(S), NEW t \in Seq(S), SameRows(s, t)
  PROVE  Among(s, t)
<1>. SUFFICES ASSUME NEW i \in DOMAIN s PROVE \E j \in DOMAIN t : t[j] = s[i]
  BY DEF Among
<1>. DEFINE b == s[i].from
            P == FromSet(s, b)
            Q == FromSet(t, b)
            k == CountIn(P, i)
            row == StartingAt(s, b)
<1>1. i \in P /\ i \in 1 .. Len(s) /\ Len(s) \in Nat /\ Len(t) \in Nat
  BY DEF FromSet
<1>2. row = StartingAt(t, b)
  BY DEF SameRows
<1>3. Selected(row, s, P, Len(s)) /\ Selected(row, t, Q, Len(t))
  BY <1>2, StartingAtSelects
<1>. HIDE DEF b, P, Q, row
<1>4. k \in 1 .. CountIn(P, Len(s)) /\ row[k] = s[i]
  BY <1>1, <1>3, CountOfMember DEF Selected
<1>. HIDE DEF k
<1>5. k \in 1 .. CountIn(Q, Len(t))
  BY <1>3, <1>4 DEF Selected
<1>6. PICK j \in 1 .. Len(t) : j \in Q /\ CountIn(Q, j) = k
  BY <1>1, <1>5, CountOnto DEF Numbered
<1>7. row[k] = t[j]
  BY <1>3, <1>6 DEF Selected
<1>. QED
  BY <1>4, <1>7
-----------------------------------------------------------------------------
(* Words in the order of their starts *)

Starts(s) == \A i \in DOMAIN s : s[i].from \in Int
Ordered(s) == \A k, l \in DOMAIN s : k <= l => s[k].from <= s[l].from

\* The words that start before code point b, and their number.
BeforeSet(s, b) == {j \in DOMAIN s : s[j].from < b}
CountBefore(s, b) == Cardinality(BeforeSet(s, b))

LEMMA PlacesFinite ==
  ASSUME NEW S, NEW s \in Seq(S), NEW b
  PROVE  /\ IsFiniteSet(BeforeSet(s, b)) /\ CountBefore(s, b) \in Nat
         /\ IsFiniteSet(FromSet(s, b))
         /\ CountIn(FromSet(s, b), Len(s)) = Cardinality(FromSet(s, b))
<1>1. Len(s) \in Nat /\ DOMAIN s = 1 .. Len(s)
  OBVIOUS
<1>2. IsFiniteSet(DOMAIN s)
  BY <1>1, IntervalFinite
<1>3. BeforeSet(s, b) \in SUBSET DOMAIN s /\ FromSet(s, b) \in SUBSET DOMAIN s
  BY DEF BeforeSet, FromSet
<1>4. IsFiniteSet(BeforeSet(s, b)) /\ IsFiniteSet(FromSet(s, b))
  BY <1>2, <1>3, FS_Subset
<1>5. UpTo(FromSet(s, b), Len(s)) = FromSet(s, b)
  BY <1>1, <1>3 DEF UpTo
<1>. QED
  BY <1>4, <1>5, FS_CardinalityType DEF CountBefore, CountIn

LEMMA DisjointUnion ==
  ASSUME NEW A, NEW B, IsFiniteSet(A), IsFiniteSet(B), A \cap B = {}
  PROVE  Cardinality(A \cup B) = Cardinality(A) + Cardinality(B)
<1>1. Cardinality({}) = 0 /\ Cardinality(A) \in Nat /\ Cardinality(B) \in Nat
  BY FS_EmptySet, FS_CardinalityType
<1>2. Cardinality(A \cup B) = Cardinality(A) + Cardinality(B) - Cardinality(A \cap B)
  BY FS_Union
<1>3. Cardinality(A \cap B) = 0
  BY <1>1
<1>. QED
  BY <1>1, <1>2, <1>3

LEMMA CountBeforeSteps ==
  ASSUME NEW S, NEW s \in Seq(S), Starts(s), NEW b \in Int
  PROVE  CountBefore(s, b + 1) = CountBefore(s, b) + CountIn(FromSet(s, b), Len(s))
<1>1. BeforeSet(s, b + 1) = BeforeSet(s, b) \cup FromSet(s, b)
  BY DEF BeforeSet, FromSet, Starts
<1>2. BeforeSet(s, b) \cap FromSet(s, b) = {}
  BY DEF BeforeSet, FromSet
<1>. QED
  BY <1>1, <1>2, PlacesFinite, DisjointUnion DEF CountBefore

\* In an ordered sequence the words that start at a code point stand together.
LEMMA OrderedPlace ==
  ASSUME NEW S, NEW s \in Seq(S), Starts(s), Ordered(s), NEW i \in DOMAIN s
  PROVE  i = CountBefore(s, s[i].from) + CountIn(FromSet(s, s[i].from), i)
<1>. DEFINE b == s[i].from
            here == UpTo(FromSet(s, b), i)
<1>1. DOMAIN s = 1 .. Len(s) /\ Len(s) \in Nat /\ i \in Nat /\ b \in Int
  BY DEF Starts
<1>2. BeforeSet(s, b) \cup here = 1 .. i
  <2>1. ASSUME NEW j \in DOMAIN s, s[j].from < b PROVE j \in 1 .. i
    <3>1. ~(i <= j)
      BY <2>1 DEF Ordered, Starts
    <3>. QED
      BY <1>1, <3>1
  <2>2. ASSUME NEW j \in 1 .. i PROVE j \in DOMAIN s /\ (s[j].from < b \/ s[j].from = b)
    <3>1. j \in DOMAIN s /\ j <= i
      BY <1>1
    <3>2. s[j].from <= b /\ s[j].from \in Int
      BY <3>1 DEF Ordered, Starts
    <3>. QED
      BY <1>1, <3>1, <3>2
  <2>3. ASSUME NEW j \in 1 .. i PROVE j \in BeforeSet(s, b) \cup here
    <3>. HIDE DEF b
    <3>. QED
      BY <2>2 DEF BeforeSet, FromSet, UpTo
  <2>4. ASSUME NEW j \in BeforeSet(s, b) \cup here PROVE j \in 1 .. i
    <3>. HIDE DEF b
    <3>. QED
      BY <2>1 DEF BeforeSet, UpTo
  <2>. QED
    BY <2>3, <2>4
<1>3. BeforeSet(s, b) \cap here = {}
  <2>. HIDE DEF b
  <2>. QED
    BY <1>1 DEF BeforeSet, FromSet, UpTo
<1>4. IsFiniteSet(here) /\ IsFiniteSet(BeforeSet(s, b))
  <2>1. IsFiniteSet(here)
    <3>. HIDE DEF b
    <3>. QED
      BY <1>1, CountSteps
  <2>2. IsFiniteSet(BeforeSet(s, b))
    <3>. HIDE DEF b, here
    <3>. QED
      BY PlacesFinite
  <2>. QED
    BY <2>1, <2>2
<1>5. Cardinality(1 .. i) = i
  <2>1. 1 \in Int /\ i \in Int
    BY <1>1
  <2>2. Cardinality(1 .. i) = IF 1 > i THEN 0 ELSE i - 1 + 1
    BY <2>1, FS_Interval
  <2>. QED
    BY <1>1, <2>2
<1>6. Cardinality(BeforeSet(s, b) \cup here) = Cardinality(BeforeSet(s, b)) + Cardinality(here)
  <2>. HIDE DEF b, here
  <2>. QED
    BY <1>3, <1>4, DisjointUnion
<1>. QED
  BY <1>2, <1>5, <1>6 DEF CountBefore, CountIn

LEMMA OrderedSlice ==
  ASSUME NEW S, NEW s \in Seq(S), Starts(s), Ordered(s), NEW b \in Int
  PROVE  StartingAt(s, b) =
           [i \in 1 .. CountIn(FromSet(s, b), Len(s)) |-> s[CountBefore(s, b) + i]]
<1>. DEFINE q == StartingAt(s, b)
            P == FromSet(s, b)
            c == CountIn(P, Len(s))
<1>1. q \in Seq(S) /\ Selected(q, s, P, Len(s)) /\ Len(s) \in Nat /\ DOMAIN s = 1 .. Len(s)
  BY StartingAtSelects
<1>2. ASSUME NEW k \in 1 .. c PROVE q[k] = s[CountBefore(s, b) + k]
  <2>1. PICK i \in 1 .. Len(s) : i \in P /\ CountIn(P, i) = k
    BY <1>1, CountOnto DEF Numbered
  <2>2. q[k] = s[i]
    BY <1>1, <2>1 DEF Selected
  <2>3. s[i].from = b /\ i \in DOMAIN s
    BY <2>1 DEF FromSet
  <2>4. i = CountBefore(s, b) + k
    BY <2>1, <2>3, OrderedPlace
  <2>. QED
    BY <2>2, <2>4
<1>3. DOMAIN q = 1 .. c
  BY <1>1 DEF Selected
<1>4. q = [k \in DOMAIN q |-> q[k]]
  <2>. HIDE DEF q
  <2>. QED
    BY <1>1
<1>. HIDE DEF q, c, P
<1>5. q = [k \in 1 .. c |-> s[CountBefore(s, b) + k]]
  BY <1>2, <1>3, <1>4
<1>. QED
  BY <1>5 DEF q, c, P
-----------------------------------------------------------------------------
(* What chains of words reach *)

Fit(s, m) == \A i \in DOMAIN s : s[i].from \in 0 .. m - 1 /\ s[i].to \in s[i].from + 1 .. m

\* T holds the end of every word whose start it holds.
Closed(T, s) == \A i \in DOMAIN s : s[i].from \in T => s[i].to \in T

EndsFrom(s, T) == {s[i].to : i \in {j \in DOMAIN s : s[j].from \in T}}
Widens(w, s, m) ==
  /\ w[0] = {0}
  /\ \A k \in 1 .. m : w[k] = w[k - 1] \cup EndsFrom(s, w[k - 1])

LEMMA ReachedWidens ==
  ASSUME NEW s, NEW m \in Nat
  PROVE  \E w : Widens(w, s, m) /\ ReachedBy(s, m) = w[m]
<1>. DEFINE V == SUBSET ({0} \cup {s[i].to : i \in DOMAIN s})
            G == [p \in (1 .. m) \X V |-> p[2] \cup EndsFrom(s, p[2])]
            Eq(f) == f = [k \in 0 .. m |->
                            IF k = 0 THEN {0}
                            ELSE f[k - 1] \cup {s[i].to : i \in {j \in DOMAIN s : s[j].from \in f[k - 1]}}]
<1>1. {0} \in V
  OBVIOUS
<1>2. G \in [(1 .. m) \X V -> V]
  BY DEF EndsFrom
<1>3. PICK g \in [0 .. m -> V] : IsRecursive(g, m, {0}, G)
  <2>. HIDE DEF G, V
  <2>. QED
    BY <1>1, <1>2, RecursionExists
<1>4. Eq(g)
  <2>1. \A k \in 0 .. m : k # 0 => <<k, g[k - 1]>> \in (1 .. m) \X V
    <3>1. \A k \in 0 .. m : k # 0 => k - 1 \in 0 .. m /\ k \in 1 .. m
      OBVIOUS
    <3>. HIDE DEF G, V
    <3>. QED
      BY <1>3, <3>1
  <2>2. \A k \in 0 .. m : k # 0 => G[<<k, g[k - 1]>>] =
          g[k - 1] \cup {s[i].to : i \in {j \in DOMAIN s : s[j].from \in g[k - 1]}}
    <3>. HIDE DEF V
    <3>. QED
      BY <2>1 DEF EndsFrom
  <2>3. g = [k \in 0 .. m |-> IF k = 0 THEN {0} ELSE G[<<k, g[k - 1]>>]]
    BY <1>3 DEF IsRecursive
  <2>. HIDE DEF G, V
  <2>. QED
    BY <2>2, <2>3
<1>. DEFINE f == CHOOSE h : Eq(h)
<1>5. Eq(f)
  BY <1>4
<1>6. ReachedBy(s, m) = f[m]
  BY DEF ReachedBy
<1>7. Widens(f, s, m)
  <2>. HIDE DEF f
  <2>1. \A k \in 0 .. m : f[k] = IF k = 0 THEN {0} ELSE f[k - 1] \cup EndsFrom(s, f[k - 1])
    BY <1>5 DEF EndsFrom
  <2>2. 0 \in 0 .. m /\ \A k \in 1 .. m : k \in 0 .. m /\ k # 0
    OBVIOUS
  <2>. QED
    BY <2>1, <2>2 DEF Widens
<1>. HIDE DEF f
<1>. QED
  BY <1>6, <1>7

LEMMA ReachedLeast ==
  ASSUME NEW s, NEW m \in Nat, NEW T, 0 \in T, Closed(T, s)
  PROVE  ReachedBy(s, m) \subseteq T
<1>1. PICK w : Widens(w, s, m) /\ ReachedBy(s, m) = w[m]
  BY ReachedWidens
<1>. DEFINE H == {k \in Nat : w[k] \subseteq T}
<1>2. 0 \in H
  BY <1>1 DEF Widens
<1>3. ASSUME NEW k \in 0 .. m - 1, k \in H PROVE k + 1 \in H
  <2>1. k + 1 \in 1 .. m /\ (k + 1) - 1 = k /\ k + 1 \in Nat
    OBVIOUS
  <2>2. w[k + 1] = w[k] \cup EndsFrom(s, w[k])
    BY <1>1, <2>1 DEF Widens
  <2>. QED
    BY <1>3, <2>1, <2>2 DEF EndsFrom, Closed
<1>4. \A k \in 0 .. m : k \in H
  <2>1. 0 \in Int /\ m \in Int
    OBVIOUS
  <2>. HIDE DEF H
  <2>. QED
    BY <1>2, <1>3, <2>1, InductionTo
<1>. QED
  BY <1>1, <1>4

\* For words that go forward and stay in the sentence, as many steps as there
\* are code points suffice: where a word starts that is reached, its end is.
LEMMA ReachedClosed ==
  ASSUME NEW s, NEW m \in Nat, Fit(s, m)
  PROVE  0 \in ReachedBy(s, m) /\ ReachedBy(s, m) \subseteq 0 .. m /\ Closed(ReachedBy(s, m), s)
<1>1. PICK w : Widens(w, s, m) /\ ReachedBy(s, m) = w[m]
  BY ReachedWidens
<1>2. \A k \in 0 .. m : \A j \in 0 .. k : w[j] \subseteq w[k]
  <2>. DEFINE H == {k \in Nat : \A j \in 0 .. k : w[j] \subseteq w[k]}
  <2>1. 0 \in H
    <3>1. \A j \in 0 .. 0 : j = 0
      OBVIOUS
    <3>. QED
      BY <3>1
  <2>2. ASSUME NEW k \in 0 .. m - 1, k \in H PROVE k + 1 \in H
    <3>1. k + 1 \in 1 .. m /\ (k + 1) - 1 = k /\ k + 1 \in Nat
      OBVIOUS
    <3>2. w[k] \subseteq w[k + 1]
      BY <1>1, <3>1 DEF Widens
    <3>3. \A j \in 0 .. k + 1 : j \in 0 .. k \/ j = k + 1
      OBVIOUS
    <3>. QED
      BY <2>2, <3>1, <3>2, <3>3
  <2>3. 0 \in Int /\ m \in Int
    OBVIOUS
  <2>4. \A k \in 0 .. m : k \in H
    <3>. HIDE DEF H
    <3>. QED
      BY <2>1, <2>2, <2>3, InductionTo
  <2>. QED
    BY <2>4
<1>3. ASSUME NEW i \in DOMAIN s, s[i].from \in w[s[i].from]
      PROVE  s[i].to \in 0 .. m /\ s[i].to \in w[s[i].to] /\ s[i].to \in w[m]
  <2>1. PICK a \in 0 .. m - 1, b \in 1 .. m : a = s[i].from /\ b = s[i].to /\ a + 1 <= b
    <3>1. s[i].from \in 0 .. m - 1 /\ s[i].to \in s[i].from + 1 .. m
      BY DEF Fit
    <3>2. s[i].to \in 1 .. m /\ s[i].from + 1 <= s[i].to
      BY <3>1
    <3>. QED
      BY <3>1, <3>2
  <2>2. b \in 0 .. m /\ b - 1 \in 0 .. m /\ a \in 0 .. b - 1 /\ m \in 0 .. m /\ b \in 0 .. m
    BY <2>1
  <2>3. a \in w[b - 1]
    BY <1>2, <1>3, <2>1, <2>2
  <2>4. b \in w[b]
    <3>1. w[b] = w[b - 1] \cup EndsFrom(s, w[b - 1])
      BY <1>1 DEF Widens
    <3>2. s[i].to \in EndsFrom(s, w[b - 1])
      BY <2>1, <2>3 DEF EndsFrom
    <3>. QED
      BY <2>1, <3>1, <3>2
  <2>5. b \in w[m]
    BY <1>2, <2>2, <2>4
  <2>. QED
    BY <2>1, <2>2, <2>4, <2>5
<1>4. \A k \in 0 .. m : w[k] \subseteq 0 .. m /\ \A b \in w[k] : b \in w[b]
  <2>. DEFINE H == {k \in Nat : w[k] \subseteq 0 .. m /\ \A b \in w[k] : b \in w[b]}
  <2>1. 0 \in H
    BY <1>1 DEF Widens
  <2>2. ASSUME NEW k \in 0 .. m - 1, k \in H PROVE k + 1 \in H
    <3>1. k + 1 \in 1 .. m /\ (k + 1) - 1 = k /\ k + 1 \in Nat
      OBVIOUS
    <3>2. w[k + 1] = w[k] \cup EndsFrom(s, w[k])
      BY <1>1, <3>1 DEF Widens
    <3>3. ASSUME NEW b \in EndsFrom(s, w[k]) PROVE b \in 0 .. m /\ b \in w[b]
      <4>1. PICK i \in DOMAIN s : s[i].from \in w[k] /\ s[i].to = b
        BY DEF EndsFrom
      <4>2. s[i].from \in w[s[i].from]
        BY <2>2, <4>1
      <4>. QED
        BY <1>3, <4>1, <4>2
    <3>. QED
      BY <2>2, <3>1, <3>2, <3>3
  <2>3. 0 \in Int /\ m \in Int
    OBVIOUS
  <2>4. \A k \in 0 .. m : k \in H
    <3>. HIDE DEF H
    <3>. QED
      BY <2>1, <2>2, <2>3, InductionTo
  <2>. QED
    BY <2>4
<1>5. m \in 0 .. m /\ 0 \in 0 .. m
  OBVIOUS
<1>6. 0 \in w[m]
  BY <1>1, <1>2, <1>5 DEF Widens
<1>7. Closed(w[m], s)
  BY <1>3, <1>4, <1>5 DEF Closed
<1>. QED
  BY <1>1, <1>4, <1>5, <1>6, <1>7

LEMMA ReachedSame ==
  ASSUME NEW s, NEW t, NEW m \in Nat, Fit(s, m), Fit(t, m), Among(s, t), Among(t, s)
  PROVE  ReachedBy(s, m) = ReachedBy(t, m)
<1>1. ASSUME NEW x, NEW y, Fit(y, m), Among(x, y)
      PROVE  ReachedBy(x, m) \subseteq ReachedBy(y, m)
  <2>1. 0 \in ReachedBy(y, m) /\ Closed(ReachedBy(y, m), y)
    BY <1>1, ReachedClosed
  <2>2. Closed(ReachedBy(y, m), x)
    BY <1>1, <2>1 DEF Closed, Among
  <2>. QED
    BY <2>1, <2>2, ReachedLeast
<1>. QED
  BY <1>1
-----------------------------------------------------------------------------
(* Chains of nodes *)

\* The chains of ch that end where x starts, and those chains with one node more.
Arriving(l, ch, x) == UNION {{d \in ch[a] : EndIn(l, d[Len(d)]) = x} : a \in 0 .. x - 1}
GoneOn(l, ch, x) == UNION {{Append(c, v) : v \in RowOf(l, x)} : c \in Arriving(l, ch, x)}
IsChains(l, ch) ==
  ch = [x \in 0 .. l.n + 2 |-> IF x = 0 THEN {<<Bos0>>} ELSE GoneOn(l, ch, x)]

LEMMA ChainsExist ==
  ASSUME NEW l, l.n \in Nat
  PROVE  \E ch : IsChains(l, ch) /\ \A b : ChainsTo(l, b) = ch[b]
<1>. DEFINE m == l.n + 2
            V == SUBSET Seq(NodesOf(l))
            Extended(x, h) == IF x = 0 THEN {<<Bos0>>} ELSE GoneOn(l, h, x)
            G == [p \in Histories(m, V) |-> Extended(p[1], p[2])]
<1>1. m \in Nat
  OBVIOUS
<1>2. ASSUME NEW x \in 0 .. m, NEW h \in [0 .. x - 1 -> V] PROVE Extended(x, h) \in V
  <2>1. CASE x = 0
    <3>1. Bos0 \in NodesOf(l)
      BY DEF NodesOf
    <3>2. <<Bos0>> \in Seq(NodesOf(l))
      <4>. HIDE DEF V, G
      <4>. QED
        BY <3>1
    <3>. QED
      BY <2>1, <3>2
  <2>2. CASE x # 0
    <3>1. ASSUME NEW c \in Arriving(l, h, x), NEW v \in RowOf(l, x) PROVE Append(c, v) \in Seq(NodesOf(l))
      <4>1. PICK a \in 0 .. x - 1 : c \in h[a]
        BY DEF Arriving
      <4>2. c \in Seq(NodesOf(l))
        BY <4>1
      <4>3. v \in NodesOf(l)
        BY DEF RowOf
      <4>. HIDE DEF V, G
      <4>. QED
        BY <4>2, <4>3
    <3>2. GoneOn(l, h, x) \in V
      <4>1. ASSUME NEW e \in GoneOn(l, h, x) PROVE e \in Seq(NodesOf(l))
        <5>1. PICK c \in Arriving(l, h, x) : e \in {Append(c, v) : v \in RowOf(l, x)}
          BY DEF GoneOn
        <5>2. PICK v \in RowOf(l, x) : e = Append(c, v)
          BY <5>1
        <5>. QED
          BY <3>1, <5>2
      <4>. QED
        BY <4>1
    <3>. QED
      BY <2>2, <3>2
  <2>. QED
    BY <2>1, <2>2
<1>3. G \in [Histories(m, V) -> V]
  <2>1. ASSUME NEW p \in Histories(m, V) PROVE Extended(p[1], p[2]) \in V
    <3>1. PICK x \in 0 .. m : p \in {x} \X [0 .. x - 1 -> V]
      BY DEF Histories
    <3>2. p[1] = x /\ p[2] \in [0 .. x - 1 -> V]
      BY <3>1
    <3>. HIDE DEF Extended, V, G, m
    <3>. QED
      BY <1>2, <3>2
  <2>. HIDE DEF Extended, V
  <2>. QED
    BY <2>1
<1>4. PICK g \in [0 .. m -> V] : IsCourse(g, m, G)
  <2>. HIDE DEF m, V, G
  <2>. QED
    BY <1>1, <1>3, CourseExists
<1>5. IsChains(l, g)
  <2>1. ASSUME NEW x \in 0 .. m
        PROVE  G[<<x, ValuesBefore(g, x)>>] = IF x = 0 THEN {<<Bos0>>} ELSE GoneOn(l, g, x)
    <3>. DEFINE h == ValuesBefore(g, x)
    <3>1. h \in [0 .. x - 1 -> V]
      <4>1. \A j \in 0 .. x - 1 : j \in 0 .. m
        OBVIOUS
      <4>. HIDE DEF V, G, m
      <4>. QED
        BY <1>4, <4>1 DEF ValuesBefore
    <3>2. <<x, h>> \in Histories(m, V)
      <4>. HIDE DEF V, G, m, h
      <4>. QED
        BY <3>1 DEF Histories
    <3>3. G[<<x, h>>] = Extended(x, h)
      <4>. HIDE DEF V, m, h, Extended
      <4>. QED
        BY <3>2
    <3>4. \A a \in 0 .. x - 1 : h[a] = g[a]
      BY DEF ValuesBefore
    <3>5. Arriving(l, h, x) = Arriving(l, g, x)
      <4>. HIDE DEF h, G, V
      <4>. QED
        BY <3>4 DEF Arriving
    <3>6. GoneOn(l, h, x) = GoneOn(l, g, x)
      BY <3>5 DEF GoneOn
    <3>. QED
      BY <3>3, <3>6
  <2>2. g = [x \in 0 .. m |-> G[<<x, ValuesBefore(g, x)>>]]
    BY <1>4 DEF IsCourse
  <2>. HIDE DEF G, V
  <2>. QED
    BY <2>1, <2>2 DEF IsChains
<1>. DEFINE f == CHOOSE ch : IsChains(l, ch)
<1>6. IsChains(l, f)
  BY <1>5
<1>7. ASSUME NEW b PROVE ChainsTo(l, b) = f[b]
  BY DEF ChainsTo, IsChains, GoneOn, Arriving
<1>. HIDE DEF f
<1>. QED
  BY <1>6, <1>7

\* A chain to a boundary is one to an earlier boundary whose last node ends
\* there, and a node that starts there.
LEMMA ChainsSteps ==
  ASSUME NEW l, l.n \in Nat
  PROVE  /\ ChainsTo(l, 0) = {<<Bos0>>}
         /\ \A x \in 1 .. l.n + 2 : \A c :
              c \in ChainsTo(l, x) <=>
                \E a \in 0 .. x - 1 : \E d \in ChainsTo(l, a) : \E v \in RowOf(l, x) :
                  EndIn(l, d[Len(d)]) = x /\ c = Append(d, v)
<1>1. PICK ch : IsChains(l, ch) /\ \A b : ChainsTo(l, b) = ch[b]
  BY ChainsExist
<1>2. \A x \in 0 .. l.n + 2 : ch[x] = IF x = 0 THEN {<<Bos0>>} ELSE GoneOn(l, ch, x)
  <2>. DEFINE h == [x \in 0 .. l.n + 2 |-> IF x = 0 THEN {<<Bos0>>} ELSE GoneOn(l, ch, x)]
  <2>1. ch = h
    BY <1>1 DEF IsChains
  <2>2. \A x \in 0 .. l.n + 2 : h[x] = IF x = 0 THEN {<<Bos0>>} ELSE GoneOn(l, ch, x)
    OBVIOUS
  <2>. HIDE DEF h
  <2>. QED
    BY <2>1, <2>2
<1>3. ChainsTo(l, 0) = {<<Bos0>>}
  <2>1. 0 \in 0 .. l.n + 2
    OBVIOUS
  <2>. QED
    BY <1>1, <1>2, <2>1
<1>4. ASSUME NEW x \in 1 .. l.n + 2, NEW c
      PROVE  c \in ChainsTo(l, x) <=>
                \E a \in 0 .. x - 1 : \E d \in ChainsTo(l, a) : \E v \in RowOf(l, x) :
                  EndIn(l, d[Len(d)]) = x /\ c = Append(d, v)
  <2>1. x \in 0 .. l.n + 2 /\ x # 0
    OBVIOUS
  <2>2. ChainsTo(l, x) = GoneOn(l, ch, x)
    BY <1>1, <1>2, <2>1
  <2>3. c \in GoneOn(l, ch, x) <=>
          \E d \in Arriving(l, ch, x) : \E v \in RowOf(l, x) : c = Append(d, v)
    BY DEF GoneOn
  <2>4. \A d : d \in Arriving(l, ch, x) <=>
          \E a \in 0 .. x - 1 : d \in ChainsTo(l, a) /\ EndIn(l, d[Len(d)]) = x
    BY <1>1 DEF Arriving
  <2>. QED
    BY <2>2, <2>3, <2>4
<1>. QED
  BY <1>3, <1>4

\* A chain starts at BOS, its nodes meet, and its last node starts at x.
IsChain(l, c, x) ==
  /\ c \in Seq(NodesOf(l)) /\ Len(c) \in 1 .. x + 1
  /\ c[1] = Bos0 /\ c[Len(c)] \in RowOf(l, x)
  /\ \A i \in 1 .. Len(c) - 1 : EndIn(l, c[i]) = c[i + 1][1]

LEMMA ChainShape ==
  ASSUME NEW l, l.n \in Nat, NEW b \in 0 .. l.n + 2, NEW c \in ChainsTo(l, b)
  PROVE  IsChain(l, c, b)
<1>. DEFINE H == {x \in Nat : \A d \in ChainsTo(l, x) : IsChain(l, d, x)}
<1>1. ASSUME NEW x \in 0 .. l.n + 2, \A a \in 0 .. x - 1 : a \in H PROVE x \in H
  <2>. SUFFICES ASSUME NEW d \in ChainsTo(l, x) PROVE IsChain(l, d, x)
    OBVIOUS
  <2>1. CASE x = 0
    <3>1. d = <<Bos0>>
      BY <2>1, ChainsSteps
    <3>2. Bos0 \in RowOf(l, 0) /\ Bos0 \in NodesOf(l)
      BY DEF RowOf, NodesOf, Bos0
    <3>3. <<Bos0>> \in Seq(NodesOf(l)) /\ Len(<<Bos0>>) = 1 /\ <<Bos0>>[1] = Bos0
      BY <3>2
    <3>. QED
      BY <2>1, <3>1, <3>2, <3>3 DEF IsChain
  <2>2. CASE x # 0
    <3>1. x \in 1 .. l.n + 2
      BY <2>2
    <3>2. PICK a \in 0 .. x - 1 : \E e \in ChainsTo(l, a) : \E v \in RowOf(l, x) :
            EndIn(l, e[Len(e)]) = x /\ d = Append(e, v)
      BY <3>1, ChainsSteps
    <3>. PICK e \in ChainsTo(l, a), v \in RowOf(l, x) :
           EndIn(l, e[Len(e)]) = x /\ d = Append(e, v)
      BY <3>2
    <3>3. IsChain(l, e, a)
      BY <1>1, <3>2
    <3>4. v \in NodesOf(l) /\ v[1] = x
      BY DEF RowOf
    <3>5. /\ d \in Seq(NodesOf(l)) /\ Len(d) = Len(e) + 1 /\ Len(e) \in Nat /\ d[Len(d)] = v
          /\ \A i \in 1 .. Len(e) : d[i] = e[i]
      <4>1. PICK q \in Seq(NodesOf(l)), u \in NodesOf(l) : q = e /\ u = v /\ d = Append(q, u)
        BY <3>3, <3>4 DEF IsChain
      <4>. HIDE DEF H
      <4>2. /\ Append(q, u) \in Seq(NodesOf(l)) /\ Len(Append(q, u)) = Len(q) + 1
            /\ Len(q) \in Nat /\ Append(q, u)[Len(q) + 1] = u
            /\ \A i \in 1 .. Len(q) : Append(q, u)[i] = q[i]
        OBVIOUS
      <4>. QED
        BY <4>1, <4>2
    <3>6. Len(d) \in 1 .. x + 1 /\ d[1] = Bos0
      <4>1. Len(e) \in 1 .. a + 1 /\ a + 1 <= x
        BY <3>3 DEF IsChain
      <4>. QED
        BY <3>3, <3>5, <4>1 DEF IsChain
    <3>7. ASSUME NEW i \in 1 .. Len(d) - 1 PROVE EndIn(l, d[i]) = d[i + 1][1]
      <4>1. CASE i = Len(e)
        <5>1. d[i] = e[Len(e)] /\ d[i + 1] = v
          BY <3>5, <4>1
        <5>. QED
          BY <3>2, <3>4, <5>1
      <4>2. CASE i # Len(e)
        <5>1. i \in 1 .. Len(e) - 1 /\ i \in 1 .. Len(e) /\ i + 1 \in 1 .. Len(e)
          BY <3>5, <4>2
        <5>2. d[i] = e[i] /\ d[i + 1] = e[i + 1]
          BY <3>5, <5>1
        <5>. QED
          BY <3>3, <5>1, <5>2 DEF IsChain
      <4>. QED
        BY <4>1, <4>2
    <3>. QED
      BY <3>5, <3>6, <3>7 DEF IsChain
  <2>. QED
    BY <2>1, <2>2
<1>2. \A x \in 0 .. l.n + 2 : x \in H
  <2>1. l.n + 2 \in Int
    OBVIOUS
  <2>. HIDE DEF H
  <2>. QED
    BY <1>1, <2>1, CourseInduction
<1>. QED
  BY <1>2

\* If every word is a node of the lattice and chains of words reach the end of
\* the sentence, a chain of nodes goes from BOS to EOS.
HasNodes(l, s) ==
  \A i \in DOMAIN s :
    \E k \in DOMAIN l.nodes[s[i].from + 2] : l.nodes[s[i].from + 2][k] = s[i].to + 2

LEMMA ReachedConnects ==
  ASSUME NEW l, IsLattice(l), NEW s, Fit(s, l.n), HasNodes(l, s), l.n \in ReachedBy(s, l.n)
  PROVE  IsConnected(l)
<1>. DEFINE Arrives(x) == \E a \in 0 .. x - 1 : \E c \in ChainsTo(l, a) : EndIn(l, c[Len(c)]) = x
            T == {b \in 0 .. l.n : Arrives(b + 2)}
<1>1. l.n \in Nat /\ DOMAIN l.nodes = 2 .. l.n + 1
  BY DEF IsLattice
<1>2. ASSUME NEW x \in 1 .. l.n + 2, NEW v \in RowOf(l, x), Arrives(x)
      PROVE  \E c \in ChainsTo(l, x) : c[Len(c)] = v
  <2>1. PICK a \in 0 .. x - 1 : \E d \in ChainsTo(l, a) : EndIn(l, d[Len(d)]) = x
    BY <1>2
  <2>. PICK d \in ChainsTo(l, a) : EndIn(l, d[Len(d)]) = x
    BY <2>1
  <2>2. Append(d, v) \in ChainsTo(l, x)
    BY <1>1, <2>1, ChainsSteps
  <2>3. a \in 0 .. l.n + 2
    BY <1>1
  <2>4. d \in Seq(NodesOf(l))
    BY <1>1, <2>3, ChainShape DEF IsChain
  <2>5. Append(d, v)[Len(Append(d, v))] = v
    BY <2>4 DEF RowOf
  <2>. QED
    BY <2>2, <2>5
<1>3. 0 \in T
  <2>1. <<Bos0>> \in ChainsTo(l, 0) /\ <<Bos0>>[Len(<<Bos0>>)] = Bos0
    BY <1>1, ChainsSteps
  <2>2. EndIn(l, Bos0) = 1 /\ EndIn(l, Bos1) = 2
    BY <1>1 DEF EndIn, Bos0, Bos1
  <2>3. Arrives(1)
    BY <2>1, <2>2
  <2>4. Bos1 \in RowOf(l, 1) /\ 1 \in 1 .. l.n + 2
    BY <1>1 DEF RowOf, NodesOf, Bos1
  <2>5. \E c \in ChainsTo(l, 1) : c[Len(c)] = Bos1
    BY <1>2, <2>3, <2>4
  <2>6. Arrives(2)
    BY <2>2, <2>5
  <2>. QED
    BY <1>1, <2>6
<1>4. Closed(T, s)
  <2>. SUFFICES ASSUME NEW i \in DOMAIN s, s[i].from \in T PROVE s[i].to \in T
    BY DEF Closed
  <2>1. PICK b \in 0 .. l.n - 1, e \in 1 .. l.n : b = s[i].from /\ e = s[i].to /\ b < e
    <3>1. s[i].from \in 0 .. l.n - 1 /\ s[i].to \in s[i].from + 1 .. l.n
      BY DEF Fit
    <3>2. s[i].to \in 1 .. l.n /\ s[i].from < s[i].to
      BY <1>1, <3>1
    <3>. QED
      BY <3>1, <3>2
  <2>2. b + 2 \in 2 .. l.n + 1 /\ b + 2 \in 1 .. l.n + 2 /\ e + 2 \in 3 .. l.n + 2
    <3>1. PICK m \in Nat : m = l.n
      BY <1>1
    <3>2. b \in 0 .. m - 1 /\ e \in 1 .. m
      BY <3>1
    <3>. HIDE DEF T
    <3>3. b + 2 \in 2 .. m + 1 /\ b + 2 \in 1 .. m + 2 /\ e + 2 \in 3 .. m + 2
      BY <3>2
    <3>. QED
      BY <3>1, <3>3
  <2>3. PICK k \in DOMAIN l.nodes[b + 2] : l.nodes[b + 2][k] = e + 2
    BY <2>1 DEF HasNodes
  <2>. DEFINE v == <<b + 2, k>>
  <2>4. v \in RowOf(l, b + 2)
    <3>1. v \in WordsOf(l)
      <4>1. b + 2 \in DOMAIN l.nodes
        BY <1>1, <2>2
      <4>2. v \in {<<b + 2, h>> : h \in DOMAIN l.nodes[b + 2]}
        OBVIOUS
      <4>. HIDE DEF T, v
      <4>. QED
        BY <4>1, <4>2 DEF WordsOf
    <3>2. v \in NodesOf(l) /\ v[1] = b + 2
      BY <3>1 DEF NodesOf
    <3>. QED
      BY <3>2 DEF RowOf
  <2>5. EndIn(l, v) = e + 2
    <3>1. v[1] = b + 2 /\ v[2] = k
      OBVIOUS
    <3>2. v[1] # 0 /\ v[1] # 1 /\ v[1] # l.n + 2
      <4>1. PICK m \in Nat : m = l.n
        BY <1>1
      <4>2. b \in 0 .. m - 1
        BY <4>1
      <4>. HIDE DEF T, v
      <4>3. b + 2 # 0 /\ b + 2 # 1 /\ b + 2 # m + 2
        BY <4>2
      <4>. QED
        BY <3>1, <4>1, <4>3
    <3>3. EndIn(l, v) = l.nodes[v[1]][v[2]]
      <4>. HIDE DEF T, v
      <4>. QED
        BY <3>2, Zenon DEF EndIn
    <3>. QED
      BY <3>1, <3>3, <2>3
  <2>6. Arrives(b + 2)
    BY <2>1
  <2>7. \E c \in ChainsTo(l, b + 2) : c[Len(c)] = v
    BY <1>2, <2>2, <2>4, <2>6
  <2>8. b + 2 \in 0 .. (e + 2) - 1
    <3>1. b \in Nat /\ e \in Nat /\ b < e
      BY <1>1, <2>1
    <3>. HIDE DEF T, v
    <3>. QED
      BY <3>1
  <2>9. Arrives(e + 2)
    BY <2>5, <2>7, <2>8
  <2>10. e \in 0 .. l.n
    BY <1>1
  <2>11. e \in T
    BY <2>9, <2>10
  <2>. QED
    BY <2>1, <2>11
<1>5. l.n \in T
  <2>. HIDE DEF T
  <2>. QED
    BY <1>1, <1>3, <1>4, ReachedLeast
<1>6. EosOf(l) \in RowOf(l, l.n + 2) /\ l.n + 2 \in 1 .. l.n + 2
  BY <1>1 DEF RowOf, NodesOf, EosOf
<1>7. \E c \in ChainsTo(l, l.n + 2) : c[Len(c)] = EosOf(l)
  BY <1>2, <1>5, <1>6
<1>. QED
  BY <1>7 DEF IsConnected, ChainsOf
-----------------------------------------------------------------------------
(* The total score of a chain *)

\* The local score of the three nodes of c that end at place i, and the sums of
\* the local scores up to every place.
ScoreAt(w, c, i) == w[<<c[i - 2], c[i - 1], c[i]>>]
ScoredWith(w, c) == \A i \in 3 .. Len(c) : ScoreAt(w, c, i) \in Int
SumsUp(f, w, c) ==
  f[2] = 0 /\ \A i \in 3 .. Len(c) : f[i] = f[i - 1] + ScoreAt(w, c, i)

LEMMA TotalUnrolls ==
  ASSUME NEW w, NEW c, Len(c) \in Nat, Len(c) >= 2, ScoredWith(w, c)
  PROVE  \E f : SumsUp(f, w, c) /\ Total(w, c) = f[Len(c)] /\ \A i \in 2 .. Len(c) : f[i] \in Int
<1>. DEFINE m == Len(c) - 2
            G == [p \in (1 .. m) \X Int |-> p[2] + ScoreAt(w, c, p[1] + 2)]
            Eq(f) == f = [i \in 2 .. Len(c) |->
                            IF i = 2 THEN 0 ELSE f[i - 1] + w[<<c[i - 2], c[i - 1], c[i]>>]]
<1>1. m \in Nat /\ \A k \in 1 .. m : k + 2 \in 3 .. Len(c)
  OBVIOUS
<1>2. G \in [(1 .. m) \X Int -> Int]
  <2>. HIDE DEF m
  <2>. QED
    BY <1>1 DEF ScoredWith
<1>3. PICK g \in [0 .. m -> Int] : IsRecursive(g, m, 0, G)
  <2>. HIDE DEF G, m
  <2>1. 0 \in Int
    OBVIOUS
  <2>. QED
    BY <1>1, <1>2, <2>1, RecursionExists
<1>4. g[0] = 0 /\ \A k \in 1 .. m : g[k] = g[k - 1] + ScoreAt(w, c, k + 2)
  <2>1. g = [k \in 0 .. m |-> IF k = 0 THEN 0 ELSE G[<<k, g[k - 1]>>]]
    BY <1>3 DEF IsRecursive
  <2>2. \A k \in 1 .. m : k \in 0 .. m /\ k # 0 /\ k - 1 \in 0 .. m
    OBVIOUS
  <2>3. \A k \in 1 .. m : <<k, g[k - 1]>> \in (1 .. m) \X Int
    BY <1>3, <2>2
  <2>4. \A k \in 1 .. m : G[<<k, g[k - 1]>>] = g[k - 1] + ScoreAt(w, c, k + 2)
    BY <2>3
  <2>5. 0 \in 0 .. m
    BY <1>1
  <2>. HIDE DEF G, m
  <2>. QED
    BY <2>1, <2>2, <2>4, <2>5
<1>. DEFINE h == [i \in 2 .. Len(c) |-> g[i - 2]]
<1>5. Eq(h)
  <2>1. ASSUME NEW i \in 2 .. Len(c)
        PROVE  h[i] = IF i = 2 THEN 0 ELSE h[i - 1] + w[<<c[i - 2], c[i - 1], c[i]>>]
    <3>1. CASE i = 2
      <4>1. i - 2 = 0
        BY <3>1
      <4>. QED
        BY <3>1, <4>1, <1>4
    <3>2. CASE i # 2
      <4>1. i - 2 \in 1 .. m /\ i - 1 \in 2 .. Len(c) /\ (i - 2) - 1 = (i - 1) - 2 /\ (i - 2) + 2 = i
        BY <3>2
      <4>. HIDE DEF m, G
      <4>2. g[i - 2] = g[(i - 1) - 2] + ScoreAt(w, c, i)
        BY <1>4, <4>1
      <4>. QED
        BY <3>2, <4>1, <4>2 DEF ScoreAt
    <3>. QED
      BY <3>1, <3>2
  <2>. HIDE DEF G, m
  <2>. QED
    BY <2>1
<1>. DEFINE f == CHOOSE e : Eq(e)
<1>6. Eq(f)
  BY <1>5
<1>7. Total(w, c) = f[Len(c)]
  BY DEF Total
<1>. HIDE DEF f, G, h, m
<1>8. SumsUp(f, w, c)
  <2>1. 2 \in 2 .. Len(c) /\ \A i \in 3 .. Len(c) : i \in 2 .. Len(c) /\ i # 2
    OBVIOUS
  <2>2. f[2] = 0
    BY <1>6, <2>1
  <2>3. \A i \in 3 .. Len(c) : f[i] = f[i - 1] + w[<<c[i - 2], c[i - 1], c[i]>>]
    BY <1>6, <2>1
  <2>. QED
    BY <2>2, <2>3 DEF SumsUp, ScoreAt
<1>. HIDE DEF Eq
<1>9. \A i \in 2 .. Len(c) : f[i] \in Int
  <2>. DEFINE H == {i \in Nat : f[i] \in Int}
  <2>1. 2 \in H
    BY <1>8 DEF SumsUp
  <2>2. ASSUME NEW k \in 2 .. Len(c) - 1, k \in H PROVE k + 1 \in H
    <3>1. k + 1 \in 3 .. Len(c) /\ (k + 1) - 1 = k /\ k + 1 \in Nat
      OBVIOUS
    <3>. QED
      BY <1>8, <2>2, <3>1 DEF SumsUp, ScoredWith
  <2>3. \A k \in 2 .. Len(c) : k \in H
    <3>1. 2 \in Int /\ Len(c) \in Int
      OBVIOUS
    <3>. HIDE DEF H
    <3>. QED
      BY <2>1, <2>2, <3>1, InductionTo
  <2>. QED
    BY <2>3
<1>. QED
  BY <1>7, <1>8, <1>9

\* A chain of two nodes has no local score.
LEMMA TotalOfTwo ==
  ASSUME NEW w, NEW c, Len(c) = 2
  PROVE  Total(w, c) = 0
<1>1. ScoredWith(w, c)
  BY DEF ScoredWith
<1>2. PICK f : SumsUp(f, w, c) /\ Total(w, c) = f[Len(c)]
  BY <1>1, TotalUnrolls
<1>. QED
  BY <1>2 DEF SumsUp

\* One node more adds one local score.
LEMMA TotalAppend ==
  ASSUME NEW S, NEW c \in Seq(S), NEW v \in S, Len(c) >= 2, NEW w, ScoredWith(w, Append(c, v))
  PROVE  /\ Total(w, Append(c, v)) = Total(w, c) + w[<<c[Len(c) - 1], c[Len(c)], v>>]
         /\ Total(w, c) \in Int /\ ScoredWith(w, c)
<1>. DEFINE d == Append(c, v)
            m == Len(c)
<1>1. /\ m \in Nat /\ m >= 2 /\ Len(d) = m + 1
      /\ \A i \in 1 .. m : d[i] = c[i]
      /\ d[m + 1] = v
  OBVIOUS
<1>. HIDE DEF d
<1>2. \A i \in 3 .. m : ScoreAt(w, c, i) = ScoreAt(w, d, i) /\ i \in 3 .. m + 1
  <2>1. \A i \in 3 .. m : i - 2 \in 1 .. m /\ i - 1 \in 1 .. m /\ i \in 1 .. m
    BY <1>1
  <2>. HIDE DEF m
  <2>. QED
    BY <1>1, <2>1 DEF ScoreAt
<1>3. ScoredWith(w, c) /\ ScoredWith(w, d)
  <2>1. ScoredWith(w, d)
    BY DEF d
  <2>. QED
    BY <1>1, <1>2, <2>1 DEF ScoredWith
<1>4. PICK f : SumsUp(f, w, c) /\ Total(w, c) = f[m] /\ \A i \in 2 .. m : f[i] \in Int
  BY <1>1, <1>3, TotalUnrolls
<1>5. PICK g : SumsUp(g, w, d) /\ Total(w, d) = g[m + 1]
  <2>1. Len(d) \in Nat /\ Len(d) >= 2
    BY <1>1
  <2>. QED
    BY <1>1, <1>3, <2>1, TotalUnrolls
<1>6. \A i \in 2 .. m : f[i] = g[i]
  <2>. DEFINE H == {i \in Nat : f[i] = g[i]}
  <2>1. 2 \in H
    BY <1>4, <1>5 DEF SumsUp
  <2>2. ASSUME NEW k \in 2 .. m - 1, k \in H PROVE k + 1 \in H
    <3>1. k + 1 \in 3 .. m /\ (k + 1) - 1 = k /\ k + 1 \in Nat /\ k + 1 \in 3 .. m + 1
      BY <1>1
    <3>. HIDE DEF m
    <3>2. f[k + 1] = f[k] + ScoreAt(w, c, k + 1)
      BY <1>4, <3>1 DEF SumsUp, m
    <3>3. g[k + 1] = g[k] + ScoreAt(w, d, k + 1)
      BY <1>1, <1>5, <3>1 DEF SumsUp
    <3>. QED
      BY <1>2, <2>2, <3>1, <3>2, <3>3
  <2>3. \A k \in 2 .. m : k \in H
    <3>1. 2 \in Int /\ m \in Int
      OBVIOUS
    <3>. HIDE DEF H, m
    <3>. QED
      BY <2>1, <2>2, <3>1, InductionTo
  <2>. QED
    BY <2>3
<1>7. m \in 2 .. m /\ m + 1 \in 3 .. m + 1 /\ (m + 1) - 1 = m /\ (m + 1) - 2 = m - 1 /\ m - 1 \in 1 .. m
      /\ m \in 1 .. m
  BY <1>1
<1>. HIDE DEF m
<1>8. g[m + 1] = g[m] + ScoreAt(w, d, m + 1)
  BY <1>1, <1>5, <1>7 DEF SumsUp
<1>9. ScoreAt(w, d, m + 1) = w[<<c[m - 1], c[m], v>>]
  BY <1>1, <1>7 DEF ScoreAt
<1>10. Total(w, d) = Total(w, c) + w[<<c[m - 1], c[m], v>>] /\ Total(w, c) \in Int
  BY <1>4, <1>5, <1>6, <1>7, <1>8, <1>9
<1>. QED
  BY <1>3, <1>10 DEF d, m

\* What a number of local scores can come to.
LEMMA TimesKeepsOrder ==
  ASSUME NEW k \in Nat, k > 0, NEW x \in Int, NEW y \in Int
  PROVE  k * x <= k * y <=> x <= y
<1>1. ASSUME x <= y PROVE k * x <= k * y
  <2>1. PICK d \in Nat : y = x + d
    <3>1. y - x \in Nat /\ y = x + (y - x)
      BY <1>1
    <3>. QED
      BY <3>1
  <2>2. k * y = k * x + k * d /\ k * d >= 0 /\ k * x \in Int /\ k * d \in Int
    BY <2>1
  <2>. QED
    BY <2>2
<1>2. ASSUME ~(x <= y) PROVE ~(k * x <= k * y)
  <2>1. PICK d \in Nat : x = y + 1 + d
    <3>1. x - y - 1 \in Nat /\ x = y + 1 + (x - y - 1)
      BY <1>2
    <3>. QED
      BY <3>1
  <2>2. k * x = k * y + k + k * d /\ k * d >= 0 /\ k * y \in Int /\ k * d \in Int
    BY <2>1
  <2>. QED
    BY <2>2
<1>. QED
  BY <1>1, <1>2

\* A factor goes into both addends of a sum.
LEMMA ProductOfSum ==
  ASSUME NEW N \in Int, NEW x \in Int, NEW y \in Int
  PROVE  N * (x + y) = N * x + N * y
OBVIOUS

LEMMA BoundsAdd ==
  ASSUME NEW p \in Int, NEW q \in Int, NEW a \in Int, NEW b \in Int,
         p <= a, -a <= p, q <= b, -b <= q
  PROVE  p + q <= a + b /\ -(a + b) <= p + q
OBVIOUS

LEMMA SumsWithin ==
  ASSUME NEW w, NEW c, Len(c) \in Nat, Len(c) >= 2, ScoredWith(w, c),
         NEW N \in Nat, N > 0, Len(c) <= N + 2, NEW B \in Nat,
         \A i \in 3 .. Len(c) : N * ScoreAt(w, c, i) <= B /\ -B <= N * ScoreAt(w, c, i)
  PROVE  Total(w, c) \in -B .. B
<1>1. PICK f : SumsUp(f, w, c) /\ Total(w, c) = f[Len(c)] /\ \A i \in 2 .. Len(c) : f[i] \in Int
  BY TotalUnrolls
<1>. DEFINE H == {i \in Nat : N * f[i] <= (i - 2) * B /\ -((i - 2) * B) <= N * f[i]}
<1>2. 2 \in H
  <2>1. f[2] = 0
    BY <1>1 DEF SumsUp
  <2>2. N * 0 = 0 /\ (2 - 2) * B = 0
    OBVIOUS
  <2>. QED
    BY <2>1, <2>2
<1>3. ASSUME NEW k \in 2 .. Len(c) - 1, k \in H PROVE k + 1 \in H
  <2>1. k + 1 \in 3 .. Len(c) /\ (k + 1) - 1 = k /\ k + 1 \in Nat /\ k \in 2 .. Len(c)
    OBVIOUS
  <2>2. PICK x \in Int, y \in Int, b \in Int :
          x = f[k] /\ y = ScoreAt(w, c, k + 1) /\ b = (k - 2) * B
    <3>1. f[k] \in Int /\ ScoreAt(w, c, k + 1) \in Int
      BY <1>1, <2>1 DEF ScoredWith
    <3>. QED
      BY <3>1
  <2>3. f[k + 1] = x + y
    BY <1>1, <2>1, <2>2 DEF SumsUp
  <2>4. N * (x + y) = N * x + N * y /\ N * x \in Int /\ N * y \in Int
    <3>1. N * x \in Int /\ N * y \in Int
      BY <2>2
    <3>2. N * (x + y) = N * x + N * y
      BY <2>2, ProductOfSum
    <3>. QED
      BY <3>1, <3>2
  <2>5. ((k + 1) - 2) * B = b + B
    BY <2>2
  <2>6. N * x <= b /\ -b <= N * x
    BY <1>3, <2>2
  <2>7. N * y <= B /\ -B <= N * y
    BY <2>1, <2>2
  <2>8. N * (x + y) <= b + B /\ -(b + B) <= N * (x + y)
    <3>1. PICK p \in Int, q \in Int : p = N * x /\ q = N * y
      BY <2>4
    <3>2. p <= b /\ -b <= p /\ q <= B /\ -B <= q /\ N * (x + y) = p + q
      BY <2>4, <2>6, <2>7, <3>1
    <3>3. p + q <= b + B /\ -(b + B) <= p + q
      BY <3>2, BoundsAdd
    <3>. QED
      BY <3>2, <3>3, Zenon
  <2>9. /\ N * f[k + 1] <= ((k + 1) - 2) * B
        /\ -(((k + 1) - 2) * B) <= N * f[k + 1]
    <3>1. N * f[k + 1] = N * (x + y)
      BY <2>3, Zenon
    <3>2. PICK a \in Int, r \in Int : a = b + B /\ r = N * (x + y)
      <4>1. b + B \in Int /\ N * (x + y) \in Int
        BY <2>2
      <4>. QED
        BY <4>1, Zenon
    <3>3. r <= a /\ -a <= r
      BY <2>8, <3>2
    <3>4. N * f[k + 1] = r /\ ((k + 1) - 2) * B = a
      BY <2>5, <3>1, <3>2
    <3>. HIDE DEF H
    <3>. QED
      BY <3>3, <3>4, Zenon
  <2>. QED
    BY <2>1, <2>9, Zenon
<1>4. \A k \in 2 .. Len(c) : k \in H
  <2>1. 2 \in Int /\ Len(c) \in Int
    OBVIOUS
  <2>. HIDE DEF H
  <2>. QED
    BY <1>2, <1>3, <2>1, InductionTo
<1>5. PICK x \in Int, m \in Nat : x = f[Len(c)] /\ m = Len(c) - 2 /\ m <= N
  <2>1. Len(c) \in 2 .. Len(c) /\ Len(c) - 2 \in Nat /\ Len(c) - 2 <= N
    OBVIOUS
  <2>. QED
    BY <1>1, <2>1
<1>6. N * x <= m * B /\ -(m * B) <= N * x
  <2>1. Len(c) \in H
    BY <1>4
  <2>. QED
    BY <1>5, <2>1
<1>7. m * B <= N * B /\ m * B \in Int /\ N * B \in Int /\ N * (-B) = -(N * B) /\ N * x \in Int
  <2>1. CASE B = 0
    BY <2>1, <1>5
  <2>2. CASE B > 0
    <3>1. B * m <= B * N
      BY <1>5, <2>2, TimesKeepsOrder
    <3>. QED
      BY <3>1, <1>5
  <2>. QED
    BY <2>1, <2>2
<1>8. N * x <= N * B /\ N * (-B) <= N * x
  BY <1>6, <1>7
<1>9. -B \in Int /\ x <= B /\ -B <= x
  BY <1>8, TimesKeepsOrder
<1>. QED
  BY <1>1, <1>5, <1>9
-----------------------------------------------------------------------------
(* Nodes and the chains into them *)

\* A function on 1 .. m is a sequence and its members are in its range set.
LEMMA Member ==
  ASSUME NEW S, NEW s \in Seq(S), NEW i \in DOMAIN s
  PROVE  i \in Nat \ {0} /\ i <= Len(s) /\ s[i] \in S
OBVIOUS

\* A node ends after it starts, and only EOS ends after the EOS boundary.
LEMMA NodeShape ==
  ASSUME NEW l, IsLattice(l), NEW v \in NodesOf(l)
  PROVE  /\ v = <<v[1], v[2]>>
         /\ v[1] \in 0 .. l.n + 2
         /\ v[2] \in Nat
         /\ EndIn(l, v) \in Int
         /\ EndIn(l, v) > v[1]
         /\ EndIn(l, v) <= l.n + 3
         /\ v[1] < 2 => EndIn(l, v) = v[1] + 1
<1>0. l.n \in Nat
  BY DEF IsLattice
<1>1. CASE v = Bos0
  BY <1>0, <1>1 DEF Bos0, EndIn
<1>2. CASE v = Bos1
  BY <1>0, <1>2 DEF Bos1, EndIn
<1>3. CASE v = EosOf(l)
  BY <1>0, <1>3 DEF EosOf, EndIn
<1>4. CASE v \in WordsOf(l)
  <2>1. PICK b \in 2 .. l.n + 1 : v \in {<<b, i>> : i \in DOMAIN l.nodes[b]}
    BY <1>4 DEF WordsOf, IsLattice
  <2>2. PICK i \in DOMAIN l.nodes[b] : v = <<b, i>>
    BY <2>1
  <2>3. l.nodes[b] \in Seq(b + 1 .. l.n + 2)
    BY DEF IsLattice
  <2>4. i \in Nat \ {0} /\ l.nodes[b][i] \in b + 1 .. l.n + 2
    <3> DEFINE S == b + 1 .. l.n + 2
               row == l.nodes[b]
    <3>1. row \in Seq(S) /\ i \in DOMAIN row
      BY <2>3
    <3> HIDE DEF S, row
    <3>2. i \in Nat \ {0} /\ row[i] \in S
      BY <3>1, Member
    <3>. QED
      BY <3>2 DEF S, row
  <2>5. v[1] = b /\ v[2] = i
    BY <2>2
  <2>6. EndIn(l, v) = l.nodes[b][i]
    <3>1. v[1] # 0 /\ v[1] # 1 /\ v[1] # l.n + 2
      BY <1>0, <2>5
    <3>2. EndIn(l, v) = l.nodes[v[1]][v[2]]
      BY <3>1, Zenon DEF EndIn
    <3>. QED
      BY <2>5, <3>2
  <2>. QED
    BY <1>0, <2>2, <2>4, <2>5, <2>6
<1>. QED
  BY <1>1, <1>2, <1>3, <1>4 DEF NodesOf

\* Only the two BOS start before the sentence, and only EOS after it.
LEMMA NodeByStart ==
  ASSUME NEW l, IsLattice(l), NEW v \in NodesOf(l)
  PROVE  /\ v[1] = 0 <=> v = Bos0
         /\ v[1] = 1 <=> v = Bos1
         /\ v # Bos0 /\ v # Bos1 => v[1] >= 2
<1>1. l.n \in Nat
  BY DEF IsLattice
<1>2. CASE v \in WordsOf(l)
  <2>1. PICK b \in 2 .. l.n + 1 : v \in {<<b, i>> : i \in DOMAIN l.nodes[b]}
    BY <1>2 DEF WordsOf, IsLattice
  <2>2. v[1] = b /\ b >= 2
    BY <1>1, <2>1
  <2>. QED
    BY <2>2 DEF Bos0, Bos1
<1>3. CASE v = EosOf(l)
  BY <1>1, <1>3 DEF EosOf, Bos0, Bos1
<1>4. CASE v = Bos0 \/ v = Bos1
  BY <1>4 DEF Bos0, Bos1
<1>. QED
  BY <1>2, <1>3, <1>4 DEF NodesOf

\* The chains to a node.
ChainsInto(l, v) == {c \in ChainsTo(l, v[1]) : c[Len(c)] = v}

\* A chain into a node is a chain into one that ends where it starts, and the
\* node.
LEMMA ChainGrows ==
  ASSUME NEW l, IsLattice(l), NEW v \in NodesOf(l), v # Bos0, NEW c
  PROVE  c \in ChainsInto(l, v) <=>
           \E u \in NodesOf(l) : \E d \in ChainsInto(l, u) : EndIn(l, u) = v[1] /\ c = Append(d, v)
<1>1. l.n \in Nat /\ v[1] \in 1 .. l.n + 2 /\ v \in RowOf(l, v[1])
  BY NodeShape, NodeByStart DEF IsLattice, RowOf
<1>2. ASSUME c \in ChainsInto(l, v)
      PROVE  \E u \in NodesOf(l) : \E d \in ChainsInto(l, u) : EndIn(l, u) = v[1] /\ c = Append(d, v)
  <2>1. PICK a \in 0 .. v[1] - 1 : \E d \in ChainsTo(l, a) : \E x \in RowOf(l, v[1]) :
          EndIn(l, d[Len(d)]) = v[1] /\ c = Append(d, x)
    <3>1. c \in ChainsTo(l, v[1])
      BY <1>2 DEF ChainsInto
    <3>. DEFINE Grown(x, e) == \E a \in 0 .. x - 1 : \E d \in ChainsTo(l, a) : \E y \in RowOf(l, x) :
                                 EndIn(l, d[Len(d)]) = x /\ e = Append(d, y)
    <3>2. \A x \in 1 .. l.n + 2 : \A e : e \in ChainsTo(l, x) <=> Grown(x, e)
      <4>1. l.n \in Nat
        BY <1>1
      <4>2. \A x \in 1 .. l.n + 2 : \A e : e \in ChainsTo(l, x) <=>
              \E a \in 0 .. x - 1 : \E d \in ChainsTo(l, a) : \E y \in RowOf(l, x) :
                EndIn(l, d[Len(d)]) = x /\ e = Append(d, y)
        BY <4>1, ChainsSteps
      <4>. QED
        BY <4>2, Zenon
    <3>3. v[1] \in 1 .. l.n + 2
      BY <1>1
    <3>4. Grown(v[1], c)
      <4>. HIDE DEF Grown
      <4>. QED
        BY <3>1, <3>2, <3>3
    <3>. QED
      BY <3>4, Zenon
  <2>. PICK d \in ChainsTo(l, a), x \in RowOf(l, v[1]) : EndIn(l, d[Len(d)]) = v[1] /\ c = Append(d, x)
    BY <2>1
  <2>2. a \in 0 .. l.n + 2
    <3>1. PICK m \in Nat, b \in Int : m = l.n /\ b = v[1] /\ b \in 1 .. m + 2
      BY <1>1
    <3>2. a \in 0 .. b - 1
      BY <3>1
    <3>3. a \in 0 .. m + 2
      BY <3>1, <3>2
    <3>. QED
      BY <3>1, <3>3
  <2>3. IsChain(l, d, a)
    BY <1>1, <2>2, ChainShape
  <2>4. d[Len(d)] \in NodesOf(l) /\ d[Len(d)][1] = a
    BY <2>3 DEF IsChain, RowOf
  <2>5. d \in ChainsInto(l, d[Len(d)])
    BY <2>4 DEF ChainsInto
  <2>6. x = v
    <3>1. PICK q \in Seq(NodesOf(l)), y \in NodesOf(l) : q = d /\ y = x
      BY <2>3 DEF IsChain, RowOf
    <3>2. Append(q, y)[Len(Append(q, y))] = y
      OBVIOUS
    <3>. QED
      BY <1>2, <3>1, <3>2 DEF ChainsInto
  <2>. QED
    BY <2>4, <2>5, <2>6
<1>3. ASSUME NEW u \in NodesOf(l), NEW d \in ChainsInto(l, u), EndIn(l, u) = v[1], c = Append(d, v)
      PROVE  c \in ChainsInto(l, v)
  <2>1. u[1] \in 0 .. v[1] - 1 /\ u[1] \in 0 .. l.n + 2
    <3>1. u[1] \in 0 .. l.n + 2 /\ EndIn(l, u) > u[1]
      BY NodeShape
    <3>. QED
      BY <1>1, <1>3, <3>1
  <2>2. d \in ChainsTo(l, u[1]) /\ d[Len(d)] = u
    BY DEF ChainsInto
  <2>3. c \in ChainsTo(l, v[1])
    BY <1>1, <1>3, <2>1, <2>2, ChainsSteps
  <2>4. c[Len(c)] = v
    <3>1. IsChain(l, d, u[1])
      BY <1>1, <2>1, <2>2, ChainShape
    <3>2. PICK q \in Seq(NodesOf(l)) : q = d
      BY <3>1 DEF IsChain
    <3>3. Append(q, v)[Len(Append(q, v))] = v
      OBVIOUS
    <3>. QED
      BY <1>3, <3>2, <3>3
  <2>. QED
    BY <2>3, <2>4 DEF ChainsInto
<1>. QED
  BY <1>2, <1>3

\* The shape of a chain into a node.
LEMMA IntoIsChain ==
  ASSUME NEW l, IsLattice(l), NEW v \in NodesOf(l), NEW c \in ChainsInto(l, v)
  PROVE  /\ c \in Seq(NodesOf(l)) /\ Len(c) \in Nat \ {0} /\ c[Len(c)] = v
         /\ IsChain(l, c, v[1])
<1>1. l.n \in Nat /\ v[1] \in 0 .. l.n + 2
  BY NodeShape DEF IsLattice
<1>2. IsChain(l, c, v[1])
  BY <1>1, ChainShape DEF ChainsInto
<1>3. c \in Seq(NodesOf(l)) /\ Len(c) \in Nat \ {0} /\ c[Len(c)] = v
  BY <1>1, <1>2 DEF IsChain, ChainsInto
<1>. QED
  BY <1>2, <1>3

\* Appending to a sequence of one.
LEMMA AppendToOne ==
  ASSUME NEW S, NEW x \in S, NEW y \in S
  PROVE  Append(<<x>>, y) = <<x, y>>
<1>1. <<x, y>> \in Seq(S) /\ Append(<<x>>, y) \in Seq(S)
  OBVIOUS
<1>2. Len(<<x, y>>) = 2 /\ Len(Append(<<x>>, y)) = 2
  OBVIOUS
<1>3. \A i \in 1 .. 2 : Append(<<x>>, y)[i] = <<x, y>>[i]
  <2>1. \A i \in 1 .. 2 : i = 1 \/ i = 2
    OBVIOUS
  <2>2. Append(<<x>>, y)[1] = x /\ Append(<<x>>, y)[2] = y
    OBVIOUS
  <2>3. <<x, y>>[1] = x /\ <<x, y>>[2] = y
    OBVIOUS
  <2>. QED
    BY <2>1, <2>2, <2>3
<1>. QED
  BY <1>1, <1>2, <1>3, SeqEqual

\* The chains into the two BOS.
LEMMA FirstChains ==
  ASSUME NEW l, IsLattice(l)
  PROVE  /\ ChainsInto(l, Bos0) = {<<Bos0>>}
         /\ ChainsInto(l, Bos1) = {<<Bos0, Bos1>>}
<1>1. ChainsInto(l, Bos0) = {<<Bos0>>}
  <2>1. ChainsTo(l, 0) = {<<Bos0>>} /\ Bos0[1] = 0
    BY ChainsSteps DEF IsLattice, Bos0
  <2>2. Len(<<Bos0>>) = 1 /\ <<Bos0>>[1] = Bos0
    OBVIOUS
  <2>3. ChainsInto(l, Bos0) = {c \in {<<Bos0>>} : c[Len(c)] = Bos0}
    BY <2>1 DEF ChainsInto
  <2>. QED
    BY <2>2, <2>3
<1>2. Bos0 \in NodesOf(l) /\ Bos1 \in NodesOf(l) /\ Bos1 # Bos0 /\ EndIn(l, Bos0) = 1 /\ Bos1[1] = 1
  <2>1. Bos0[1] = 0 /\ Bos1[1] = 1
    BY DEF Bos0, Bos1
  <2>2. Bos0 \in NodesOf(l) /\ Bos1 \in NodesOf(l)
    BY DEF NodesOf
  <2>3. EndIn(l, Bos0) = 1
    BY <2>1 DEF EndIn, IsLattice
  <2>. QED
    BY <2>1, <2>2, <2>3
<1>3. \A u \in NodesOf(l) : EndIn(l, u) = 1 => u = Bos0
  <2>1. ASSUME NEW u \in NodesOf(l), EndIn(l, u) = 1 PROVE u = Bos0
    <3>1. u[1] \in 0 .. l.n + 2 /\ EndIn(l, u) > u[1] /\ EndIn(l, u) \in Int
      BY NodeShape
    <3>2. u[1] = 0
      BY <2>1, <3>1
    <3>. QED
      BY <3>2, NodeByStart
  <2>. QED
    BY <2>1
<1>4. Append(<<Bos0>>, Bos1) = <<Bos0, Bos1>>
  BY <1>2, AppendToOne
<1>5. ASSUME NEW c PROVE c \in ChainsInto(l, Bos1) <=> c = <<Bos0, Bos1>>
  <2>1. c \in ChainsInto(l, Bos1) <=>
          \E u \in NodesOf(l) : \E d \in ChainsInto(l, u) :
             EndIn(l, u) = Bos1[1] /\ c = Append(d, Bos1)
    BY <1>2, ChainGrows
  <2>2. c \in ChainsInto(l, Bos1) <=> \E d \in ChainsInto(l, Bos0) : c = Append(d, Bos1)
    BY <1>2, <1>3, <2>1
  <2>. QED
    BY <1>1, <1>4, <2>2
<1>. QED
  BY <1>1, <1>5

\* A chain goes on with a node that starts where its last node ends.
LEMMA GrownChain ==
  ASSUME NEW l, IsLattice(l), NEW u \in NodesOf(l), NEW v \in NodesOf(l), v # Bos0,
         EndIn(l, u) = v[1], NEW d \in ChainsInto(l, u)
  PROVE  /\ Append(d, v) \in ChainsInto(l, v)
         /\ Len(d) \in Nat \ {0} /\ Len(Append(d, v)) = Len(d) + 1
         /\ Append(d, v)[Len(d)] = u /\ Append(d, v)[Len(d) + 1] = v
         /\ \A i \in 1 .. Len(d) : Append(d, v)[i] = d[i]
<1>1. Append(d, v) \in ChainsInto(l, v)
  BY ChainGrows
<1>2. PICK q \in Seq(NodesOf(l)) : q = d /\ Len(q) \in Nat \ {0} /\ q[Len(q)] = u
  BY IntoIsChain
<1>3. /\ Len(Append(q, v)) = Len(q) + 1 /\ Append(q, v)[Len(q) + 1] = v
      /\ \A i \in 1 .. Len(q) : Append(q, v)[i] = q[i]
  OBVIOUS
<1>4. Len(q) \in 1 .. Len(q)
  BY <1>2
<1>. QED
  BY <1>1, <1>2, <1>3, <1>4

\* Longer chains end in another chain: Append loses nothing.
LEMMA GrownAlike ==
  ASSUME NEW S, NEW c \in Seq(S), NEW d \in Seq(S), NEW v \in S, Append(c, v) = Append(d, v)
  PROVE  c = d
<1>1. Len(Append(c, v)) = Len(c) + 1 /\ Len(Append(d, v)) = Len(d) + 1
  OBVIOUS
<1>2. Len(c) = Len(d) /\ Len(c) \in Nat
  <2>1. Len(c) \in Nat /\ Len(d) \in Nat
    OBVIOUS
  <2>. QED
    BY <1>1, <2>1
<1>3. \A i \in 1 .. Len(c) : c[i] = Append(c, v)[i] /\ d[i] = Append(d, v)[i]
  BY <1>2
<1>. QED
  BY <1>2, <1>3, SeqEqual

\* Every three nodes of a chain that follow each other have a local score.
LEMMA ChainScored ==
  ASSUME NEW l, IsLattice(l), NEW v \in NodesOf(l), NEW c \in ChainsInto(l, v),
         NEW X, X \subseteq Int, NEW w \in [TriplesOf(l) -> X]
  PROVE  ScoredWith(w, c) /\ \A i \in 3 .. Len(c) : ScoreAt(w, c, i) \in X
<1>1. /\ c \in Seq(NodesOf(l)) /\ Len(c) \in Nat
      /\ \A i \in 1 .. Len(c) - 1 : EndIn(l, c[i]) = c[i + 1][1]
  BY IntoIsChain DEF IsChain
<1>2. ASSUME NEW i \in 3 .. Len(c) PROVE ScoreAt(w, c, i) \in X
  <2>1. PICK j \in Nat : j = i - 2 /\ j + 1 = i - 1 /\ j + 2 = i /\ (j + 1) + 1 = i
    OBVIOUS
  <2>2. j \in 1 .. Len(c) - 1 /\ j + 1 \in 1 .. Len(c) - 1
    BY <1>1, <2>1
  <2>3. c[j] \in NodesOf(l) /\ c[j + 1] \in NodesOf(l) /\ c[j + 2] \in NodesOf(l)
    <3>1. \A k \in 1 .. Len(c) : c[k] \in NodesOf(l)
      BY <1>1
    <3>2. j \in 1 .. Len(c) /\ j + 1 \in 1 .. Len(c) /\ j + 2 \in 1 .. Len(c)
      BY <1>1, <2>1
    <3>. QED
      BY <3>1, <3>2
  <2>4. EndIn(l, c[j]) = c[j + 1][1] /\ EndIn(l, c[j + 1]) = c[j + 2][1]
    BY <1>1, <2>1, <2>2
  <2>5. <<c[j], c[j + 1], c[j + 2]>> \in TriplesOf(l)
    BY <2>3, <2>4 DEF TriplesOf
  <2>6. w[<<c[j], c[j + 1], c[j + 2]>>] \in X
    BY <2>5
  <2>. QED
    BY <2>1, <2>6 DEF ScoreAt
<1>. QED
  BY <1>2 DEF ScoredWith

\* w gives every connection of a lattice a local score of X.
ScoresOf(w, l, X) == IsLattice(l) /\ X \subseteq Int /\ w \in [TriplesOf(l) -> X]
\* Three nodes, each ending where the next starts.
Connection(l, t, u, v) ==
  /\ t \in NodesOf(l) /\ u \in NodesOf(l) /\ v \in NodesOf(l)
  /\ u # Bos0 /\ v # Bos0 /\ EndIn(l, t) = u[1] /\ EndIn(l, u) = v[1]

\* A chain one node longer scores its last three nodes more.
LEMMA GrownTotal ==
  ASSUME NEW l, NEW w, NEW X, ScoresOf(w, l, X), NEW t, NEW u, NEW v, Connection(l, t, u, v),
         NEW e \in ChainsInto(l, t)
  PROVE  Total(w, Append(Append(e, u), v)) = Total(w, Append(e, u)) + w[<<t, u, v>>]
<1>0. /\ IsLattice(l) /\ X \subseteq Int /\ w \in [TriplesOf(l) -> X]
      /\ t \in NodesOf(l) /\ u \in NodesOf(l) /\ v \in NodesOf(l)
      /\ u # Bos0 /\ v # Bos0 /\ EndIn(l, t) = u[1] /\ EndIn(l, u) = v[1]
  BY DEF ScoresOf, Connection
<1>. DEFINE d == Append(e, u)
<1>1. /\ d \in ChainsInto(l, u) /\ Len(e) \in Nat \ {0} /\ Len(d) = Len(e) + 1
      /\ d[Len(e)] = t /\ d[Len(d)] = u
  BY <1>0, GrownChain
<1>. HIDE DEF d
<1>2. Append(d, v) \in ChainsInto(l, v)
  BY <1>0, <1>1, GrownChain
<1>3. ScoredWith(w, Append(d, v))
  BY <1>0, <1>2, ChainScored
<1>4. PICK q \in Seq(NodesOf(l)) : q = d
  BY <1>0, <1>1, IntoIsChain
<1>5. Len(q) >= 2 /\ Len(q) - 1 = Len(e)
  BY <1>1, <1>4
<1>6. Total(w, Append(q, v)) = Total(w, q) + w[<<q[Len(q) - 1], q[Len(q)], v>>]
  BY <1>0, <1>3, <1>4, <1>5, TotalAppend
<1>. QED
  BY <1>1, <1>4, <1>5, <1>6 DEF d

\* If the local scores of as many nodes as a chain can have stay within a bound,
\* the total score of a chain does.
LEMMA ChainTotalWithin ==
  ASSUME NEW l, IsLattice(l), NEW v \in NodesOf(l), v # Bos0, NEW c \in ChainsInto(l, v),
         NEW X, X \subseteq Int, NEW w \in [TriplesOf(l) -> X],
         NEW B \in Nat, \A x \in X : (l.n + 1) * x \in -B .. B
  PROVE  Total(w, c) \in -B .. B
<1>1. PICK N \in Nat : N = l.n + 1 /\ N > 0
  BY DEF IsLattice
<1>2. v[1] \in 1 .. N + 1
  <2>1. v[1] \in 0 .. l.n + 2 /\ v[1] # 0
    BY NodeShape, NodeByStart
  <2>2. l.n + 2 = N + 1
    BY <1>1 DEF IsLattice
  <2>. QED
    BY <2>1, <2>2
<1>3. Len(c) \in Nat /\ Len(c) <= N + 2
  <2>1. Len(c) \in 1 .. v[1] + 1
    BY IntoIsChain DEF IsChain
  <2>. QED
    BY <1>2, <2>1
<1>4. Len(c) >= 2
  <2>1. PICK u \in NodesOf(l) : \E d \in ChainsInto(l, u) : EndIn(l, u) = v[1] /\ c = Append(d, v)
    BY ChainGrows
  <2>2. PICK d \in ChainsInto(l, u) : c = Append(d, v) /\ EndIn(l, u) = v[1]
    BY <2>1
  <2>3. Len(c) = Len(d) + 1 /\ Len(d) \in Nat \ {0}
    BY <2>2, GrownChain
  <2>. QED
    BY <2>3
<1>5. ScoredWith(w, c) /\ \A i \in 3 .. Len(c) : ScoreAt(w, c, i) \in X
  BY ChainScored
<1>6. \A i \in 3 .. Len(c) : N * ScoreAt(w, c, i) <= B /\ -B <= N * ScoreAt(w, c, i)
  <2>1. \A x \in X : N * x \in -B .. B
    BY <1>1
  <2>2. \A k \in -B .. B : k <= B /\ -B <= k
    OBVIOUS
  <2>. QED
    BY <1>5, <2>1, <2>2
<1>. QED
  BY <1>1, <1>3, <1>4, <1>5, <1>6, SumsWithin

\* A lattice has finitely many nodes.
LEMMA PairsFinite ==
  ASSUME NEW x, NEW S, IsFiniteSet(S)
  PROVE  IsFiniteSet({<<x, i>> : i \in S})
<1>. DEFINE T == {<<x, i>> : i \in S}
            f == [i \in S |-> <<x, i>>]
<1>1. f \in Surjection(S, T)
  BY DEF Surjection
<1>. HIDE DEF f, T
<1>2. IsFiniteSet(T)
  BY <1>1, FS_Surjection
<1>. QED
  BY <1>2 DEF T

LEMMA NodesFinite ==
  ASSUME NEW l, IsLattice(l)
  PROVE  IsFiniteSet(NodesOf(l))
<1>. DEFINE row(b) == {<<b, i>> : i \in DOMAIN l.nodes[b]}
            rows == {row(b) : b \in DOMAIN l.nodes}
<1>1. IsFiniteSet(DOMAIN l.nodes) /\ DOMAIN l.nodes = 2 .. l.n + 1
  BY IntervalFinite DEF IsLattice
<1>2. ASSUME NEW b \in DOMAIN l.nodes PROVE IsFiniteSet(row(b))
  <2>1. l.nodes[b] \in Seq(b + 1 .. l.n + 2)
    BY <1>1 DEF IsLattice
  <2>2. PICK q \in Seq(b + 1 .. l.n + 2) : q = l.nodes[b]
    BY <2>1
  <2>3. DOMAIN q = 1 .. Len(q) /\ Len(q) \in Nat
    OBVIOUS
  <2>4. IsFiniteSet(DOMAIN l.nodes[b])
    BY <2>2, <2>3, IntervalFinite
  <2>. QED
    BY <2>4, PairsFinite
<1>3. IsFiniteSet(rows)
  <2>. DEFINE f == [b \in DOMAIN l.nodes |-> row(b)]
  <2>1. f \in Surjection(DOMAIN l.nodes, rows)
    <3>. HIDE DEF row
    <3>. QED
      BY DEF Surjection
  <2>. HIDE DEF f, rows
  <2>. QED
    BY <1>1, <2>1, FS_Surjection
<1>4. IsFiniteSet(UNION rows)
  <2>1. \A T \in rows : IsFiniteSet(T)
    <3>. HIDE DEF row
    <3>. QED
      BY <1>2
  <2>. HIDE DEF rows
  <2>. QED
    BY <1>3, <2>1, FS_UNION
<1>5. WordsOf(l) = UNION rows
  BY Zenon DEF WordsOf
<1>6. IsFiniteSet({Bos0, Bos1, EosOf(l)})
  <2>1. {Bos0, Bos1, EosOf(l)} = ({Bos0} \cup {Bos1}) \cup {EosOf(l)}
    OBVIOUS
  <2>2. IsFiniteSet({Bos0}) /\ IsFiniteSet({Bos1}) /\ IsFiniteSet({EosOf(l)})
    BY FS_Singleton
  <2>3. IsFiniteSet({Bos0} \cup {Bos1})
    BY <2>2, FS_Union
  <2>4. IsFiniteSet(({Bos0} \cup {Bos1}) \cup {EosOf(l)})
    BY <2>2, <2>3, FS_Union
  <2>. QED
    BY <2>1, <2>4
<1>7. IsFiniteSet({Bos0, Bos1, EosOf(l)} \cup WordsOf(l))
  <2>. HIDE DEF rows
  <2>1. IsFiniteSet(WordsOf(l))
    BY <1>4, <1>5, Zenon
  <2>. QED
    BY <1>6, <2>1, FS_Union, Zenon
<1>. QED
  BY <1>7 DEF NodesOf

-----------------------------------------------------------------------------
(* Folds over a sequence *)

\* The greatest of some numbers is one of them.
LEMMA MaxOf ==
  ASSUME NEW n \in Nat, NEW s \in SUBSET (1 .. n), s # {}
  PROVE  Max(s) \in s /\ \A y \in s : Max(s) >= y
<1>1. PICK m \in 0 .. n : s \cap (m + 1 .. n) = {} /\ (m = 0 \/ m \in s)
  <2>. DEFINE T == {k \in Nat : s \cap (k + 1 .. n) = {}}
  <2>1. n \in T
    OBVIOUS
  <2>2. PICK m \in T : \A k \in T : m <= k
    <3>. HIDE DEF T
    <3>. QED
      BY <2>1, LeastNumber DEF T
  <2>3. m <= n
    BY <2>1, <2>2
  <2>4. ASSUME m # 0, m \notin s PROVE FALSE
    <3>1. m - 1 \in T
      BY <2>2, <2>4
    <3>. QED
      BY <2>2, <3>1, <2>4
  <2>. QED
    BY <2>2, <2>3, <2>4
<1>2. m \in s /\ \A y \in s : m >= y
  <2>1. ASSUME NEW y \in s PROVE m >= y
    <3>1. y \in 1 .. n /\ y \notin m + 1 .. n
      BY <1>1
    <3>. QED
      BY <3>1
  <2>2. m # 0
    <3>1. PICK y \in s : TRUE
      OBVIOUS
    <3>2. y \in 1 .. n
      OBVIOUS
    <3>. QED
      BY <2>1, <3>2
  <2>. QED
    BY <1>1, <2>1, <2>2
<1>. QED
  BY <1>2 DEF Max

\* The greatest number of an interval is its last.
LEMMA MaxOfAll ==
  ASSUME NEW k \in Nat, k > 0
  PROVE  Max(1 .. k) = k /\ (1 .. k) \ {k} = 1 .. k - 1
<1>1. Max(1 .. k) \in 1 .. k /\ \A y \in 1 .. k : Max(1 .. k) >= y
  <2>1. 1 .. k # {} /\ 1 .. k \in SUBSET (1 .. k)
    <3>1. 1 \in 1 .. k
      OBVIOUS
    <3>. QED
      BY <3>1
  <2>. QED
    BY <2>1, MaxOf
<1>. QED
  BY <1>1

\* The set of numbers without its greatest one is smaller by one.
LEMMA WithoutMax ==
  ASSUME NEW n \in Nat, NEW s \in SUBSET (1 .. n), s # {}
  PROVE  /\ Max(s) \in s /\ s \ {Max(s)} \in SUBSET (1 .. n)
         /\ Cardinality(s) \in 1 .. n /\ Cardinality(s \ {Max(s)}) = Cardinality(s) - 1
<1>1. Max(s) \in s
  BY MaxOf
<1>2. IsFiniteSet(s) /\ Cardinality(s) \in Nat /\ Cardinality(s) <= n
  <2>1. IsFiniteSet(1 .. n) /\ Cardinality(1 .. n) = n
    BY FS_Interval
  <2>2. IsFiniteSet(s) /\ Cardinality(s) <= Cardinality(1 .. n)
    BY <2>1, FS_Subset
  <2>. QED
    BY <2>1, <2>2, FS_CardinalityType
<1>3. Cardinality(s \ {Max(s)}) = Cardinality(s) - 1
  BY <1>1, <1>2, FS_RemoveElement
<1>4. Cardinality(s) # 0
  BY <1>2, FS_EmptySet
<1>5. Cardinality(s) \in 1 .. n
  BY <1>2, <1>4
<1>6. s \ {Max(s)} \in SUBSET (1 .. n)
  OBVIOUS
<1>. QED
  BY <1>1, <1>3, <1>5, <1>6

\* Two folds that start alike and go on alike are the same.
FoldAlike(h, e, n) ==
  \A s \in SUBSET (1 .. n) : s = {} \/ h[s \ {Max(s)}] = e[s \ {Max(s)}] => h[s] = e[s]

\* Two ways to fold over a sequence, step by step the same, end the same.
LEMMA FoldSame ==
  ASSUME NEW n \in Nat, NEW h, NEW e, FoldAlike(h, e, n)
  PROVE  h[1 .. n] = e[1 .. n]
<1>. DEFINE H == {k \in Nat : h[1 .. k] = e[1 .. k]}
<1>1. 0 \in H
  <2>1. 1 .. 0 = {} /\ {} \in SUBSET (1 .. n)
    OBVIOUS
  <2>. QED
    BY <2>1 DEF FoldAlike
<1>2. ASSUME NEW k \in 0 .. n - 1, k \in H PROVE k + 1 \in H
  <2>1. 1 .. k + 1 \in SUBSET (1 .. n) /\ k + 1 \in 1 .. k + 1 /\ (k + 1) - 1 = k /\ k + 1 \in Nat
    OBVIOUS
  <2>2. Max(1 .. k + 1) = k + 1 /\ (1 .. k + 1) \ {k + 1} = 1 .. k
    BY <2>1, MaxOfAll
  <2>3. h[1 .. k + 1] = e[1 .. k + 1]
    BY <1>2, <2>1, <2>2 DEF FoldAlike
  <2>. QED
    BY <2>1, <2>3
<1>3. \A k \in 0 .. n : k \in H
  <2>. HIDE DEF H
  <2>. QED
    BY <1>1, <1>2, InductionTo
<1>. QED
  BY <1>3
=============================================================================
