------------------------- MODULE JumandicMakersProofs -------------------------
(***************************************************************************)
(* Proofs about the lattice builder and the node creators it runs.         *)
(*                                                                         *)
(* The builder, for all sentences and whatever seeds the node creators     *)
(* spawn: the sort of the seeds loses none and orders them, one pass over  *)
(* them decides what chains of words reach, the nodes of a boundary are    *)
(* the words that were spawned there, the pointers are those to the nodes  *)
(* that end there and fill their room exactly, and the builder implements  *)
(* LatticeRequest.                                                         *)
(*                                                                         *)
(* Then the node creators of JumanDIC, for every dictionary and every set  *)
(* of characters that UTF-8 writes: what a traversal of the trie tells of  *)
(* a word, which seeds the makers collect, that some words always cover a  *)
(* sentence, which runs of characters are proposed as unknown, that every  *)
(* number is proposed once and whole, and that the words found behind      *)
(* informal spellings are exactly those the changes lead to.               *)
(***************************************************************************)
EXTENDS JumandicMakers, CommonLemmas, TLAPS

-----------------------------------------------------------------------------
(* The sort *)

\* The places that come no later than place i in the sorted sequence, and
\* their number.
NotAfter(s, i) ==
  {j \in DOMAIN s : \/ s[j].from < s[i].from
                    \/ s[j].from = s[i].from /\ j <= i}
Rank(s, i) == Cardinality(NotAfter(s, i))

\* A seed starts at a code point.
HaveStarts(S) == \A x \in S : x.from \in Int

LEMMA RankRange ==
  ASSUME NEW S, NEW s \in Seq(S), HaveStarts(S), NEW i \in 1 .. Len(s)
  PROVE  /\ IsFiniteSet(NotAfter(s, i))
         /\ Rank(s, i) \in 1 .. Len(s)
<1>1. /\ IsFiniteSet(1 .. Len(s)) /\ Cardinality(1 .. Len(s)) = Len(s)
  <2>1. Len(s) \in Nat /\ 1 \in Int
    OBVIOUS
  <2>2. \A a, b \in Int : /\ IsFiniteSet(a .. b)
                          /\ Cardinality(a .. b) = IF a > b THEN 0 ELSE b - a + 1
    BY FS_Interval
  <2> QED
    BY <2>1, <2>2
<1>2. NotAfter(s, i) \in SUBSET (1 .. Len(s))
  BY DEF NotAfter
<1>3. IsFiniteSet(NotAfter(s, i)) /\ Rank(s, i) <= Len(s)
  BY <1>1, <1>2, FS_Subset DEF Rank
<1>4. s[i].from \in Int
  BY DEF HaveStarts
<1>5. i \in NotAfter(s, i)
  BY <1>4 DEF NotAfter
<1>6. Rank(s, i) # 0
  BY <1>3, <1>5, FS_EmptySet DEF Rank
<1>7. Rank(s, i) \in Nat
  BY <1>3, FS_CardinalityType DEF Rank
<1> QED
  BY <1>3, <1>6, <1>7

\* A place before another in the order has a smaller rank.
LEMMA RankGrows ==
  ASSUME NEW S, NEW s \in Seq(S), HaveStarts(S),
         NEW i \in 1 .. Len(s), NEW j \in 1 .. Len(s),
         s[i].from < s[j].from \/ (s[i].from = s[j].from /\ i < j)
  PROVE  Rank(s, i) < Rank(s, j)
<1>1. \A k \in 1 .. Len(s) : s[k].from \in Int
  BY DEF HaveStarts
<1>2. NotAfter(s, i) \in SUBSET NotAfter(s, j)
  BY <1>1 DEF NotAfter
<1>3. j \in NotAfter(s, j) /\ j \notin NotAfter(s, i)
  BY <1>1 DEF NotAfter
<1>4. Rank(s, i) \in Nat /\ Rank(s, j) \in Nat /\ IsFiniteSet(NotAfter(s, j))
  BY RankRange
<1>5. Rank(s, i) <= Rank(s, j) /\ Rank(s, i) # Rank(s, j)
  BY <1>2, <1>3, <1>4, FS_Subset DEF Rank
<1> QED
  BY <1>4, <1>5

\* Every number up to the length is the rank of exactly one place.
LEMMA RankOnto ==
  ASSUME NEW S, NEW s \in Seq(S), HaveStarts(S), NEW k \in 1 .. Len(s)
  PROVE  \E i \in 1 .. Len(s) : Rank(s, i) = k
<1> DEFINE f == [i \in 1 .. Len(s) |-> Rank(s, i)]
<1>1. \A i \in 1 .. Len(s) : s[i].from \in Int
  BY DEF HaveStarts
<1>2. f \in [1 .. Len(s) -> 1 .. Len(s)]
  BY RankRange
<1>3. ASSUME NEW i \in 1 .. Len(s), NEW j \in 1 .. Len(s), i # j
      PROVE  f[i] # f[j]
  <2>1. \/ s[i].from < s[j].from \/ (s[i].from = s[j].from /\ i < j)
        \/ s[j].from < s[i].from \/ (s[j].from = s[i].from /\ j < i)
    BY <1>1, <1>3
  <2>2. Rank(s, i) < Rank(s, j) \/ Rank(s, j) < Rank(s, i)
    BY <2>1, RankGrows
  <2>3. Rank(s, i) \in Int /\ Rank(s, j) \in Int
    BY RankRange
  <2> QED
    BY <2>2, <2>3
<1>4. f \in Injection(1 .. Len(s), 1 .. Len(s))
  BY <1>2, <1>3 DEF Injection, IsInjective
<1>5. IsFiniteSet(1 .. Len(s))
  BY FS_Interval
<1>6. f \in Surjection(1 .. Len(s), 1 .. Len(s))
  BY <1>4, <1>5, FS_Injection
<1> QED
  BY <1>6 DEF Surjection

\* The sorted sequence has at place k the seed of rank k.
LEMMA SortedPlaces ==
  ASSUME NEW S, NEW s \in Seq(S), HaveStarts(S)
  PROVE  /\ DOMAIN Sorted(s) = 1 .. Len(s)
         /\ \A k \in 1 .. Len(s) :
              \E i \in 1 .. Len(s) : Rank(s, i) = k /\ Sorted(s)[k] = s[i]
<1>1. Sorted(s) = [k \in DOMAIN s |-> s[CHOOSE i \in DOMAIN s : Rank(s, i) = k]]
  BY DEF Sorted, Rank, NotAfter
<1>2. DOMAIN s = 1 .. Len(s)
  OBVIOUS
<1>3. ASSUME NEW k \in 1 .. Len(s)
      PROVE  \E i \in 1 .. Len(s) : Rank(s, i) = k /\ Sorted(s)[k] = s[i]
  <2> DEFINE i == CHOOSE i \in DOMAIN s : Rank(s, i) = k
  <2>1. i \in DOMAIN s /\ Rank(s, i) = k
    BY <1>2, RankOnto
  <2> QED
    BY <1>1, <1>2, <2>1
<1> QED
  BY <1>1, <1>2, <1>3

\* sortSeeds loses no seed and adds none; afterwards the seeds that start first
\* come first, and those that start together stand as they were spawned: what
\* makes the nodes of a boundary one slice of them and one pass of
\* checkConnectability enough.
THEOREM SortedSorts ==
  ASSUME NEW S, NEW s \in Seq(S), HaveStarts(S)
  PROVE  /\ Sorted(s) \in Seq(S) /\ Len(Sorted(s)) = Len(s)
         /\ \A i \in 1 .. Len(s) : Sorted(s)[Rank(s, i)] = s[i]
         /\ \A k, l \in 1 .. Len(s) : k < l => Sorted(s)[k].from <= Sorted(s)[l].from
         /\ \A i, j \in 1 .. Len(s) :
              i < j /\ s[i].from = s[j].from => Rank(s, i) < Rank(s, j)
<1>1. \A i \in 1 .. Len(s) : s[i].from \in Int
  BY DEF HaveStarts
<1>2. Sorted(s) \in [1 .. Len(s) -> S]
  <2>1. \E f : Sorted(s) = [k \in 1 .. Len(s) |-> f[k]]
    <3>1. Sorted(s) = [k \in 1 .. Len(s) |->
                         [x \in DOMAIN s |-> s[CHOOSE i \in DOMAIN s : Rank(s, i) = x]][k]]
      BY DEF Sorted, Rank, NotAfter
    <3> QED
      BY <3>1
  <2> QED
    BY <2>1, SortedPlaces
<1>3. ASSUME NEW i \in 1 .. Len(s)
      PROVE  Sorted(s)[Rank(s, i)] = s[i]
  <2>1. PICK j \in 1 .. Len(s) : Rank(s, j) = Rank(s, i) /\ Sorted(s)[Rank(s, i)] = s[j]
    BY SortedPlaces, RankRange
  <2>2. i = j
    <3>1. SUFFICES ASSUME i # j PROVE FALSE
      OBVIOUS
    <3>2. \/ s[i].from < s[j].from \/ (s[i].from = s[j].from /\ i < j)
          \/ s[j].from < s[i].from \/ (s[j].from = s[i].from /\ j < i)
      BY <1>1, <3>1
    <3>3. Rank(s, i) < Rank(s, j) \/ Rank(s, j) < Rank(s, i)
      BY <3>2, RankGrows
    <3>4. Rank(s, i) \in Int /\ Rank(s, j) \in Int
      BY RankRange
    <3> QED
      BY <2>1, <3>3, <3>4
  <2> QED
    BY <2>1, <2>2
<1>4. ASSUME NEW k \in 1 .. Len(s), NEW l \in 1 .. Len(s), k < l
      PROVE  Sorted(s)[k].from <= Sorted(s)[l].from
  <2>1. PICK i \in 1 .. Len(s) : Rank(s, i) = k /\ Sorted(s)[k] = s[i]
    BY SortedPlaces
  <2>2. PICK j \in 1 .. Len(s) : Rank(s, j) = l /\ Sorted(s)[l] = s[j]
    BY SortedPlaces
  <2>3. ~(s[j].from < s[i].from)
    <3>1. s[j].from < s[i].from => Rank(s, j) < Rank(s, i)
      BY RankGrows
    <3> QED
      BY <1>4, <2>1, <2>2, <3>1
  <2> QED
    BY <1>1, <2>1, <2>2, <2>3
<1>5. Sorted(s) \in Seq(S) /\ Len(Sorted(s)) = Len(s)
  BY <1>2
<1>6. \A i, j \in 1 .. Len(s) :
        i < j /\ s[i].from = s[j].from => Rank(s, i) < Rank(s, j)
  BY RankGrows
<1> QED
  BY <1>3, <1>4, <1>5, <1>6

\* The rank of a seed: the seeds that start before it, and those that start
\* with it and were spawned before.
LEMMA RankCounts ==
  ASSUME NEW S, NEW s \in Seq(S), HaveStarts(S), NEW i \in 1 .. Len(s)
  PROVE  Rank(s, i) = CountBefore(s, s[i].from) + CountIn(FromSet(s, s[i].from), i)
<1>. DEFINE b == s[i].from
            here == UpTo(FromSet(s, b), i)
<1>1. b \in Int /\ DOMAIN s = 1 .. Len(s) /\ Len(s) \in Nat /\ i \in Nat
  BY DEF HaveStarts
<1>2. NotAfter(s, i) = BeforeSet(s, b) \cup here
  BY <1>1 DEF NotAfter, BeforeSet, FromSet, UpTo
<1>. HIDE DEF b
<1>3. BeforeSet(s, b) \cap here = {}
  BY <1>1 DEF BeforeSet, FromSet, UpTo
<1>4. IsFiniteSet(here) /\ IsFiniteSet(BeforeSet(s, b))
  BY <1>1, CountSteps, PlacesFinite
<1>5. Cardinality(BeforeSet(s, b) \cup here) = Cardinality(BeforeSet(s, b)) + Cardinality(here)
  BY <1>3, <1>4, DisjointUnion
<1>. QED
  BY <1>2, <1>5 DEF Rank, CountBefore, CountIn, b

\* Sorting keeps the words that start at a code point, and their order.
LEMMA SortedKeepsRows ==
  ASSUME NEW S, NEW s \in Seq(S), HaveStarts(S)
  PROVE  Ordered(Sorted(s)) /\ SameRows(Sorted(s), s)
<1>. DEFINE t == Sorted(s)
<1>1. /\ t \in Seq(S) /\ Len(t) = Len(s) /\ Len(s) \in Nat
      /\ DOMAIN s = 1 .. Len(s) /\ DOMAIN t = 1 .. Len(s)
      /\ \A i \in 1 .. Len(s) : t[Rank(s, i)] = s[i]
      /\ \A k, l \in 1 .. Len(s) : k < l => t[k].from <= t[l].from
  BY SortedSorts
<1>2. \A k \in 1 .. Len(s) : t[k].from \in Int /\ s[k].from \in Int
  <2>1. \A k \in 1 .. Len(s) : t[k] \in S /\ s[k] \in S
    BY <1>1
  <2>. QED
    BY <2>1 DEF HaveStarts
<1>3. \A k \in 1 .. Len(s) : \E i \in 1 .. Len(s) : Rank(s, i) = k /\ t[k] = s[i]
  BY SortedPlaces
<1>4. \A i \in 1 .. Len(s) : Rank(s, i) \in 1 .. Len(s)
  BY RankRange
<1>. HIDE DEF t
<1>5. Ordered(t) /\ Starts(t)
  BY <1>1, <1>2 DEF Ordered, Starts
<1>6. ASSUME NEW b PROVE StartingAt(t, b) = StartingAt(s, b)
  <2>. DEFINE P == FromSet(s, b)
              Q == FromSet(t, b)
              c == CountIn(P, Len(s))
              d == CountIn(Q, Len(s))
              before == CountBefore(s, b)
              after == CountBefore(t, b)
              q == StartingAt(s, b)
  <2>1. q \in Seq(S) /\ Selected(q, s, P, Len(s))
    BY StartingAtSelects
  <2>2. before \in Nat /\ after \in Nat
    BY <1>1, PlacesFinite
  <2>3. ASSUME NEW i \in 1 .. Len(s), NEW k \in 1 .. Len(s), Rank(s, i) = k, t[k] = s[i]
        PROVE  /\ i \in P <=> k \in Q
               /\ i \in P => before + CountIn(P, i) = after + CountIn(Q, k)
    <3>1. i \in P <=> k \in Q
      BY <1>1, <2>3 DEF FromSet
    <3>2. ASSUME i \in P PROVE before + CountIn(P, i) = after + CountIn(Q, k)
      <4>1. s[i].from = b /\ t[k].from = b
        BY <2>3, <3>2 DEF FromSet
      <4>2. Rank(s, i) = before + CountIn(P, i)
        BY <4>1, RankCounts
      <4>3. k = after + CountIn(Q, k)
        BY <1>1, <1>5, <4>1, OrderedPlace
      <4>. QED
        BY <2>3, <4>2, <4>3
    <3>. QED
      BY <3>1, <3>2
  <2>4. /\ c \in Nat /\ d \in Nat
        /\ \A i \in 1 .. Len(s) : i \in P => CountIn(P, i) \in 1 .. c
        /\ \A i \in 1 .. Len(s) : i \in Q => CountIn(Q, i) \in 1 .. d
    BY <1>1, CountSteps, CountOfMember
  <2>5. /\ \A x \in 1 .. c : \E i \in 1 .. Len(s) : i \in P /\ CountIn(P, i) = x
        /\ \A x \in 1 .. d : \E i \in 1 .. Len(s) : i \in Q /\ CountIn(Q, i) = x
    BY <1>1, CountOnto DEF Numbered
  <2>. HIDE DEF P, Q, c, d, before, after, q
  <2>6. ASSUME NEW x \in 1 .. c PROVE \E y \in 1 .. d : before + x = after + y
    <3>1. PICK i \in 1 .. Len(s) : i \in P /\ CountIn(P, i) = x
      BY <2>5
    <3>2. Rank(s, i) \in 1 .. Len(s) /\ t[Rank(s, i)] = s[i]
      BY <1>1, <1>4
    <3>3. Rank(s, i) \in Q /\ before + x = after + CountIn(Q, Rank(s, i))
      BY <2>3, <3>1, <3>2
    <3>. QED
      BY <2>4, <3>2, <3>3
  <2>7. ASSUME NEW y \in 1 .. d PROVE \E x \in 1 .. c : before + x = after + y
    <3>1. PICK k \in 1 .. Len(s) : k \in Q /\ CountIn(Q, k) = y
      BY <2>5
    <3>2. PICK i \in 1 .. Len(s) : Rank(s, i) = k /\ t[k] = s[i]
      BY <1>3
    <3>3. i \in P /\ before + CountIn(P, i) = after + y
      BY <2>3, <3>1, <3>2
    <3>. QED
      BY <2>4, <3>3
  <2>8. c = d /\ (c # 0 => before = after)
    <3>1. CASE c = 0
      <4>1. ~(1 \in 1 .. d)
        BY <2>7, <3>1
      <4>. QED
        BY <2>4, <3>1, <4>1
    <3>2. CASE c # 0
      <4>1. 1 \in 1 .. c /\ c \in 1 .. c
        BY <2>4, <3>2
      <4>2. PICK y \in 1 .. d : before + 1 = after + y
        BY <2>6, <4>1
      <4>3. 1 \in 1 .. d /\ d \in 1 .. d
        BY <2>4, <4>2
      <4>4. PICK x \in 1 .. c : before + x = after + 1
        BY <2>7, <4>3
      <4>5. before = after
        BY <2>2, <4>2, <4>4
      <4>6. PICK u \in 1 .. d : before + c = after + u
        BY <2>6, <4>1
      <4>7. PICK v \in 1 .. c : before + v = after + d
        BY <2>7, <4>3
      <4>. QED
        BY <2>2, <2>4, <4>5, <4>6, <4>7
    <3>. QED
      BY <3>1, <3>2
  <2>9. Selected(q, t, Q, Len(t))
    <3>1. DOMAIN q = 1 .. d
      BY <2>1, <2>8 DEF Selected, c
    <3>2. ASSUME NEW k \in 1 .. Len(s), k \in Q PROVE q[CountIn(Q, k)] = t[k]
      <4>1. PICK i \in 1 .. Len(s) : Rank(s, i) = k /\ t[k] = s[i]
        BY <1>3
      <4>2. i \in P /\ before + CountIn(P, i) = after + CountIn(Q, k)
        BY <2>3, <3>2, <4>1
      <4>3. CountIn(P, i) \in 1 .. c /\ CountIn(Q, k) \in 1 .. d
        BY <2>4, <3>2, <4>2
      <4>4. CountIn(P, i) = CountIn(Q, k)
        BY <2>2, <2>4, <2>8, <4>2, <4>3
      <4>. QED
        BY <2>1, <4>1, <4>2, <4>4 DEF Selected
    <3>. QED
      BY <1>1, <3>1, <3>2 DEF Selected, d
  <2>. QED
    BY <1>1, <2>1, <2>9, SelectedIsStartingAt DEF Q, q
<1>. QED
  BY <1>5, <1>6 DEF SameRows, t

-----------------------------------------------------------------------------
(* Room for the ends *)

IsSequence(q) == q \in Seq({q[i] : i \in DOMAIN q})

LEMMA Appended ==
  ASSUME NEW q, IsSequence(q), NEW e
  PROVE  /\ IsSequence(Append(q, e))
         /\ Len(q) \in Nat /\ Len(Append(q, e)) = Len(q) + 1
         /\ \A i \in 1 .. Len(q) : Append(q, e)[i] = q[i]
         /\ Append(q, e)[Len(q) + 1] = e
<1> DEFINE S == {q[i] : i \in DOMAIN q} \cup {e}
           p == Append(q, e)
<1>1. q \in Seq(S) /\ e \in S
  BY DEF IsSequence
<1>2. p \in Seq(S) /\ Len(p) = Len(q) + 1
  BY <1>1
<1> DEFINE R == {p[i] : i \in DOMAIN p}
<1>3. p \in [1 .. Len(p) -> S] /\ Len(p) \in Nat
  BY <1>2, LenProperties
<1>4. p \in [1 .. Len(p) -> R]
  BY <1>3
<1>5. p \in Seq(R)
  <2> HIDE DEF R, p
  <2> QED
    BY <1>3, <1>4, SeqDef
<1>6. Len(q) \in Nat /\ (\A i \in 1 .. Len(q) : p[i] = q[i]) /\ p[Len(q) + 1] = e
  BY <1>1
<1> QED
  BY <1>2, <1>5, <1>6 DEF IsSequence

LEMMA EmptySequence == IsSequence(<<>>) /\ Len(<<>>) = 0
  BY EmptySeq DEF IsSequence

\* The seeds the makers spawn for a sentence.
Given(s) == UNION {{Spawned[s][m][i] : i \in DOMAIN Spawned[s][m]} : m \in Makers}

LEMMA GivenSeeds ==
  ASSUME NEW s \in Inputs \ Refused
  PROVE  /\ Size[s] \in Nat
         /\ \A m \in Makers : Spawned[s][m] \in Seq(Given(s))
         /\ \A x \in Given(s) : IsSeed(x, Size[s])
         /\ HaveStarts(Given(s))
<1>1. Size[s] \in Nat
  BY InputsAssumption
<1>2. ASSUME NEW m \in Makers
      PROVE  /\ Spawned[s][m] \in Seq({Spawned[s][m][i] : i \in DOMAIN Spawned[s][m]})
             /\ {Spawned[s][m][i] : i \in DOMAIN Spawned[s][m]} \subseteq Given(s)
             /\ \A i \in DOMAIN Spawned[s][m] : IsSeed(Spawned[s][m][i], Size[s])
  BY SeedsAssumption DEF Given
<1>3. ASSUME NEW m \in Makers PROVE Spawned[s][m] \in Seq(Given(s))
  <2> DEFINE R == {Spawned[s][m][i] : i \in DOMAIN Spawned[s][m]}
  <2>1. Spawned[s][m] \in Seq(R) /\ R \subseteq Given(s)
    BY <1>2
  <2> HIDE DEF R
  <2> QED
    BY <2>1, SeqMonotonic
<1>4. ASSUME NEW x \in Given(s) PROVE IsSeed(x, Size[s])
  <2>1. PICK m \in Makers : \E i \in DOMAIN Spawned[s][m] : x = Spawned[s][m][i]
    BY DEF Given
  <2> QED
    BY <1>2, <2>1
<1>5. HaveStarts(Given(s))
  BY <1>1, <1>4 DEF HaveStarts, IsSeed
<1> QED
  BY <1>1, <1>3, <1>4, <1>5

\* How many of the first m seeds end at b.
EndingAt(b, m) == Cardinality({i \in 1 .. m : seeds[i].to = b})

\* Boundary k - 1 after m seeds: the BOS nodes end at boundaries 1 and 2.
Filled(k, m) ==
  CASE k = 1 -> 0
    [] k = 2 -> 1
    [] OTHER -> EndingAt(k - 3, m) + (IF k = 3 THEN 1 ELSE 0)

LEMMA EndingGrows ==
  ASSUME NEW b, NEW m \in Nat
  PROVE  /\ EndingAt(b, m) \in Nat
         /\ EndingAt(b, m + 1) = EndingAt(b, m) + IF seeds[m + 1].to = b THEN 1 ELSE 0
         /\ EndingAt(b, 0) = 0
<1> DEFINE ending(x) == {i \in 1 .. x : seeds[i].to = b}
<1>1. \A x, y \in Int : IsFiniteSet(x .. y)
  BY FS_Interval
<1>2. IsFiniteSet(ending(m)) /\ EndingAt(b, m) \in Nat
  <2>1. IsFiniteSet(1 .. m) /\ ending(m) \in SUBSET (1 .. m)
    BY <1>1
  <2>2. IsFiniteSet(ending(m))
    BY <2>1, FS_Subset
  <2> QED
    BY <2>2, FS_CardinalityType DEF EndingAt
<1>3. m + 1 \notin ending(m)
  OBVIOUS
<1>4. EndingAt(b, m + 1) = EndingAt(b, m) + IF seeds[m + 1].to = b THEN 1 ELSE 0
  <2>1. CASE seeds[m + 1].to = b
    <3>1. ending(m + 1) = ending(m) \cup {m + 1}
      BY <2>1
    <3>2. Cardinality(ending(m) \cup {m + 1}) = Cardinality(ending(m)) + 1
      BY <1>2, <1>3, FS_AddElement
    <3> QED
      BY <2>1, <3>1, <3>2 DEF EndingAt
  <2>2. CASE seeds[m + 1].to # b
    <3>1. ending(m + 1) = ending(m)
      BY <2>2
    <3> QED
      BY <1>2, <2>2, <3>1 DEF EndingAt
  <2> QED
    BY <2>1, <2>2
<1>5. EndingAt(b, 0) = 0
  <2>1. {i \in 1 .. 0 : seeds[i].to = b} = {}
    OBVIOUS
  <2> QED
    BY <2>1, FS_EmptySet DEF EndingAt
<1> QED
  BY <1>2, <1>4, <1>5

LEMMA EndingBound ==
  ASSUME NEW b, NEW m \in Nat, NEW l \in Nat, m <= l
  PROVE  EndingAt(b, m) <= EndingAt(b, l)
<1> DEFINE ending(x) == {i \in 1 .. x : seeds[i].to = b}
<1>1. \A x, y \in Int : IsFiniteSet(x .. y)
  BY FS_Interval
<1>2. IsFiniteSet(1 .. l) /\ ending(l) \in SUBSET (1 .. l)
  BY <1>1
<1>3. IsFiniteSet(ending(l)) /\ ending(m) \in SUBSET ending(l)
  BY <1>2, FS_Subset
<1> QED
  BY <1>3, FS_Subset DEF EndingAt

LEMMA FilledGrows ==
  ASSUME NEW k \in Nat, NEW l \in Nat
  PROVE  \A m \in 0 .. l : 0 <= Filled(k, m) /\ Filled(k, m) <= Filled(k, l)
<1> SUFFICES ASSUME NEW m \in 0 .. l
             PROVE  0 <= Filled(k, m) /\ Filled(k, m) <= Filled(k, l)
  OBVIOUS
<1>1. /\ EndingAt(k - 3, m) \in Nat /\ EndingAt(k - 3, l) \in Nat
      /\ EndingAt(k - 3, m) <= EndingAt(k - 3, l)
  BY EndingGrows, EndingBound
<1> QED
  BY <1>1 DEF Filled

\* The phases between an input that is accepted and the return of analyze.
Working == {"spawn", "check", "prepare", "bos", "build", "bosends", "ends", "built"}

\* The seeds stay those of the makers.
SeedsInv ==
  phase \in Working =>
    /\ input \in Inputs \ Refused
    /\ todo \in Seq(Makers)
    /\ seeds \in Seq(Given(input))

\* The counts of prepare are about the seeds the lattice is built from.
CountsInv ==
  phase \in {"bos", "build", "bosends", "ends", "built"} =>
    \A b \in 0 .. n : info[b].ends = Filled(b + 3, Len(seeds))

\* Boundaries are records.
IsBoundary(x) == x = [starts |-> x.starts, room |-> x.room, ends |-> x.ends]

\* Boundary k - 1 has the room that is counted for it, and the pointers of the
\* first m seeds.
Holds(k, m) ==
  /\ IsBoundary(lattice[k])
  /\ lattice[k].room = Filled(k, Len(seeds))
  /\ IsSequence(lattice[k].ends)
  /\ Len(lattice[k].ends) = m
LatticeInv ==
  /\ phase \in {"idle", "failed", "spawn", "check", "prepare", "bos"} => lattice = <<>>
  /\ phase = "build" =>
       /\ cursor \in 0 .. n
       /\ IsSequence(lattice) /\ Len(lattice) = cursor + 2
       /\ \A k \in 1 .. cursor + 2 : Holds(k, 0)
  /\ phase \in {"bosends", "ends", "built"} => IsSequence(lattice) /\ Len(lattice) = n + 3
  /\ phase = "bosends" => \A k \in 1 .. n + 3 : Holds(k, 0)
  /\ phase = "ends" =>
       /\ cursor \in 1 .. Len(seeds) + 1
       /\ \A k \in 1 .. n + 3 : Holds(k, Filled(k, cursor - 1))
  /\ phase = "built" => \A k \in 1 .. n + 3 : Holds(k, Filled(k, Len(seeds)))

Phases == Working \cup {"idle", "failed"}
IInv == phase \in Phases /\ SeedsInv /\ CountsInv /\ LatticeInv

LEMMA InitInv == Init => IInv
  BY DEF Init, IInv, Phases, Working, SeedsInv, CountsInv, LatticeInv

LEMMA InvImpliesRoom == IInv => EndsInRoom
<1> SUFFICES ASSUME IInv PROVE EndsInRoom
  OBVIOUS
<1>1. CASE phase \in {"idle", "failed", "spawn", "check", "prepare", "bos"}
  <2>1. lattice = <<>>
    BY <1>1 DEF IInv, LatticeInv
  <2> QED
    BY <1>1, <2>1 DEF EndsInRoom
<1>2. CASE phase \in {"build", "bosends", "ends", "built"}
  <2>1. n \in Nat /\ Len(seeds) \in Nat /\ Len(lattice) \in Nat /\ DOMAIN lattice = 1 .. Len(lattice)
    BY <1>2, GivenSeeds DEF IInv, SeedsInv, LatticeInv, Working, n, IsSequence
  <2>2. ASSUME NEW k \in DOMAIN lattice
        PROVE  Len(lattice[k].ends) <= lattice[k].room
    <3>1. \A m \in 0 .. Len(seeds) :
            0 <= Filled(k, m) /\ Filled(k, m) <= Filled(k, Len(seeds))
      BY <2>1, FilledGrows
    <3>2. \/ Holds(k, 0)
          \/ phase = "ends" /\ cursor \in 1 .. Len(seeds) + 1 /\ Holds(k, Filled(k, cursor - 1))
          \/ Holds(k, Filled(k, Len(seeds)))
      BY <1>2, <2>1 DEF IInv, LatticeInv
    <3>3. Len(seeds) \in 0 .. Len(seeds)
      BY <2>1
    <3>4. cursor \in 1 .. Len(seeds) + 1 => cursor - 1 \in 0 .. Len(seeds)
      BY <2>1
    <3> QED
      BY <3>1, <3>2, <3>3, <3>4 DEF Holds
  <2>3. ASSUME phase = "built", NEW k \in 3 .. n + 3
        PROVE  Len(lattice) = n + 3 /\ Len(lattice[k].ends) = lattice[k].room
    BY <2>1, <2>3 DEF IInv, LatticeInv, Holds
  <2>4. phase = "built" => Len(lattice) = n + 3
    BY DEF IInv, LatticeInv
  <2> QED
    BY <2>2, <2>3, <2>4 DEF EndsInRoom
<1> QED
  BY <1>1, <1>2 DEF IInv, Phases, Working

LEMMA ResetInv == IInv /\ Reset => IInv'
  BY StagesAssumption, EmptySeq
  DEF IInv, Phases, Working, SeedsInv, CountsInv, LatticeInv, Reset

LEMMA SpawnInv == IInv /\ SpawnNodes => IInv'
<1> SUFFICES ASSUME IInv, SpawnNodes PROVE IInv'
  OBVIOUS
<1> USE DEF SpawnNodes
<1>1. phase = "spawn" /\ phase' = "spawn" /\ input' = input
  OBVIOUS
<1>2. input \in Inputs \ Refused /\ todo \in Seq(Makers) /\ todo # <<>> /\ seeds \in Seq(Given(input))
  BY <1>1 DEF IInv, SeedsInv, Working
<1>3. Head(todo) \in Makers /\ todo' \in Seq(Makers)
  BY <1>2
<1>4. Spawned[input][Head(todo)] \in Seq(Given(input))
  BY <1>2, <1>3, GivenSeeds
<1>5. seeds' \in Seq(Given(input))
  BY <1>2, <1>4, ConcatProperties
<1>6. SeedsInv'
  BY <1>1, <1>2, <1>3, <1>5 DEF SeedsInv
<1> QED
  BY <1>1, <1>6 DEF IInv, Phases, Working, CountsInv, LatticeInv

LEMMA StartCheckInv == IInv /\ StartCheck => IInv'
<1> SUFFICES ASSUME IInv, StartCheck PROVE IInv'
  OBVIOUS
<1> USE DEF StartCheck
<1>1. phase = "spawn" /\ phase' = "check" /\ input' = input /\ todo' = todo
  OBVIOUS
<1>2. input \in Inputs \ Refused /\ todo \in Seq(Makers) /\ seeds \in Seq(Given(input))
  BY <1>1 DEF IInv, SeedsInv, Working
<1>3. seeds' \in Seq(Given(input))
  BY <1>2, GivenSeeds, SortedSorts
<1>4. SeedsInv'
  BY <1>1, <1>2, <1>3 DEF SeedsInv
<1> QED
  BY <1>1, <1>4 DEF IInv, Phases, Working, CountsInv, LatticeInv

LEMMA CheckInv == IInv /\ (CheckSeed \/ Decide) => IInv'
  BY StagesAssumption
  DEF IInv, Phases, Working, SeedsInv, CountsInv, LatticeInv, CheckSeed, Decide

\* What the later steps of a sentence keep: its seeds.
SameSeeds == UNCHANGED <<input, todo, seeds>>
LEMMA SeedsKept ==
  ASSUME SeedsInv, phase \in Working, SameSeeds
  PROVE  SeedsInv' /\ n' = n /\ \A k, m : Filled(k, m)' = Filled(k, m)
  BY DEF SeedsInv, SameSeeds, n, Filled, EndingAt

LEMMA PrepareInv == IInv /\ Prepare => IInv'
<1> SUFFICES ASSUME IInv, Prepare PROVE IInv'
  OBVIOUS
<1> USE DEF Prepare
<1>1. phase = "prepare" /\ phase' = "bos" /\ lattice' = lattice /\ SameSeeds
  BY DEF SameSeeds
<1>2. SeedsInv' /\ n' = n /\ \A k, m : Filled(k, m)' = Filled(k, m)
  BY <1>1, SeedsKept DEF IInv, Working
<1>3. n \in Nat /\ DOMAIN seeds = 1 .. Len(seeds)
  BY <1>1, GivenSeeds DEF IInv, SeedsInv, Working, n
<1>4. ASSUME NEW b \in 0 .. n
      PROVE  EndCount(b) = Filled(b + 3, Len(seeds))
  <2>1. b + 3 - 3 = b /\ b + 3 # 1 /\ b + 3 # 2 /\ (b + 3 = 3 <=> b = 0)
    BY <1>3
  <2>2. Filled(b + 3, Len(seeds)) = EndingAt(b, Len(seeds)) + IF b = 0 THEN 1 ELSE 0
    BY <2>1 DEF Filled
  <2> QED
    BY <1>3, <2>2 DEF EndCount, EndingAt
<1>5. ASSUME NEW b \in 0 .. n
      PROVE  info'[b].ends = Filled(b + 3, Len(seeds))
  BY <1>4
<1>6. CountsInv'
  BY <1>1, <1>2, <1>5 DEF CountsInv, SameSeeds
<1> QED
  BY <1>1, <1>2, <1>6 DEF IInv, Phases, Working, LatticeInv

\* One that is made has its room and no pointers.
LEMMA RoomParts ==
  ASSUME NEW starts, NEW room, NEW x, x = Room(starts, room)
  PROVE  IsBoundary(x) /\ x.room = room /\ x.ends = <<>>
  BY DEF IsBoundary, Room

LEMMA PointerAdded ==
  ASSUME NEW x, IsBoundary(x), NEW ends
  PROVE  [x EXCEPT !.ends = ends] = [starts |-> x.starts, room |-> x.room, ends |-> ends]
<1>1. PICK a, b, c : x = [starts |-> a, room |-> b, ends |-> c]
  BY DEF IsBoundary
<1>2. [[starts |-> a, room |-> b, ends |-> c] EXCEPT !.ends = ends]
      = [starts |-> a, room |-> b, ends |-> ends]
  OBVIOUS
<1>3. x.starts = a /\ x.room = b
  BY <1>1
<1> QED
  BY <1>1, <1>2, <1>3

LEMMA MakeBosInv == IInv /\ MakeBos => IInv'
<1> SUFFICES ASSUME IInv, MakeBos PROVE IInv'
  OBVIOUS
<1> USE DEF MakeBos
<1>1. phase = "bos" /\ phase' = "build" /\ SameSeeds /\ info' = info /\ cursor' = 0
  BY DEF SameSeeds
<1>2. SeedsInv' /\ n' = n /\ \A k, m : Filled(k, m)' = Filled(k, m)
  BY <1>1, SeedsKept DEF IInv, Working
<1>3. n \in Nat
  BY <1>1, GivenSeeds DEF IInv, SeedsInv, Working, n
<1>4. IsSequence(lattice') /\ Len(lattice') = 2
  BY DEF IsSequence
<1>5. Filled(1, Len(seeds)) = 0 /\ Filled(2, Len(seeds)) = 1
  BY DEF Filled
<1>6. lattice'[1] = Room(<<BosSeed>>, 0) /\ lattice'[2] = Room(<<BosSeed>>, 1)
  OBVIOUS
<1>7. Holds(1, 0)' /\ Holds(2, 0)'
  BY <1>1, <1>2, <1>5, <1>6, RoomParts, EmptySequence DEF Holds, SameSeeds
<1>8. \A k \in 1 .. 2 : k = 1 \/ k = 2
  OBVIOUS
<1>9. \A k \in 1 .. cursor' + 2 : Holds(k, 0)'
  BY <1>1, <1>7, <1>8
<1>10. CountsInv'
  BY <1>1, <1>2 DEF IInv, CountsInv, SameSeeds
<1>11. LatticeInv'
  BY <1>1, <1>2, <1>3, <1>4, <1>9 DEF LatticeInv
<1> QED
  BY <1>1, <1>2, <1>10, <1>11 DEF IInv, Phases, Working

\* One more boundary, with the room that was counted for it.
LEMMA BoundaryAppended ==
  ASSUME IInv, phase = "build", SameSeeds, NEW starts,
         lattice' = Append(lattice, Room(starts, info[cursor].ends))
  PROVE  /\ IsSequence(lattice') /\ Len(lattice') = cursor + 3
         /\ \A k \in 1 .. cursor + 3 : Holds(k, 0)'
<1>1. IsSequence(lattice) /\ Len(lattice) = cursor + 2 /\ cursor \in 0 .. n
  BY DEF IInv, LatticeInv
<1>2. n \in Nat
  BY GivenSeeds DEF IInv, SeedsInv, Working, n
<1>3. \A k, m : Filled(k, m)' = Filled(k, m)
  BY SeedsKept DEF IInv, Working
<1>4. IsSequence(lattice') /\ Len(lattice') = cursor + 3
  BY <1>1, <1>2, Appended
<1>5. ASSUME NEW k \in 1 .. cursor + 2 PROVE Holds(k, 0)'
  <2>1. lattice'[k] = lattice[k]
    BY <1>1, Appended
  <2>2. Holds(k, 0)
    BY DEF IInv, LatticeInv
  <2> QED
    BY <1>3, <2>1, <2>2 DEF Holds, SameSeeds
<1>6. ASSUME NEW k, k = cursor + 3 PROVE Holds(k, 0)'
  <2>1. lattice'[k] = Room(starts, info[cursor].ends)
    <3>1. k = Len(lattice) + 1
      BY <1>1, <1>2, <1>6
    <3> QED
      BY <1>1, <3>1, Appended
  <2>2. info[cursor].ends = Filled(k, Len(seeds))
    BY <1>1, <1>6 DEF IInv, CountsInv
  <2>3. /\ IsBoundary(lattice'[k])
        /\ lattice'[k].room = Filled(k, Len(seeds)) /\ lattice'[k].ends = <<>>
    BY <2>1, <2>2, RoomParts
  <2> QED
    BY <1>3, <2>3, EmptySequence DEF Holds, SameSeeds
<1>7. \A k \in 1 .. cursor + 3 : k \in 1 .. cursor + 2 \/ k = cursor + 3
  BY <1>1, <1>2
<1> QED
  BY <1>4, <1>5, <1>6, <1>7

LEMMA ConstructInv == IInv /\ ConstructSingleBoundary => IInv'
<1> SUFFICES ASSUME IInv, ConstructSingleBoundary PROVE IInv'
  OBVIOUS
<1> USE DEF ConstructSingleBoundary
<1>1. phase = "build" /\ phase' = "build" /\ SameSeeds /\ info' = info
      /\ cursor' = cursor + 1 /\ cursor < n
  BY DEF SameSeeds
<1>2. SeedsInv' /\ n' = n /\ \A k, m : Filled(k, m)' = Filled(k, m)
  BY <1>1, SeedsKept DEF IInv, Working
<1>3. n \in Nat /\ cursor \in 0 .. n
  BY <1>1, GivenSeeds DEF IInv, SeedsInv, LatticeInv, Working, n
<1>4. PICK starts : lattice' = Append(lattice, Room(starts, info[cursor].ends))
  OBVIOUS
<1>5. /\ IsSequence(lattice') /\ Len(lattice') = cursor + 3
      /\ \A k \in 1 .. cursor + 3 : Holds(k, 0)'
  BY <1>1, <1>4, BoundaryAppended
<1>6. cursor' \in 0 .. n' /\ cursor' + 2 = cursor + 3
  BY <1>1, <1>2, <1>3
<1>7. LatticeInv'
  BY <1>1, <1>5, <1>6 DEF LatticeInv
<1>8. CountsInv'
  BY <1>1, <1>2 DEF IInv, CountsInv, SameSeeds
<1> QED
  BY <1>1, <1>2, <1>7, <1>8 DEF IInv, Phases, Working

LEMMA MakeEosInv == IInv /\ MakeEos => IInv'
<1> SUFFICES ASSUME IInv, MakeEos PROVE IInv'
  OBVIOUS
<1> USE DEF MakeEos
<1>1. phase = "build" /\ phase' = "bosends" /\ SameSeeds /\ info' = info
      /\ cursor' = cursor /\ cursor = n
  BY DEF SameSeeds
<1>2. SeedsInv' /\ n' = n /\ \A k, m : Filled(k, m)' = Filled(k, m)
  BY <1>1, SeedsKept DEF IInv, Working
<1>3. lattice' = Append(lattice, Room(<<EosSeed>>, info[cursor].ends))
  BY <1>1
<1>4. /\ IsSequence(lattice') /\ Len(lattice') = n + 3
      /\ \A k \in 1 .. n + 3 : Holds(k, 0)'
  BY <1>1, <1>3, BoundaryAppended
<1>5. LatticeInv'
  BY <1>1, <1>2, <1>4 DEF LatticeInv
<1>6. CountsInv'
  BY <1>1, <1>2 DEF IInv, CountsInv, SameSeeds
<1> QED
  BY <1>1, <1>2, <1>5, <1>6 DEF IInv, Phases, Working

LEMMA ReturnInv == IInv /\ Return => IInv'
<1> SUFFICES ASSUME IInv, Return PROVE IInv'
  OBVIOUS
<1> USE DEF Return
<1>1. phase = "ends" /\ phase' = "built" /\ SameSeeds /\ info' = info /\ lattice' = lattice
      /\ cursor > Len(seeds)
  BY DEF SameSeeds
<1>2. SeedsInv' /\ n' = n /\ \A k, m : Filled(k, m)' = Filled(k, m)
  BY <1>1, SeedsKept DEF IInv, Working
<1>3. /\ cursor \in 1 .. Len(seeds) + 1 /\ IsSequence(lattice) /\ Len(lattice) = n + 3
      /\ \A k \in 1 .. n + 3 : Holds(k, Filled(k, cursor - 1))
  BY <1>1 DEF IInv, LatticeInv
<1>4. Len(seeds) \in Nat
  BY <1>1 DEF IInv, SeedsInv, Working
<1>5. cursor - 1 = Len(seeds)
  BY <1>1, <1>3, <1>4
<1>6. \A k \in 1 .. n + 3 : Holds(k, Filled(k, Len(seeds)))'
  BY <1>1, <1>2, <1>3, <1>5 DEF Holds, SameSeeds
<1>7. LatticeInv'
  BY <1>1, <1>2, <1>3, <1>6 DEF LatticeInv, SameSeeds
<1>8. CountsInv'
  BY <1>1, <1>2 DEF IInv, CountsInv, SameSeeds
<1> QED
  BY <1>1, <1>2, <1>7, <1>8 DEF IInv, Phases, Working

\* Between two lattices: one pointer more at one boundary, the others as they were.
OneMore(l, after, at, ptr) ==
  /\ IsSequence(after) /\ Len(after) = Len(l)
  /\ \A j \in 1 .. Len(l) : j # at => after[j] = l[j]
  /\ IsBoundary(after[at])
  /\ after[at].starts = l[at].starts /\ after[at].room = l[at].room
  /\ after[at].ends = Append(l[at].ends, ptr)

LEMMA EndAdded ==
  ASSUME NEW l, IsSequence(l), NEW k, NEW at \in 1 .. Len(l), at = k + 1, NEW ptr,
         IsBoundary(l[at]), IsSequence(l[at].ends)
  PROVE  OneMore(l, AddEnd(l, k, ptr), at, ptr)
<1> DEFINE old == l[at]
           new == [starts |-> old.starts, room |-> old.room, ends |-> Append(old.ends, ptr)]
           S == {l[i] : i \in DOMAIN l}
           T == S \cup {new}
           after == [l EXCEPT ![at] = new]
           R == {after[i] : i \in DOMAIN after}
<1>1. l \in Seq(T) /\ new \in T
  <2>1. l \in Seq(S)
    BY DEF IsSequence
  <2> HIDE DEF S, new
  <2> QED
    BY <2>1, SeqMonotonic
<1>2. AddEnd(l, k, ptr) = after
  <2>1. [old EXCEPT !.ends = Append(old.ends, ptr)] = new
    BY PointerAdded
  <2>2. AddEnd(l, k, ptr) = [l EXCEPT ![at] = [old EXCEPT !.ends = Append(old.ends, ptr)]]
    BY DEF AddEnd
  <2> QED
    BY <2>1, <2>2
<1>3. /\ after \in Seq(T) /\ Len(after) = Len(l)
      /\ \A j \in 1 .. Len(l) : after[j] = IF j = at THEN new ELSE l[j]
  <2> HIDE DEF T, new
  <2> QED
    BY <1>1, ExceptSeq
<1>4. after \in [1 .. Len(after) -> T] /\ Len(after) \in Nat
  <2> HIDE DEF after, T
  <2> QED
    BY <1>3, LenProperties
<1>5. after \in [1 .. Len(after) -> R]
  <2> HIDE DEF after, T
  <2> QED
    BY <1>4
<1>6. after \in Seq(R)
  <2> HIDE DEF after, R
  <2> QED
    BY <1>4, <1>5, SeqDef
<1>7. IsSequence(after)
  BY <1>6 DEF IsSequence
<1>8. /\ IsBoundary(new) /\ new.starts = old.starts /\ new.room = old.room
      /\ new.ends = Append(old.ends, ptr)
  BY DEF IsBoundary
<1> QED
  BY <1>2, <1>3, <1>7, <1>8 DEF OneMore

\* The nodes of BOS end at the first two boundaries, one at each.
LEMMA BosEndsAdded ==
  ASSUME IInv, FillBosEnds
  PROVE  \E first : OneMore(lattice, first, 2, Bos0) /\ OneMore(first, lattice', 3, Bos1)
<1>. DEFINE first == AddEnd(lattice, 1, Bos0)
            both == AddEnd(first, 2, Bos1)
<1>1. phase = "bosends" /\ lattice' = both
  BY DEF FillBosEnds
<1>2. n \in Nat
  BY <1>1, GivenSeeds DEF IInv, SeedsInv, Working, n
<1>3. /\ IsSequence(lattice) /\ Len(lattice) = n + 3
      /\ \A k \in 1 .. n + 3 : Holds(k, 0)
  BY <1>1 DEF IInv, LatticeInv
<1>4. 2 \in 1 .. Len(lattice) /\ 3 \in 1 .. Len(lattice)
  BY <1>2, <1>3
<1>5. Holds(2, 0) /\ Holds(3, 0)
  BY <1>3, <1>4
<1>6. OneMore(lattice, first, 2, Bos0)
  <2>1. 2 = 1 + 1 /\ IsBoundary(lattice[2]) /\ IsSequence(lattice[2].ends)
    BY <1>5 DEF Holds
  <2>. QED
    BY <1>3, <1>4, <2>1, EndAdded
<1>7. IsSequence(first) /\ Len(first) = Len(lattice) /\ first[3] = lattice[3]
  <2>. HIDE DEF first
  <2>. QED
    BY <1>4, <1>6 DEF OneMore
<1>8. OneMore(first, both, 3, Bos1)
  <2>. HIDE DEF first
  <2>1. 3 = 2 + 1 /\ 3 \in 1 .. Len(first) /\ IsBoundary(first[3]) /\ IsSequence(first[3].ends)
    BY <1>4, <1>5, <1>7 DEF Holds
  <2>. QED
    BY <1>7, <2>1, EndAdded
<1>. HIDE DEF first, both
<1>. QED
  BY <1>1, <1>6, <1>8

LEMMA FillBosInv == IInv /\ FillBosEnds => IInv'
<1> SUFFICES ASSUME IInv, FillBosEnds PROVE IInv'
  OBVIOUS
<1>1. phase = "bosends" /\ phase' = "ends" /\ SameSeeds /\ info' = info /\ cursor' = 1
  BY DEF SameSeeds, FillBosEnds
<1>2. SeedsInv' /\ n' = n /\ \A k, m : Filled(k, m)' = Filled(k, m)
  BY <1>1, SeedsKept DEF IInv, Working
<1>3. n \in Nat /\ Len(seeds) \in Nat
  BY <1>1, GivenSeeds DEF IInv, SeedsInv, Working, n
<1>4. /\ IsSequence(lattice) /\ Len(lattice) = n + 3
      /\ \A k \in 1 .. n + 3 : Holds(k, 0)
  BY <1>1 DEF IInv, LatticeInv
<1>5. 2 \in 1 .. Len(lattice) /\ 3 \in 1 .. Len(lattice)
  BY <1>3, <1>4
<1>6. Holds(2, 0) /\ Holds(3, 0)
  BY <1>4, <1>5
<1> DEFINE both == lattice'
<1>7. PICK first : OneMore(lattice, first, 2, Bos0) /\ OneMore(first, both, 3, Bos1)
  BY BosEndsAdded
<1>8. /\ Len(first) = n + 3
      /\ \A j \in 1 .. n + 3 : j # 2 => first[j] = lattice[j]
      /\ IsBoundary(first[2]) /\ first[2].room = lattice[2].room
      /\ first[2].ends = Append(lattice[2].ends, Bos0)
  BY <1>4, <1>7 DEF OneMore
<1>9. /\ IsSequence(both) /\ Len(both) = n + 3
      /\ \A j \in 1 .. n + 3 : j # 3 => both[j] = first[j]
      /\ IsBoundary(both[3]) /\ both[3].room = lattice[3].room
      /\ both[3].ends = Append(lattice[3].ends, Bos1)
  <2>1. first[3] = lattice[3]
    BY <1>4, <1>5, <1>8
  <2>. QED
    BY <1>7, <1>8, <2>1 DEF OneMore
<1>10. ASSUME NEW k \in 1 .. n + 3
       PROVE  Holds(k, Filled(k, 0))'
  <2>1. Holds(k, 0)
    BY <1>4
  <2>2. CASE k = 2
    <3>1. both[2] = first[2] /\ Filled(2, 0) = 1
      BY <1>4, <1>5, <1>9 DEF Filled
    <3>2. IsSequence(Append(lattice[2].ends, Bos0)) /\ Len(Append(lattice[2].ends, Bos0)) = 1
      BY <1>6, Appended DEF Holds
    <3> QED
      BY <1>1, <1>2, <1>6, <1>8, <2>2, <3>1, <3>2 DEF Holds, SameSeeds
  <2>3. CASE k = 3
    <3>1. Filled(3, 0) = 1
      BY EndingGrows DEF Filled
    <3>2. IsSequence(Append(lattice[3].ends, Bos1)) /\ Len(Append(lattice[3].ends, Bos1)) = 1
      BY <1>6, Appended DEF Holds
    <3> QED
      BY <1>1, <1>2, <1>6, <1>9, <2>3, <3>1, <3>2 DEF Holds, SameSeeds
  <2>4. CASE k # 2 /\ k # 3
    <3>1. both[k] = lattice[k]
      BY <1>8, <1>9, <2>4
    <3>2. Filled(k, 0) = 0
      BY <2>4, EndingGrows DEF Filled
    <3> QED
      BY <1>1, <1>2, <2>1, <3>1, <3>2 DEF Holds, SameSeeds
  <2> QED
    BY <2>2, <2>3, <2>4
<1>11. LatticeInv'
  <2>1. cursor' - 1 = 0 /\ cursor' \in 1 .. Len(seeds') + 1
    BY <1>1, <1>3 DEF SameSeeds
  <2>2. \A k \in 1 .. n' + 3 : Holds(k, Filled(k, cursor - 1))'
    BY <1>1, <1>2, <1>10, <2>1
  <2> QED
    BY <1>1, <1>2, <1>9, <2>1, <2>2 DEF LatticeInv
<1>12. CountsInv'
  BY <1>1, <1>2 DEF IInv, CountsInv, SameSeeds
<1> QED
  BY <1>1, <1>2, <1>11, <1>12 DEF IInv, Phases, Working

\* A seed ends behind its start and not behind the sentence, so its pointer
\* goes to one boundary, where fewer pointers are than seeds end.
EndOf(i) == seeds[i].to + 3
PointerTo(i) == <<seeds[i].from + 2, i - info[seeds[i].from].first>>
LEMMA EndAddedOf ==
  ASSUME IInv, FillEnd
  PROVE  /\ EndOf(cursor) \in 4 .. n + 3
         /\ OneMore(lattice, lattice', EndOf(cursor), PointerTo(cursor))
<1> DEFINE s == seeds[cursor]
           ptr == PointerTo(cursor)
<1>1. phase = "ends" /\ cursor <= Len(seeds)
  BY DEF FillEnd
<1>2. input \in Inputs \ Refused /\ seeds \in Seq(Given(input)) /\ n \in Nat
  BY <1>1, GivenSeeds DEF IInv, SeedsInv, Working, n
<1>3. /\ cursor \in 1 .. Len(seeds) + 1 /\ IsSequence(lattice) /\ Len(lattice) = n + 3
      /\ \A k \in 1 .. n + 3 : Holds(k, Filled(k, cursor - 1))
  BY <1>1 DEF IInv, LatticeInv
<1>4. cursor \in 1 .. Len(seeds)
  BY <1>1, <1>2, <1>3
<1>5. s.from \in Int /\ s.to \in 1 .. n /\ s.from # s.to
  <2>1. s \in Given(input)
    BY <1>2, <1>4
  <2>2. IsSeed(s, n)
    BY <1>2, <2>1, GivenSeeds DEF n
  <2> QED
    BY <1>2, <2>2 DEF IsSeed
<1>6. lattice' = AddEnd(lattice, s.to + 2, ptr)
  BY <1>5 DEF FillEnd, PointerTo
<1>7. PICK at \in 4 .. n + 3 : at = s.to + 2 + 1 /\ at = EndOf(cursor)
  <2>1. PICK to \in Int : to = s.to /\ 1 <= to /\ to <= n
    BY <1>2, <1>5
  <2>2. to + 3 \in 4 .. n + 3 /\ to + 3 = to + 2 + 1 /\ EndOf(cursor) = to + 3
    BY <1>2, <2>1 DEF EndOf
  <2> HIDE DEF s
  <2> QED
    BY <2>1, <2>2
<1>8. at \in 1 .. n + 3 /\ at \in 1 .. Len(lattice)
  BY <1>2, <1>3
<1>9. IsBoundary(lattice[at]) /\ IsSequence(lattice[at].ends)
  BY <1>3, <1>8 DEF Holds
<1>10. OneMore(lattice, AddEnd(lattice, s.to + 2, ptr), at, ptr)
  <2> HIDE DEF s, ptr
  <2> QED
    BY <1>3, <1>7, <1>8, <1>9, EndAdded
<1> HIDE DEF s, ptr
<1> QED
  BY <1>6, <1>7, <1>10 DEF ptr

LEMMA FillEndInv == IInv /\ FillEnd => IInv'
<1> SUFFICES ASSUME IInv, FillEnd PROVE IInv'
  OBVIOUS
<1> DEFINE s == seeds[cursor]
           ptr == PointerTo(cursor)
<1>1. phase = "ends" /\ phase' = "ends" /\ SameSeeds /\ info' = info /\ cursor' = cursor + 1
      /\ cursor <= Len(seeds)
  BY DEF SameSeeds, FillEnd
<1>2. SeedsInv' /\ n' = n /\ \A k, m : Filled(k, m)' = Filled(k, m)
  BY <1>1, SeedsKept DEF IInv, Working
<1>3. input \in Inputs \ Refused /\ seeds \in Seq(Given(input)) /\ n \in Nat
  BY <1>1, GivenSeeds DEF IInv, SeedsInv, Working, n
<1>4. /\ cursor \in 1 .. Len(seeds) + 1 /\ IsSequence(lattice) /\ Len(lattice) = n + 3
      /\ \A k \in 1 .. n + 3 : Holds(k, Filled(k, cursor - 1))
  BY <1>1 DEF IInv, LatticeInv
<1>5. Len(seeds) \in Nat /\ cursor \in 1 .. Len(seeds) /\ cursor - 1 \in Nat
  BY <1>1, <1>3, <1>4
<1>7. s.to \in Int
  <2>1. s \in Given(input)
    BY <1>3, <1>5
  <2>2. IsSeed(s, n)
    BY <1>3, <2>1, GivenSeeds DEF n
  <2> QED
    BY <1>3, <2>2 DEF IsSeed
<1>9. PICK at \in 4 .. n + 3 : at = s.to + 3 /\ OneMore(lattice, lattice', at, ptr)
  BY EndAddedOf DEF EndOf
<1> HIDE DEF ptr
<1>10. /\ IsSequence(lattice') /\ Len(lattice') = n + 3
       /\ \A j \in 1 .. n + 3 : j # at => lattice'[j] = lattice[j]
       /\ IsBoundary(lattice'[at]) /\ lattice'[at].room = lattice[at].room
       /\ lattice'[at].ends = Append(lattice[at].ends, ptr)
  BY <1>4, <1>9 DEF OneMore
<1>11. PICK c \in Nat : c + 1 = cursor /\ c + 1 \in 1 .. Len(seeds)
  BY <1>5
<1>12. ASSUME NEW k \in Nat
       PROVE  /\ Filled(k, c) \in Nat
              /\ Filled(k, c + 1) = Filled(k, c) + IF k = at THEN 1 ELSE 0
  <2>1. /\ EndingAt(k - 3, c) \in Nat
        /\ EndingAt(k - 3, c + 1) = EndingAt(k - 3, c) + IF seeds[c + 1].to = k - 3 THEN 1 ELSE 0
    BY EndingGrows
  <2>2. seeds[c + 1].to = k - 3 <=> k = at
    <3>1. PICK to \in Int : to = s.to /\ at = to + 3
      BY <1>7, <1>9
    <3>2. seeds[c + 1].to = to
      BY <1>11, <3>1
    <3>3. to = k - 3 <=> k = at
      BY <3>1
    <3> QED
      BY <3>2, <3>3
  <2>3. k = at => k # 1 /\ k # 2
    BY <1>9
  <2> QED
    BY <2>1, <2>2, <2>3 DEF Filled
<1>13. ASSUME NEW k \in 1 .. n + 3
       PROVE  Holds(k, Filled(k, c + 1))'
  <2>1. cursor - 1 = c /\ k \in Nat
    BY <1>3, <1>11
  <2>2. Holds(k, Filled(k, c))
    BY <1>4, <2>1
  <2>3. CASE k = at
    <3>1. /\ IsSequence(Append(lattice[k].ends, ptr))
          /\ Len(Append(lattice[k].ends, ptr)) = Filled(k, c + 1)
      <4>1. /\ IsSequence(lattice[k].ends) /\ Len(lattice[k].ends) = Filled(k, c)
            /\ Filled(k, c + 1) = Filled(k, c) + 1
        BY <1>12, <2>1, <2>2, <2>3 DEF Holds
      <4> QED
        BY <4>1, Appended
    <3>2. /\ IsBoundary(lattice'[k]) /\ lattice'[k].room = Filled(k, Len(seeds))
          /\ lattice'[k].ends = Append(lattice[k].ends, ptr)
      BY <1>10, <2>2, <2>3 DEF Holds
    <3> QED
      BY <1>1, <1>2, <3>1, <3>2 DEF Holds, SameSeeds
  <2>4. CASE k # at
    <3>1. lattice'[k] = lattice[k] /\ Filled(k, c + 1) = Filled(k, c)
      BY <1>10, <1>12, <2>1, <2>4
    <3> QED
      BY <1>1, <1>2, <2>2, <3>1 DEF Holds, SameSeeds
  <2> QED
    BY <2>3, <2>4
<1>14. LatticeInv'
  <2>1. cursor' - 1 = c + 1 /\ cursor' \in 1 .. Len(seeds') + 1
    BY <1>1, <1>5, <1>11 DEF SameSeeds
  <2>2. \A k \in 1 .. n' + 3 : Holds(k, Filled(k, cursor - 1))'
    BY <1>2, <1>13, <2>1
  <2> QED
    BY <1>1, <1>2, <1>10, <2>1, <2>2 DEF LatticeInv
<1>15. CountsInv'
  BY <1>1, <1>2 DEF IInv, CountsInv, SameSeeds
<1> QED
  BY <1>1, <1>2, <1>14, <1>15 DEF IInv, Phases, Working

LEMMA StepInv == IInv /\ [Next]_vars => IInv'
<1> SUFFICES ASSUME IInv, [Next]_vars PROVE IInv'
  OBVIOUS
<1>1. CASE Reset
  BY <1>1, ResetInv
<1>2. CASE SpawnNodes
  BY <1>2, SpawnInv
<1>3. CASE StartCheck
  BY <1>3, StartCheckInv
<1>4. CASE CheckSeed \/ Decide
  BY <1>4, CheckInv
<1>5. CASE Prepare
  BY <1>5, PrepareInv
<1>6. CASE MakeBos
  BY <1>6, MakeBosInv
<1>7. CASE ConstructSingleBoundary
  BY <1>7, ConstructInv
<1>8. CASE MakeEos
  BY <1>8, MakeEosInv
<1>9. CASE FillBosEnds
  BY <1>9, FillBosInv
<1>10. CASE FillEnd
  BY <1>10, FillEndInv
<1>11. CASE Return
  BY <1>11, ReturnInv
<1>12. CASE UNCHANGED vars
  <2>1. /\ phase' = phase /\ input' = input /\ todo' = todo /\ seeds' = seeds
        /\ info' = info /\ lattice' = lattice /\ cursor' = cursor
    BY <1>12 DEF vars
  <2>2. n' = n /\ \A k, m : Filled(k, m)' = Filled(k, m)
    BY <2>1 DEF n, Filled, EndingAt
  <2>3. \A k, m : Holds(k, m)' = Holds(k, m)
    BY <2>1, <2>2 DEF Holds
  <2>4. SeedsInv' /\ CountsInv' /\ phase' \in Phases
    BY <2>1, <2>2 DEF IInv, SeedsInv, CountsInv
  <2>5. LatticeInv'
    BY <2>1, <2>2, <2>3 DEF IInv, LatticeInv
  <2> QED
    BY <2>4, <2>5 DEF IInv
<1> QED
  BY <1>1, <1>2, <1>3, <1>4, <1>5, <1>6, <1>7, <1>8, <1>9, <1>10, <1>11, <1>12 DEF Next, Proceed

\* addEnd writes its pointers into arrays of the size that prepare counted,
\* without a check: it never writes behind one, for any sentence and any
\* seeds, and when analyze returns every array is full.
THEOREM RoomSuffices == Spec => []EndsInRoom
<1>1. Init => IInv
  BY InitInv
<1>2. IInv /\ [Next]_vars => IInv'
  BY StepInv
<1>3. IInv => EndsInRoom
  BY InvImpliesRoom
<1> QED
  BY <1>1, <1>2, <1>3, PTL DEF Spec
-----------------------------------------------------------------------------
(* The seeds are the words of the makers *)

MakersOf(st) == IF st = 1 THEN Stage1 ELSE Stage1 \o Stage2
Words(s, ms) == Request!WordsBy(s, ms)

LEMMA SeedsAreWords == \A st : SeedsUpTo(st) = Words(input, MakersOf(st))
BY DEF SeedsUpTo, Words, Request!WordsBy, MakersOf

\* The values of the function that defines WordsBy.
Appends(f, s, ms) ==
  /\ f[0] = <<>>
  /\ \A i \in 1 .. Len(ms) : f[i] = f[i - 1] \o Spawned[s][ms[i]]

LEMMA WordsAppend ==
  ASSUME NEW s \in Inputs \ Refused, NEW ms \in Seq(Makers)
  PROVE  \E f : /\ Appends(f, s, ms) /\ ValuesIn(f, Len(ms), Seq(Given(s)))
                /\ Words(s, ms) = f[Len(ms)]
<1>. DEFINE m == Len(ms)
            V == Seq(Given(s))
            G == [p \in (1 .. m) \X V |-> p[2] \o Spawned[s][ms[p[1]]]]
            Eq(f) == f = [i \in 0 .. m |-> IF i = 0 THEN <<>> ELSE f[i - 1] \o Spawned[s][ms[i]]]
<1>1. m \in Nat /\ \A i \in 1 .. m : ms[i] \in Makers
  <2>. HIDE DEF G, V, Eq
  <2>. QED
    OBVIOUS
<1>2. \A i \in 1 .. m : Spawned[s][ms[i]] \in V
  BY <1>1, GivenSeeds
<1>3. <<>> \in V
  BY EmptySeq
<1>4. ASSUME NEW v \in V, NEW i \in 1 .. m PROVE v \o Spawned[s][ms[i]] \in V
  <2>1. Spawned[s][ms[i]] \in V
    BY <1>2
  <2>. QED
    BY <2>1, ConcatProperties
<1>5. G \in [(1 .. m) \X V -> V]
  <2>. HIDE DEF V
  <2>. QED
    BY <1>4
<1>6. PICK g \in [0 .. m -> V] : IsRecursive(g, m, <<>>, G)
  <2>. HIDE DEF G, V, m
  <2>. QED
    BY <1>1, <1>3, <1>5, RecursionExists
<1>7. Eq(g)
  <2>1. \A k \in 0 .. m : k # 0 => <<k, g[k - 1]>> \in (1 .. m) \X V
    <3>1. \A k \in 0 .. m : k # 0 => k - 1 \in 0 .. m /\ k \in 1 .. m
      BY <1>1
    <3>. HIDE DEF G, V, m
    <3>. QED
      BY <1>6, <3>1
  <2>2. \A k \in 0 .. m : k # 0 => G[<<k, g[k - 1]>>] = g[k - 1] \o Spawned[s][ms[k]]
    <3>. HIDE DEF V, m
    <3>. QED
      BY <2>1
  <2>3. g = [k \in 0 .. m |-> IF k = 0 THEN <<>> ELSE G[<<k, g[k - 1]>>]]
    BY <1>6 DEF IsRecursive
  <2>. HIDE DEF G
  <2>. QED
    BY <2>2, <2>3
<1>. DEFINE f == CHOOSE h : Eq(h)
<1>8. Eq(f)
  BY <1>7
<1>9. Words(s, ms) = f[m]
  BY DEF Words, Request!WordsBy
<1>10. Appends(f, s, ms)
  <2>. HIDE DEF f
  <2>1. \A i \in 0 .. m : f[i] = IF i = 0 THEN <<>> ELSE f[i - 1] \o Spawned[s][ms[i]]
    BY <1>8
  <2>2. 0 \in 0 .. m /\ \A i \in 1 .. m : i \in 0 .. m /\ i # 0
    BY <1>1
  <2>. HIDE DEF m
  <2>3. f[0] = <<>> /\ \A i \in 1 .. m : f[i] = f[i - 1] \o Spawned[s][ms[i]]
    BY <2>1, <2>2
  <2>. QED
    BY <2>3 DEF Appends, m
<1>11. ValuesIn(f, m, V)
  <2>. HIDE DEF f, m, V, G, Eq
  <2>. DEFINE H == {i \in Nat : f[i] \in V}
  <2>1. 0 \in H
    BY <1>3, <1>10 DEF Appends
  <2>2. ASSUME NEW i \in 0 .. m - 1, i \in H PROVE i + 1 \in H
    <3>1. i + 1 \in 1 .. m /\ (i + 1) - 1 = i /\ i + 1 \in Nat
      BY <1>1
    <3>2. f[i + 1] = f[i] \o Spawned[s][ms[i + 1]]
      BY <1>10, <3>1 DEF Appends, m
    <3>3. f[i] \o Spawned[s][ms[i + 1]] \in V
      BY <1>4, <2>2, <3>1
    <3>. QED
      BY <3>1, <3>2, <3>3
  <2>3. 0 \in Int /\ m \in Int
    BY <1>1
  <2>4. \A i \in 0 .. m : i \in H
    <3>. HIDE DEF H
    <3>. QED
      BY <2>1, <2>2, <2>3, InductionTo
  <2>. QED
    BY <2>4 DEF ValuesIn
<1>. HIDE DEF f
<1>. QED
  BY <1>9, <1>10, <1>11

LEMMA WordsOfNone ==
  ASSUME NEW s \in Inputs \ Refused
  PROVE  Words(s, <<>>) = <<>>
<1>1. <<>> \in Seq(Makers) /\ Len(<<>>) = 0
  BY EmptySeq
<1>2. PICK f : Appends(f, s, <<>>) /\ Words(s, <<>>) = f[Len(<<>>)]
  BY <1>1, WordsAppend
<1>3. f[0] = <<>>
  BY <1>2 DEF Appends
<1>. QED
  BY <1>1, <1>2, <1>3

LEMMA WordsAreGiven ==
  ASSUME NEW s \in Inputs \ Refused, NEW ms \in Seq(Makers)
  PROVE  Words(s, ms) \in Seq(Given(s))
<1>1. Len(ms) \in 0 .. Len(ms)
  OBVIOUS
<1>. QED
  BY <1>1, WordsAppend DEF ValuesIn

LEMMA WordsOfOneMore ==
  ASSUME NEW s \in Inputs \ Refused, NEW ms \in Seq(Makers), NEW m \in Makers
  PROVE  Words(s, Append(ms, m)) = Words(s, ms) \o Spawned[s][m]
<1>. DEFINE more == Append(ms, m)
<1>1. /\ more \in Seq(Makers) /\ Len(ms) \in Nat /\ Len(more) = Len(ms) + 1 /\ more[Len(ms) + 1] = m
      /\ \A i \in 1 .. Len(ms) : more[i] = ms[i]
  OBVIOUS
<1>. HIDE DEF more
<1>2. PICK f : Appends(f, s, ms) /\ Words(s, ms) = f[Len(ms)]
  BY WordsAppend
<1>3. PICK g : Appends(g, s, more) /\ Words(s, more) = g[Len(more)]
  BY <1>1, WordsAppend
<1>4. f[0] = g[0]
  BY <1>2, <1>3 DEF Appends
<1>5. GoOnAlike(f, g, Len(ms))
  <2>1. ASSUME NEW i \in 1 .. Len(ms), f[i - 1] = g[i - 1] PROVE f[i] = g[i]
    <3>1. i \in 1 .. Len(more) /\ more[i] = ms[i]
      BY <1>1
    <3>. QED
      BY <1>2, <1>3, <2>1, <3>1 DEF Appends
  <2>. QED
    BY <2>1 DEF GoOnAlike
<1>6. AlikeUpTo(f, g, Len(ms))
  BY <1>1, <1>4, <1>5, SameRecursion
<1>7. f[Len(ms)] = g[Len(ms)]
  <2>1. Len(ms) \in 0 .. Len(ms)
    BY <1>1
  <2>. QED
    BY <1>6, <2>1 DEF AlikeUpTo
<1>8. g[Len(more)] = g[Len(ms)] \o Spawned[s][m]
  <2>1. Len(more) \in 1 .. Len(more) /\ Len(more) - 1 = Len(ms) /\ more[Len(more)] = m
    BY <1>1
  <2>. QED
    BY <1>3, <2>1 DEF Appends
<1>. QED
  BY <1>2, <1>3, <1>7, <1>8 DEF more

\* Seeds of a sentence fit it.
LEMMA GivenFit ==
  ASSUME NEW s \in Inputs \ Refused, NEW q \in Seq(Given(s))
  PROVE  Fit(q, Size[s]) /\ Starts(q)
<1>1. ASSUME NEW i \in DOMAIN q
      PROVE  q[i].from \in 0 .. Size[s] - 1 /\ q[i].to \in q[i].from + 1 .. Size[s] /\ q[i].from \in Int
  <2>1. q[i] \in Given(s)
    OBVIOUS
  <2>2. IsSeed(q[i], Size[s]) /\ q[i].from \in Int
    BY <2>1, GivenSeeds DEF HaveStarts
  <2>. QED
    BY <2>2 DEF IsSeed
<1>. QED
  BY <1>1 DEF Fit, Starts

\* While a sentence is worked on, the seeds are the words of the makers that
\* ran, in the order of spawning at each code point; once they are checked they
\* are ordered, and stage 2 runs only if the words of stage 1 do not suffice.
Spawn(done) ==
  done \o todo = MakersOf(stage) /\ SameRows(seeds, Words(input, done))
Checked == {"check", "prepare", "bos", "build", "bosends", "ends", "built"}
RowsInv ==
  phase \in Working =>
    /\ stage \in {1, 2}
    /\ \E done \in Seq(Makers) : Spawn(done)
    /\ stage = 2 => n \notin Reachable(SeedsUpTo(1))
    /\ phase \in Checked => todo = <<>> /\ Ordered(seeds)
PassInv ==
  /\ phase = "check" =>
       /\ cursor \in 1 .. Len(seeds) + 1
       /\ conn \in [0 .. n -> BOOLEAN] /\ conn[0]
       /\ \A b \in 0 .. n : conn[b] => b \in Reachable(seeds)
       /\ \A i \in 1 .. cursor - 1 : conn[seeds[i].from] => conn[seeds[i].to]
  /\ phase \in Checked \ {"check"} => n \in Reachable(seeds)

LEMMA SameKnown ==
  ASSUME input' = input
  PROVE  /\ n' = n /\ Reachable(SeedsUpTo(1))' = Reachable(SeedsUpTo(1))
         /\ SeedsUpTo(1)' = SeedsUpTo(1) /\ SeedsUpTo(2)' = SeedsUpTo(2)
<1>1. n' = n
  BY DEF n
<1>2. /\ SeedsUpTo(1)' = Words(input', MakersOf(1)) /\ SeedsUpTo(1) = Words(input, MakersOf(1))
      /\ SeedsUpTo(2)' = Words(input', MakersOf(2)) /\ SeedsUpTo(2) = Words(input, MakersOf(2))
  BY DEF SeedsUpTo, Words, Request!WordsBy, MakersOf
<1>3. Reachable(SeedsUpTo(1))' = ReachedBy(SeedsUpTo(1)', n')
  BY DEF Reachable
<1>. QED
  BY <1>1, <1>2, <1>3 DEF Reachable

LEMMA MakersOfStages ==
  /\ MakersOf(1) \in Seq(Makers) /\ MakersOf(2) \in Seq(Makers)
  /\ Stage1 \in Seq(Makers) /\ Stage2 \in Seq(Makers)
<1>1. Stage1 \in Seq(Makers) /\ Stage2 \in Seq(Makers)
  BY StagesAssumption
<1>2. Stage1 \o Stage2 \in Seq(Makers)
  BY <1>1, ConcatProperties
<1>. QED
  BY <1>1, <1>2 DEF MakersOf

\* Once every maker of the stage ran, the seeds are all of its words.
LEMMA AllSpawned ==
  ASSUME IInv, RowsInv, phase \in Working, todo = <<>>
  PROVE  /\ SameRows(seeds, SeedsUpTo(stage))
         /\ SeedsUpTo(stage) \in Seq(Given(input))
         /\ Reachable(seeds) = Reachable(SeedsUpTo(stage))
         /\ Fit(seeds, n) /\ Starts(seeds) /\ n \in Nat
<1>1. PICK done \in Seq(Makers) : Spawn(done)
  BY DEF RowsInv
<1>2. done \o todo = done
  BY <1>1
<1>3. SameRows(seeds, SeedsUpTo(stage)) /\ SeedsUpTo(stage) = Words(input, done)
  BY <1>1, <1>2, SeedsAreWords DEF Spawn
<1>4. input \in Inputs \ Refused /\ seeds \in Seq(Given(input))
  BY DEF IInv, SeedsInv
<1>5. Words(input, done) \in Seq(Given(input)) /\ n \in Nat
  BY <1>4, WordsAreGiven, GivenSeeds DEF n
<1>. DEFINE w == SeedsUpTo(stage)
<1>6. Fit(seeds, n) /\ Fit(w, n) /\ Starts(seeds)
  BY <1>3, <1>4, <1>5, GivenFit DEF n
<1>7. Among(seeds, w) /\ Among(w, seeds)
  <2>1. SameRows(w, seeds)
    BY <1>3 DEF SameRows
  <2>2. w \in Seq(Given(input))
    BY <1>3, <1>5
  <2>. HIDE DEF w
  <2>. QED
    BY <1>3, <1>4, <2>1, <2>2, SameRowsAmong DEF w
<1>8. ReachedBy(seeds, n) = ReachedBy(w, n)
  <2>. HIDE DEF w
  <2>. QED
    BY <1>5, <1>6, <1>7, ReachedSame
<1>. QED
  BY <1>3, <1>5, <1>6, <1>8 DEF Reachable
-----------------------------------------------------------------------------
LEMMA RowsInit == Init => RowsInv /\ PassInv
BY DEF Init, RowsInv, PassInv, Working, Checked

LEMMA RowsReset == IInv /\ Reset => RowsInv' /\ PassInv'
<1>. SUFFICES ASSUME IInv, Reset PROVE RowsInv' /\ PassInv'
  OBVIOUS
<1>1. CASE input' \in Refused
  BY <1>1 DEF Reset, RowsInv, PassInv, Working, Checked
<1>2. CASE input' \notin Refused
  <2>1. /\ phase' = "spawn" /\ todo' = Stage1 /\ stage' = 1 /\ seeds' = <<>>
        /\ input' \in Inputs \ Refused
    BY <1>2 DEF Reset
  <2>2. SameRows(<<>>, Words(input', <<>>)) /\ <<>> \o Stage1 = Stage1 /\ <<>> \in Seq(Makers)
    BY <2>1, WordsOfNone, MakersOfStages, EmptySeq DEF SameRows
  <2>3. \E d \in Seq(Makers) : d \o todo' = MakersOf(stage') /\ SameRows(seeds', Words(input', d))
    BY <2>1, <2>2 DEF MakersOf
  <2>. QED
    BY <2>1, <2>3 DEF RowsInv, PassInv, Checked, Spawn
<1>. QED
  BY <1>1, <1>2

LEMMA RowsSpawn == IInv /\ RowsInv /\ SpawnNodes => RowsInv' /\ PassInv'
<1>. SUFFICES ASSUME IInv, RowsInv, SpawnNodes PROVE RowsInv' /\ PassInv'
  OBVIOUS
<1>1. /\ phase = "spawn" /\ phase' = "spawn" /\ input' = input /\ stage' = stage /\ todo # <<>>
      /\ todo' = Tail(todo) /\ seeds' = seeds \o Spawned[input][Head(todo)]
  BY DEF SpawnNodes
<1>2. /\ input \in Inputs \ Refused /\ todo \in Seq(Makers) /\ seeds \in Seq(Given(input))
      /\ stage \in {1, 2} /\ (stage = 2 => n \notin Reachable(SeedsUpTo(1)))
  BY <1>1 DEF IInv, SeedsInv, RowsInv, Working
<1>3. PICK done \in Seq(Makers) : Spawn(done)
  BY <1>1 DEF RowsInv, Working
<1>. DEFINE m == Head(todo)
            more == Append(done, m)
<1>4. m \in Makers /\ more \in Seq(Makers) /\ more \o Tail(todo) = done \o todo
  <2>1. PICK q \in Seq(Makers) : q = todo /\ q # <<>>
    BY <1>1, <1>2
  <2>2. Head(q) \in Makers /\ Tail(q) \in Seq(Makers)
    BY <2>1
  <2>3. Append(done, Head(q)) \in Seq(Makers)
    BY <2>2
  <2>4. Append(done, Head(q)) \o Tail(q) = done \o q
    BY <2>1
  <2>. QED
    BY <2>1, <2>2, <2>3, <2>4
<1>5. Spawned[input][m] \in Seq(Given(input)) /\ Words(input, done) \in Seq(Given(input))
  BY <1>2, <1>4, GivenSeeds, WordsAreGiven
<1>6. SameRows(seeds', Words(input, more))
  <2>1. SameRows(seeds, Words(input, done))
    BY <1>3 DEF Spawn
  <2>2. SameRows(seeds \o Spawned[input][m], Words(input, done) \o Spawned[input][m])
    BY <1>2, <1>5, <2>1, SameRowsConcat
  <2>3. Words(input, more) = Words(input, done) \o Spawned[input][m]
    BY <1>2, <1>4, WordsOfOneMore
  <2>. QED
    BY <1>1, <2>2, <2>3
<1>. HIDE DEF more, m
<1>7. \E d \in Seq(Makers) : d \o todo' = MakersOf(stage') /\ SameRows(seeds', Words(input', d))
  <2>1. more \o todo' = MakersOf(stage')
    BY <1>1, <1>3, <1>4 DEF Spawn
  <2>2. SameRows(seeds', Words(input', more))
    BY <1>1, <1>6
  <2>. QED
    BY <1>4, <2>1, <2>2
<1>8. (stage = 2 => n \notin Reachable(SeedsUpTo(1)))'
  BY <1>1, <1>2, SameKnown
<1>. QED
  BY <1>1, <1>2, <1>7, <1>8 DEF RowsInv, PassInv, Checked, Spawn

LEMMA RowsStartCheck == IInv /\ RowsInv /\ StartCheck => RowsInv' /\ PassInv'
<1>. SUFFICES ASSUME IInv, RowsInv, StartCheck PROVE RowsInv' /\ PassInv'
  OBVIOUS
<1>1. /\ phase = "spawn" /\ phase' = "check" /\ input' = input /\ stage' = stage /\ todo = <<>>
      /\ todo' = <<>> /\ seeds' = Sorted(seeds) /\ cursor' = 1 /\ conn' = [b \in 0 .. n |-> b = 0]
  BY DEF StartCheck
<1>2. /\ input \in Inputs \ Refused /\ seeds \in Seq(Given(input)) /\ n \in Nat
      /\ stage \in {1, 2} /\ (stage = 2 => n \notin Reachable(SeedsUpTo(1)))
  BY <1>1, GivenSeeds DEF IInv, SeedsInv, RowsInv, Working, n
<1>3. PICK done \in Seq(Makers) : Spawn(done)
  BY <1>1 DEF RowsInv, Working
<1>4. /\ Ordered(seeds') /\ SameRows(seeds', seeds)
      /\ seeds' \in Seq(Given(input)) /\ Len(seeds') \in Nat
  BY <1>1, <1>2, GivenSeeds, SortedKeepsRows, SortedSorts
<1>5. \E d \in Seq(Makers) : d \o todo' = MakersOf(stage') /\ SameRows(seeds', Words(input', d))
  BY <1>1, <1>3, <1>4 DEF Spawn, SameRows
<1>6. n' = n /\ (stage = 2 => n \notin Reachable(SeedsUpTo(1)))'
  BY <1>1, <1>2, SameKnown
<1>7. 0 \in Reachable(seeds)'
  <2>1. Fit(seeds', n)
    BY <1>2, <1>4, GivenFit DEF n
  <2>2. 0 \in ReachedBy(seeds', n)
    BY <1>2, <2>1, ReachedClosed
  <2>. QED
    BY <1>6, <2>2 DEF Reachable
<1>8. conn' \in [0 .. n -> BOOLEAN] /\ conn'[0] /\ \A b \in 0 .. n : conn'[b] => b = 0
  BY <1>1, <1>2
<1>9. PassInv'
  <2>1. \A i \in 1 .. cursor' - 1 : FALSE
    BY <1>1
  <2>2. \A b \in 0 .. n : conn'[b] => b \in Reachable(seeds)'
    BY <1>7, <1>8
  <2>. QED
    BY <1>1, <1>4, <1>6, <1>8, <2>1, <2>2 DEF PassInv, Checked
<1>. QED
  BY <1>1, <1>2, <1>4, <1>5, <1>6, <1>9 DEF RowsInv, Checked, Spawn

\* Once the pass is over, the flags are exactly what chains of seeds reach.
LEMMA PassIsDone ==
  ASSUME IInv, RowsInv, PassInv, phase = "check", cursor > Len(seeds)
  PROVE  \A b \in 0 .. n : conn[b] <=> b \in Reachable(seeds)
<1>1. /\ Fit(seeds, n) /\ n \in Nat /\ todo = <<>>
      /\ input \in Inputs \ Refused /\ seeds \in Seq(Given(input)) /\ Len(seeds) \in Nat
  BY AllSpawned DEF RowsInv, Working, Checked, IInv, SeedsInv
<1>2. /\ cursor - 1 = Len(seeds)
      /\ conn \in [0 .. n -> BOOLEAN] /\ conn[0]
      /\ \A b \in 0 .. n : conn[b] => b \in Reachable(seeds)
      /\ \A i \in 1 .. cursor - 1 : conn[seeds[i].from] => conn[seeds[i].to]
  BY <1>1 DEF PassInv
<1>. DEFINE T == {b \in 0 .. n : conn[b]}
<1>3. 0 \in T
  BY <1>1, <1>2
<1>4. Closed(T, seeds)
  <2>1. ASSUME NEW i \in DOMAIN seeds, seeds[i].from \in T PROVE seeds[i].to \in T
    <3>1. i \in 1 .. cursor - 1
      BY <1>1, <1>2
    <3>2. conn[seeds[i].to]
      BY <1>2, <2>1, <3>1
    <3>3. seeds[i].to \in 0 .. n
      <4>1. seeds[i].from \in 0 .. n - 1 /\ seeds[i].to \in seeds[i].from + 1 .. n
        BY <1>1 DEF Fit
      <4>. QED
        BY <1>1, <4>1
    <3>. QED
      BY <3>2, <3>3
  <2>. QED
    BY <2>1 DEF Closed
<1>5. Reachable(seeds) \subseteq T
  <2>. HIDE DEF T
  <2>. QED
    BY <1>1, <1>3, <1>4, ReachedLeast DEF Reachable
<1>. QED
  BY <1>2, <1>5

LEMMA PassImpliesEnough == IInv /\ RowsInv /\ PassInv => OnePassIsEnough
<1>. SUFFICES ASSUME IInv, RowsInv, PassInv, phase = "check", cursor > Len(seeds)
              PROVE  conn = [b \in 0 .. n |-> b \in Reachable(seeds)]
  BY DEF OnePassIsEnough
<1>1. conn \in [0 .. n -> BOOLEAN] /\ conn = [b \in 0 .. n |-> conn[b]]
  BY DEF PassInv
<1>2. \A b \in 0 .. n : conn[b] = (b \in Reachable(seeds))
  <2>1. ASSUME NEW b \in 0 .. n PROVE conn[b] = (b \in Reachable(seeds))
    <3>1. conn[b] \in BOOLEAN
      BY <1>1
    <3>2. conn[b] <=> b \in Reachable(seeds)
      BY PassIsDone
    <3>. QED
      BY <3>1, <3>2
  <2>. QED
    BY <2>1
<1>3. [b \in 0 .. n |-> conn[b]] = [b \in 0 .. n |-> b \in Reachable(seeds)]
  BY <1>2
<1>. QED
  BY <1>1, <1>3

LEMMA RowsKept ==
  ASSUME RowsInv, UNCHANGED <<input, todo, stage, seeds>>, phase \in Checked, phase' \in Checked
  PROVE  RowsInv' /\ n' = n /\ Reachable(seeds)' = Reachable(seeds)
<1>1. phase \in Working
  BY DEF Checked, Working
<1>2. \E d \in Seq(Makers) : d \o todo' = MakersOf(stage') /\ SameRows(seeds', Words(input', d))
  BY <1>1 DEF RowsInv, Spawn
<1>3. n' = n /\ Reachable(SeedsUpTo(1))' = Reachable(SeedsUpTo(1))
  BY SameKnown
<1>4. Reachable(seeds)' = Reachable(seeds)
  BY <1>3 DEF Reachable
<1>5. stage' \in {1, 2} /\ todo' = <<>> /\ Ordered(seeds')
  BY <1>1 DEF RowsInv
<1>6. (stage = 2 => n \notin Reachable(SeedsUpTo(1)))'
  BY <1>1, <1>3 DEF RowsInv
<1>. QED
  BY <1>2, <1>3, <1>4, <1>5, <1>6 DEF RowsInv, Spawn

LEMMA RowsCheckSeed == IInv /\ RowsInv /\ PassInv /\ CheckSeed => RowsInv' /\ PassInv'
<1>. SUFFICES ASSUME IInv, RowsInv, PassInv, CheckSeed PROVE RowsInv' /\ PassInv'
  OBVIOUS
<1>1. /\ phase = "check" /\ phase' = "check" /\ UNCHANGED <<input, todo, stage, seeds>>
      /\ cursor <= Len(seeds) /\ cursor' = cursor + 1
      /\ conn' = [conn EXCEPT ![seeds[cursor].to] = @ \/ conn[seeds[cursor].from]]
  BY DEF CheckSeed
<1>2. RowsInv' /\ n' = n /\ Reachable(seeds)' = Reachable(seeds)
  BY <1>1, RowsKept DEF Checked
<1>3. /\ Fit(seeds, n) /\ Starts(seeds) /\ Ordered(seeds) /\ n \in Nat /\ Len(seeds) \in Nat
      /\ DOMAIN seeds = 1 .. Len(seeds)
  <2>1. phase \in Working /\ phase \in Checked
    BY <1>1 DEF Working, Checked
  <2>2. seeds \in Seq(Given(input)) /\ todo = <<>> /\ Ordered(seeds)
    BY <2>1 DEF IInv, SeedsInv, RowsInv
  <2>. QED
    BY <2>1, <2>2, AllSpawned
<1>4. /\ cursor \in 1 .. Len(seeds) /\ cursor \in Nat
      /\ conn \in [0 .. n -> BOOLEAN] /\ conn[0]
      /\ \A b \in 0 .. n : conn[b] => b \in Reachable(seeds)
      /\ \A i \in 1 .. cursor - 1 : conn[seeds[i].from] => conn[seeds[i].to]
  BY <1>1, <1>3 DEF PassInv
<1>5. PICK from \in 0 .. n - 1, to \in 1 .. n :
        from = seeds[cursor].from /\ to = seeds[cursor].to /\ from < to
  <2>1. seeds[cursor].from \in 0 .. n - 1 /\ seeds[cursor].to \in seeds[cursor].from + 1 .. n
    BY <1>3, <1>4 DEF Fit
  <2>2. seeds[cursor].to \in 1 .. n /\ seeds[cursor].from < seeds[cursor].to
    BY <1>3, <2>1
  <2>. QED
    BY <2>1, <2>2
<1>6. /\ conn' \in [0 .. n -> BOOLEAN]
      /\ \A b \in 0 .. n : b # to => conn'[b] = conn[b]
      /\ conn'[to] <=> conn[to] \/ conn[from]
  <2>1. conn' = [conn EXCEPT ![to] = conn[to] \/ conn[from]]
    BY <1>1, <1>5
  <2>2. to \in 0 .. n /\ from \in 0 .. n
    BY <1>3, <1>5
  <2>. QED
    BY <1>4, <2>1, <2>2
<1>7. conn'[0]
  BY <1>3, <1>4, <1>5, <1>6
<1>8. ASSUME NEW b \in 0 .. n, conn'[b] PROVE b \in Reachable(seeds)
  <2>1. CASE b # to
    BY <1>4, <1>6, <1>8, <2>1
  <2>2. CASE b = to /\ conn[to]
    BY <1>4, <1>8, <2>2
  <2>3. CASE b = to /\ conn[from]
    <3>1. from \in Reachable(seeds)
      BY <1>3, <1>4, <1>5, <2>3
    <3>2. Closed(Reachable(seeds), seeds)
      BY <1>3, ReachedClosed DEF Reachable
    <3>. QED
      BY <1>3, <1>4, <1>5, <2>3, <3>1, <3>2 DEF Closed
  <2>. QED
    BY <1>6, <1>8, <2>1, <2>2, <2>3
<1>9. ASSUME NEW i \in 1 .. cursor, conn'[seeds[i].from] PROVE conn'[seeds[i].to]
  <2>1. i \in DOMAIN seeds /\ cursor \in DOMAIN seeds /\ i <= cursor
    BY <1>3, <1>4
  <2>2. PICK f \in 0 .. n - 1, t \in 1 .. n : f = seeds[i].from /\ t = seeds[i].to
    <3>1. seeds[i].from \in 0 .. n - 1 /\ seeds[i].to \in seeds[i].from + 1 .. n
      BY <1>3, <2>1 DEF Fit
    <3>2. seeds[i].to \in 1 .. n
      BY <1>3, <3>1
    <3>. QED
      BY <3>1, <3>2
  <2>3. f <= from
    BY <1>3, <1>5, <2>1, <2>2 DEF Ordered
  <2>4. f # to /\ f \in 0 .. n /\ t \in 0 .. n
    BY <1>3, <1>5, <2>3
  <2>5. conn[f]
    BY <1>6, <1>9, <2>2, <2>4
  <2>6. CASE i = cursor
    BY <1>5, <1>6, <2>2, <2>5, <2>6
  <2>7. CASE i # cursor
    <3>1. i \in 1 .. cursor - 1
      BY <1>4, <2>7
    <3>2. conn[t]
      BY <1>4, <2>2, <2>5, <3>1
    <3>. QED
      BY <1>6, <2>2, <2>4, <3>2
  <2>. QED
    BY <2>6, <2>7
<1>10. PassInv'
  <2>1. cursor' \in 1 .. Len(seeds') + 1 /\ cursor' - 1 = cursor
    BY <1>1, <1>3, <1>4
  <2>2. \A i \in 1 .. cursor' - 1 : conn'[seeds'[i].from] => conn'[seeds'[i].to]
    BY <1>1, <1>9, <2>1
  <2>3. \A b \in 0 .. n' : conn'[b] => b \in Reachable(seeds)'
    BY <1>2, <1>8
  <2>. QED
    BY <1>1, <1>2, <1>6, <1>7, <2>1, <2>2, <2>3 DEF PassInv, Checked
<1>. QED
  BY <1>2, <1>10

LEMMA RowsDecide == IInv /\ RowsInv /\ PassInv /\ Decide => RowsInv' /\ PassInv'
<1>. SUFFICES ASSUME IInv, RowsInv, PassInv, Decide PROVE RowsInv' /\ PassInv'
  OBVIOUS
<1>1. phase = "check" /\ cursor > Len(seeds) /\ input' = input /\ seeds' = seeds
  BY DEF Decide
<1>2. phase \in Working /\ phase \in Checked /\ todo = <<>> /\ stage \in {1, 2}
  BY <1>1 DEF Working, Checked, RowsInv
<1>3. n \in Nat /\ Reachable(seeds) = Reachable(SeedsUpTo(stage))
  BY <1>2, AllSpawned
<1>4. conn[n] <=> n \in Reachable(seeds)
  BY <1>1, <1>3, PassIsDone
<1>5. CASE conn[n]
  <2>1. phase' = "prepare" /\ UNCHANGED <<input, todo, stage, seeds>>
    BY <1>5 DEF Decide
  <2>2. RowsInv' /\ n' = n /\ Reachable(seeds)' = Reachable(seeds)
    BY <1>2, <2>1, RowsKept DEF Checked
  <2>. QED
    BY <1>4, <1>5, <2>1, <2>2 DEF PassInv
<1>6. CASE ~conn[n] /\ stage = 1
  <2>1. phase' = "spawn" /\ todo' = Stage2 /\ stage' = 2
    BY <1>6 DEF Decide
  <2>2. PICK done \in Seq(Makers) : Spawn(done)
    BY <1>2 DEF RowsInv
  <2>3. done = Stage1
    <3>1. done \o <<>> = done
      OBVIOUS
    <3>. QED
      BY <1>2, <1>6, <2>2, <3>1 DEF Spawn, MakersOf
  <2>4. \E d \in Seq(Makers) : d \o todo' = MakersOf(stage') /\ SameRows(seeds', Words(input', d))
    <3>1. done \o todo' = MakersOf(stage')
      BY <2>1, <2>3 DEF MakersOf
    <3>2. SameRows(seeds', Words(input', done))
      BY <1>1, <2>2 DEF Spawn
    <3>. QED
      BY <3>1, <3>2
  <2>5. (n \notin Reachable(SeedsUpTo(1)))'
    BY <1>1, <1>3, <1>4, <1>6, SameKnown
  <2>. QED
    BY <2>1, <2>4, <2>5 DEF RowsInv, PassInv, Checked, Spawn
<1>7. CASE ~conn[n] /\ stage # 1
  <2>1. phase' = "failed"
    BY <1>7 DEF Decide
  <2>. QED
    BY <2>1 DEF RowsInv, PassInv, Working, Checked
<1>. QED
  BY <1>5, <1>6, <1>7

RowsDone == RowsInv /\ PassInv
LEMMA RowsStep == IInv /\ RowsDone /\ [Next]_vars => RowsDone'
<1>. SUFFICES ASSUME IInv, RowsDone, [Next]_vars PROVE RowsDone'
  OBVIOUS
<1>. USE DEF RowsDone
<1>1. CASE Reset
  BY <1>1, RowsReset
<1>2. CASE SpawnNodes
  BY <1>2, RowsSpawn
<1>3. CASE StartCheck
  BY <1>3, RowsStartCheck
<1>4. CASE CheckSeed
  BY <1>4, RowsCheckSeed
<1>5. CASE Decide
  BY <1>5, RowsDecide
<1>6. CASE Prepare \/ MakeBos \/ ConstructSingleBoundary \/ MakeEos \/ FillBosEnds \/ FillEnd \/ Return
  <2>1. /\ phase \in Checked \ {"check"} /\ phase' \in Checked \ {"check"}
        /\ UNCHANGED <<input, todo, stage, seeds>>
    BY <1>6 DEF Checked, Prepare, MakeBos, ConstructSingleBoundary, MakeEos, FillBosEnds, FillEnd, Return
  <2>2. RowsInv' /\ n' = n /\ Reachable(seeds)' = Reachable(seeds)
    BY <2>1, RowsKept
  <2>. QED
    BY <2>1, <2>2 DEF PassInv
<1>7. CASE UNCHANGED vars
  <2>1. UNCHANGED <<phase, input, todo, stage, seeds, conn, cursor>>
    BY <1>7 DEF vars
  <2>2. n' = n /\ Reachable(SeedsUpTo(1))' = Reachable(SeedsUpTo(1))
    BY <2>1, SameKnown
  <2>3. Reachable(seeds)' = Reachable(seeds)
    BY <2>1, <2>2 DEF Reachable
  <2>4. phase \in Working =>
          \E d \in Seq(Makers) : d \o todo' = MakersOf(stage') /\ SameRows(seeds', Words(input', d))
    BY <2>1 DEF RowsInv, Spawn
  <2>5. RowsInv'
    BY <2>1, <2>2, <2>4 DEF RowsInv, Spawn
  <2>6. PassInv'
    BY <2>1, <2>2, <2>3 DEF PassInv
  <2>. QED
    BY <2>5, <2>6
<1>. QED
  BY <1>1, <1>2, <1>3, <1>4, <1>5, <1>6, <1>7 DEF Next, Proceed

\* checkConnectability finds in one pass over the sorted seeds exactly the
\* boundaries that chains of words reach, so stage 2 is asked for, and an
\* error returned, only when the words do not cover the sentence.
THEOREM OnePass == Spec => []OnePassIsEnough
<1>1. Init => IInv /\ RowsDone
  BY InitInv, RowsInit DEF RowsDone
<1>2. IInv /\ RowsDone /\ [Next]_vars => (IInv /\ RowsDone)'
  BY StepInv, RowsStep
<1>3. IInv /\ RowsDone => OnePassIsEnough
  BY PassImpliesEnough DEF RowsDone
<1>. QED
  BY <1>1, <1>2, <1>3, PTL DEF Spec
-----------------------------------------------------------------------------
(* The nodes of the boundaries *)

\* prepare is done; the nodes of all boundaries are made.
Counted == {"bos", "build", "bosends", "ends", "built"}
Made == {"bosends", "ends", "built"}

\* prepare knows where the seeds of a boundary begin, and the nodes made at
\* code point b are the seeds that start there.
Row(b) == lattice[b + 3].starts = StartingAt(seeds, b)
NodesInv ==
  /\ phase \in Counted =>
       \A b \in 0 .. n : info[b].starts = StartCount(b) /\ info[b].first = CountBefore(seeds, b)
  /\ phase = "build" => \A b \in 0 .. cursor - 1 : Row(b)
  /\ phase \in Made => \A b \in 0 .. n - 1 : Row(b)

LEMMA StartsCounted ==
  ASSUME NEW S, seeds \in Seq(S), n \in Nat, NEW b \in 0 .. n - 1
  PROVE  StartCount(b) = CountIn(FromSet(seeds, b), Len(seeds))
<1>1. b # n /\ Cardinality(FromSet(seeds, b)) = CountIn(FromSet(seeds, b), Len(seeds))
  BY PlacesFinite
<1>2. CountIn(FromSet(seeds, b), Len(seeds)) \in Nat
  <2>1. Len(seeds) \in Nat
    OBVIOUS
  <2>. QED
    BY <2>1, CountSteps
<1>. QED
  BY <1>1, <1>2 DEF StartCount, FromSet

\* The offset prepare gives a boundary: the seeds that start before it.
LEMMA OffsetsCount ==
  ASSUME NEW S, seeds \in Seq(S), Fit(seeds, n), Starts(seeds), n \in Nat
  PROVE  \A b \in 0 .. n : Offsets[b] = CountBefore(seeds, b)
<1>. DEFINE G == [p \in (1 .. n) \X Int |-> p[2] + StartCount(p[1] - 1)]
            Eq(f) == f = [b \in 0 .. n |-> IF b = 0 THEN 0 ELSE f[b - 1] + StartCount(b - 1)]
<1>1. \A b \in 1 .. n : b - 1 \in 0 .. n - 1 /\ StartCount(b - 1) \in Nat
  <2>1. ASSUME NEW b \in 1 .. n PROVE b - 1 \in 0 .. n - 1 /\ StartCount(b - 1) \in Nat
    <3>1. b - 1 \in 0 .. n - 1
      OBVIOUS
    <3>2. Len(seeds) \in Nat
      OBVIOUS
    <3>. QED
      BY <3>1, <3>2, StartsCounted, CountSteps
  <2>. QED
    BY <2>1
<1>2. G \in [(1 .. n) \X Int -> Int]
  BY <1>1
<1>3. PICK g \in [0 .. n -> Int] : IsRecursive(g, n, 0, G)
  <2>. HIDE DEF G
  <2>1. 0 \in Int
    OBVIOUS
  <2>. QED
    BY <1>2, <2>1, RecursionExists
<1>4. Eq(g)
  <2>1. \A k \in 0 .. n : k # 0 => <<k, g[k - 1]>> \in (1 .. n) \X Int
    <3>1. \A k \in 0 .. n : k # 0 => k - 1 \in 0 .. n /\ k \in 1 .. n
      OBVIOUS
    <3>. QED
      BY <1>3, <3>1
  <2>2. \A k \in 0 .. n : k # 0 => G[<<k, g[k - 1]>>] = g[k - 1] + StartCount(k - 1)
    BY <2>1
  <2>3. g = [k \in 0 .. n |-> IF k = 0 THEN 0 ELSE G[<<k, g[k - 1]>>]]
    BY <1>3 DEF IsRecursive
  <2>. HIDE DEF G
  <2>. QED
    BY <2>2, <2>3
<1>. DEFINE f == CHOOSE h : Eq(h)
<1>5. Eq(f)
  BY <1>4
<1>6. Offsets = f
  BY DEF Offsets
<1>. HIDE DEF f, G
<1>7. f[0] = 0 /\ \A b \in 1 .. n : f[b] = f[b - 1] + StartCount(b - 1)
  <2>1. 0 \in 0 .. n /\ \A b \in 1 .. n : b \in 0 .. n /\ b # 0
    OBVIOUS
  <2>. QED
    BY <1>5, <2>1
<1>. HIDE DEF Eq
<1>. DEFINE H == {b \in Nat : f[b] = CountBefore(seeds, b)}
<1>8. 0 \in H
  <2>1. BeforeSet(seeds, 0) = {}
    BY DEF BeforeSet, Fit
  <2>. QED
    BY <1>7, <2>1, FS_EmptySet DEF CountBefore
<1>9. ASSUME NEW b \in 0 .. n - 1, b \in H PROVE b + 1 \in H
  <2>1. b + 1 \in 1 .. n /\ (b + 1) - 1 = b /\ b \in Int
    OBVIOUS
  <2>2. f[b + 1] = f[b] + StartCount(b)
    BY <1>7, <2>1
  <2>3. CountBefore(seeds, b + 1) = CountBefore(seeds, b) + StartCount(b)
    BY <2>1, CountBeforeSteps, StartsCounted
  <2>. QED
    BY <1>9, <2>2, <2>3
<1>10. \A b \in 0 .. n : b \in H
  <2>. HIDE DEF H
  <2>1. 0 \in Int /\ n \in Int
    OBVIOUS
  <2>. QED
    BY <1>8, <1>9, <2>1, InductionTo
<1>. QED
  BY <1>6, <1>10

\* A seed of the sentence, while it is worked on.
LEMMA SeedsAtWork ==
  ASSUME IInv, phase \in Working
  PROVE  /\ input \in Inputs \ Refused /\ seeds \in Seq(Given(input))
         /\ n \in Nat /\ Len(seeds) \in Nat /\ DOMAIN seeds = 1 .. Len(seeds)
         /\ Fit(seeds, n) /\ Starts(seeds)
<1>1. input \in Inputs \ Refused /\ seeds \in Seq(Given(input))
  BY DEF IInv, SeedsInv
<1>2. Fit(seeds, Size[input]) /\ Starts(seeds) /\ n \in Nat
  BY <1>1, GivenFit, GivenSeeds DEF n
<1>. QED
  BY <1>1, <1>2 DEF n

\* What the rows say does not change with anything but the seeds, the counts
\* and the nodes.
LEMMA RowsStay ==
  ASSUME UNCHANGED <<input, seeds>>
  PROVE  /\ n' = n /\ \A b : StartCount(b)' = StartCount(b)
         /\ \A b : StartingAt(seeds, b)' = StartingAt(seeds, b)
         /\ \A b : CountBefore(seeds, b)' = CountBefore(seeds, b)
         /\ \A b : lattice'[b + 3].starts = lattice[b + 3].starts => Row(b)' = Row(b)
<1>1. n' = n /\ \A b : StartCount(b)' = StartCount(b)
  BY DEF n, StartCount
<1>2. /\ \A b : StartingAt(seeds, b)' = StartingAt(seeds, b)
      /\ \A b : CountBefore(seeds, b)' = CountBefore(seeds, b)
  OBVIOUS
<1>. QED
  BY <1>1, <1>2 DEF Row

LEMMA NodesPrepare == IInv /\ NodesInv /\ Prepare => NodesInv'
<1>. SUFFICES ASSUME IInv, NodesInv, Prepare PROVE NodesInv'
  OBVIOUS
<1>1. /\ phase = "prepare" /\ phase' = "bos" /\ UNCHANGED <<input, seeds, lattice>>
      /\ info' = [b \in 0 .. n |->
                    [starts |-> StartCount(b), ends |-> EndCount(b), first |-> Offsets[b]]]
  BY DEF Prepare
<1>2. \A b \in 0 .. n : Offsets[b] = CountBefore(seeds, b)
  BY <1>1, SeedsAtWork, OffsetsCount DEF Working
<1>3. \A b \in 0 .. n : info'[b].starts = StartCount(b) /\ info'[b].first = CountBefore(seeds, b)
  BY <1>1, <1>2
<1>. QED
  BY <1>1, <1>3, RowsStay DEF NodesInv, Made

LEMMA NodesBos == IInv /\ NodesInv /\ MakeBos => NodesInv'
<1>. SUFFICES ASSUME IInv, NodesInv, MakeBos PROVE NodesInv'
  OBVIOUS
<1>1. /\ phase = "bos" /\ phase' = "build" /\ UNCHANGED <<input, seeds, info>> /\ cursor' = 0
  BY DEF MakeBos
<1>2. \A b \in 0 .. n : info[b].starts = StartCount(b) /\ info[b].first = CountBefore(seeds, b)
  BY <1>1 DEF NodesInv, Counted
<1>3. 0 .. cursor' - 1 = {}
  BY <1>1
<1>. QED
  BY <1>1, <1>2, <1>3, RowsStay DEF NodesInv, Made

\* The nodes of a boundary are the slice of the seeds that prepare counted.
LEMMA NodesConstruct == IInv /\ RowsInv /\ NodesInv /\ ConstructSingleBoundary => NodesInv'
<1>. SUFFICES ASSUME IInv, RowsInv, NodesInv, ConstructSingleBoundary PROVE NodesInv'
  OBVIOUS
<1>. DEFINE here == info[cursor]
            new == [i \in 1 .. here.starts |-> seeds[here.first + i]]
<1>1. /\ phase = "build" /\ phase' = "build" /\ UNCHANGED <<input, seeds, info>>
      /\ cursor < n /\ cursor' = cursor + 1
      /\ lattice' = Append(lattice, Room(new, here.ends))
  BY DEF ConstructSingleBoundary
<1>2. /\ n \in Nat /\ cursor \in 0 .. n - 1 /\ Fit(seeds, n) /\ Starts(seeds) /\ Ordered(seeds)
      /\ seeds \in Seq(Given(input))
  BY <1>1, SeedsAtWork DEF IInv, LatticeInv, RowsInv, Working, Checked
<1>3. new = StartingAt(seeds, cursor)
  <2>1. /\ here.starts = CountIn(FromSet(seeds, cursor), Len(seeds))
        /\ here.first = CountBefore(seeds, cursor)
    <3>1. cursor \in 0 .. n
      BY <1>2
    <3>2. here.starts = StartCount(cursor) /\ here.first = CountBefore(seeds, cursor)
      BY <1>1, <3>1 DEF NodesInv, Counted
    <3>. QED
      BY <1>2, <3>2, StartsCounted
  <2>2. cursor \in Int
    BY <1>2
  <2>. QED
    BY <1>2, <2>1, <2>2, OrderedSlice
<1>. HIDE DEF new, here
<1>4. IsSequence(lattice) /\ Len(lattice) = cursor + 2
  BY <1>1 DEF IInv, LatticeInv
<1>5. \A k \in 1 .. cursor + 2 : lattice'[k] = lattice[k]
  BY <1>1, <1>4, Appended
<1>6. lattice'[cursor + 3] = Room(new, here.ends)
  <2>1. (cursor + 2) + 1 = cursor + 3
    BY <1>2
  <2>. QED
    BY <1>1, <1>4, <2>1, Appended
<1>7. ASSUME NEW b \in 0 .. cursor' - 1 PROVE lattice'[b + 3].starts = StartingAt(seeds', b)
  <2>1. CASE b = cursor
    <3>1. lattice'[b + 3].starts = new
      BY <1>6, <2>1 DEF Room
    <3>. QED
      BY <1>1, <1>3, <2>1, <3>1
  <2>2. CASE b # cursor
    <3>1. b \in 0 .. cursor - 1 /\ b + 3 \in 1 .. cursor + 2
      BY <1>1, <1>2, <2>2
    <3>2. lattice[b + 3].starts = StartingAt(seeds, b)
      BY <1>1, <3>1 DEF NodesInv, Row
    <3>. QED
      BY <1>1, <1>5, <3>1, <3>2
  <2>. QED
    BY <2>1, <2>2
<1>8. \A b \in 0 .. n : info'[b].starts = StartCount(b)' /\ info'[b].first = CountBefore(seeds, b)'
  BY <1>1, RowsStay DEF NodesInv, Counted
<1>9. \A b \in 0 .. cursor' - 1 : Row(b)'
  BY <1>7 DEF Row
<1>. QED
  BY <1>1, <1>8, <1>9, RowsStay DEF NodesInv, Made

LEMMA NodesEos == IInv /\ NodesInv /\ MakeEos => NodesInv'
<1>. SUFFICES ASSUME IInv, NodesInv, MakeEos PROVE NodesInv'
  OBVIOUS
<1>1. /\ phase = "build" /\ phase' = "bosends" /\ UNCHANGED <<input, seeds, info>> /\ cursor = n
      /\ lattice' = Append(lattice, Room(<<EosSeed>>, info[n].ends))
  BY DEF MakeEos
<1>2. IsSequence(lattice) /\ Len(lattice) = n + 2 /\ n \in Nat
  BY <1>1, SeedsAtWork DEF IInv, LatticeInv, Working
<1>3. ASSUME NEW b \in 0 .. n - 1 PROVE Row(b)'
  <2>1. b + 3 \in 1 .. n + 2 /\ b \in 0 .. cursor - 1
    BY <1>1, <1>2
  <2>2. lattice'[b + 3] = lattice[b + 3]
    BY <1>1, <1>2, <2>1, Appended
  <2>3. Row(b)
    BY <1>1, <2>1 DEF NodesInv
  <2>. QED
    BY <1>1, <2>2, <2>3, RowsStay
<1>4. \A b \in 0 .. n : info'[b].starts = StartCount(b)' /\ info'[b].first = CountBefore(seeds, b)'
  BY <1>1, RowsStay DEF NodesInv, Counted
<1>. QED
  BY <1>1, <1>3, <1>4, RowsStay DEF NodesInv, Made

\* Pointers are added to boundaries without touching their nodes.
LEMMA NodesKept ==
  ASSUME IInv, NodesInv, UNCHANGED <<input, seeds, info>>, phase \in Made, phase' \in Made,
         \A k \in 1 .. n + 3 : lattice'[k].starts = lattice[k].starts
  PROVE  NodesInv'
<1>1. n \in Nat
  BY SeedsAtWork DEF Made, Working
<1>2. ASSUME NEW b \in 0 .. n - 1 PROVE Row(b)'
  <2>1. b + 3 \in 1 .. n + 3
    BY <1>1
  <2>2. lattice'[b + 3].starts = lattice[b + 3].starts
    BY <2>1
  <2>3. Row(b)
    BY DEF NodesInv
  <2>. QED
    BY <2>2, <2>3, RowsStay
<1>3. \A b \in 0 .. n : info'[b].starts = StartCount(b)' /\ info'[b].first = CountBefore(seeds, b)'
  BY RowsStay DEF NodesInv, Counted, Made
<1>. QED
  BY <1>2, <1>3, RowsStay DEF NodesInv, Made

LEMMA NodesBosEnds == IInv /\ NodesInv /\ FillBosEnds => NodesInv'
<1>. SUFFICES ASSUME IInv, NodesInv, FillBosEnds PROVE NodesInv'
  OBVIOUS
<1>1. phase = "bosends" /\ phase' = "ends" /\ UNCHANGED <<input, seeds, info>>
  BY DEF FillBosEnds
<1>2. PICK first : OneMore(lattice, first, 2, Bos0) /\ OneMore(first, lattice', 3, Bos1)
  BY BosEndsAdded
<1>3. Len(lattice) = n + 3
  BY <1>1 DEF IInv, LatticeInv
<1>4. ASSUME NEW k \in 1 .. n + 3 PROVE lattice'[k].starts = lattice[k].starts
  <2>1. first[k].starts = lattice[k].starts
    BY <1>2, <1>3 DEF OneMore
  <2>. DEFINE after == lattice'
  <2>2. after[k].starts = first[k].starts
    <3>1. OneMore(first, after, 3, Bos1) /\ Len(first) = n + 3
      BY <1>2, <1>3 DEF OneMore
    <3>. HIDE DEF after
    <3>. QED
      BY <3>1 DEF OneMore
  <2>. QED
    BY <2>1, <2>2
<1>. QED
  BY <1>1, <1>4, NodesKept DEF Made

LEMMA NodesEnd == IInv /\ NodesInv /\ FillEnd => NodesInv'
<1>. SUFFICES ASSUME IInv, NodesInv, FillEnd PROVE NodesInv'
  OBVIOUS
<1>1. phase = "ends" /\ phase' = "ends" /\ UNCHANGED <<input, seeds, info>>
  BY DEF FillEnd
<1>2. PICK at, ptr : OneMore(lattice, lattice', at, ptr)
  BY EndAddedOf
<1>3. Len(lattice) = n + 3
  BY <1>1 DEF IInv, LatticeInv
<1>4. \A k \in 1 .. n + 3 : lattice'[k].starts = lattice[k].starts
  BY <1>2, <1>3 DEF OneMore
<1>. QED
  BY <1>1, <1>4, NodesKept DEF Made

LEMMA NodesStep == IInv /\ RowsDone /\ NodesInv /\ [Next]_vars => NodesInv'
<1>. SUFFICES ASSUME IInv, RowsDone, NodesInv, [Next]_vars PROVE NodesInv'
  OBVIOUS
<1>1. CASE Reset \/ SpawnNodes \/ StartCheck \/ CheckSeed \/ Decide
  BY <1>1 DEF NodesInv, Counted, Made, Reset, SpawnNodes, StartCheck, CheckSeed, Decide
<1>2. CASE Prepare
  BY <1>2, NodesPrepare
<1>3. CASE MakeBos
  BY <1>3, NodesBos
<1>4. CASE ConstructSingleBoundary
  BY <1>4, NodesConstruct DEF RowsDone
<1>5. CASE MakeEos
  BY <1>5, NodesEos
<1>6. CASE FillBosEnds
  BY <1>6, NodesBosEnds
<1>7. CASE FillEnd
  BY <1>7, NodesEnd
<1>8. CASE Return
  BY <1>8, NodesKept DEF Return, Made
<1>9. CASE UNCHANGED vars
  <2>1. UNCHANGED <<phase, input, seeds, info, lattice, cursor>>
    BY <1>9 DEF vars
  <2>2. n' = n /\ \A b : Row(b)' = Row(b)
    BY <2>1, RowsStay
  <2>3. /\ \A b : StartCount(b)' = StartCount(b)
        /\ \A b : CountBefore(seeds, b)' = CountBefore(seeds, b)
    BY <2>1, RowsStay
  <2>. QED
    BY <2>1, <2>2, <2>3 DEF NodesInv
<1>. QED
  BY <1>1, <1>2, <1>3, <1>4, <1>5, <1>6, <1>7, <1>8, <1>9 DEF Next, Proceed

LEMMA NodesImplySeeds == IInv /\ RowsDone /\ NodesInv => NodesAreSeeds
<1>. SUFFICES ASSUME IInv, RowsInv, NodesInv, phase = "built", NEW b \in 0 .. n - 1
              PROVE  lattice[b + 3].starts = StartingAt(SeedsUpTo(stage), b)
  BY DEF RowsDone, NodesAreSeeds
<1>1. todo = <<>> /\ phase \in Working
  BY DEF RowsInv, Working, Checked
<1>2. SameRows(seeds, SeedsUpTo(stage))
  BY <1>1, AllSpawned
<1>3. lattice[b + 3].starts = StartingAt(seeds, b)
  BY DEF NodesInv, Made, Row
<1>. QED
  BY <1>2, <1>3 DEF SameRows

\* When analyze returns, the nodes of every boundary are exactly the words that
\* the node creators spawned there for this sentence, in the order of spawning:
\* none of another sentence is left, none is lost by the sort and the slices.
THEOREM NodesSpawned == Spec => []NodesAreSeeds
<1>1. Init => IInv /\ RowsDone /\ NodesInv
  <2>1. Init => NodesInv
    BY DEF Init, NodesInv, Counted, Made
  <2>. QED
    BY <2>1, InitInv, RowsInit DEF RowsDone
<1>2. IInv /\ RowsDone /\ NodesInv /\ [Next]_vars => (IInv /\ RowsDone /\ NodesInv)'
  BY StepInv, RowsStep, NodesStep
<1>3. IInv /\ RowsDone /\ NodesInv => NodesAreSeeds
  BY NodesImplySeeds
<1>. QED
  BY <1>1, <1>2, <1>3, PTL DEF Spec
-----------------------------------------------------------------------------
(* The pointers to the nodes that end at a boundary *)

\* The node of seed i: its boundary and its position among the seeds that start
\* with it.
Node(i) == <<seeds[i].from + 2, CountIn(FromSet(seeds, seeds[i].from), i)>>

\* After c seeds boundary k - 1 has the pointers to the nodes of those seeds
\* that end there, each one once.
EndingSet(k, c) == {i \in 1 .. c : EndOf(i) = k}
Targets(k, c) == {Node(i) : i \in EndingSet(k, c)} \cup (IF k = 3 THEN {Bos1} ELSE {})
Pointers(ends, set) ==
  /\ \A i \in DOMAIN ends : ends[i] \in set
  /\ \A v \in set : \E i \in DOMAIN ends : ends[i] = v
  /\ \A i, j \in DOMAIN ends : ends[i] = ends[j] => i = j
Pointed(k, c) == Pointers(lattice[k].ends, Targets(k, c))
PointersInv ==
  /\ phase = "ends" => \A k \in 3 .. n + 3 : Pointed(k, cursor - 1)
  /\ phase = "built" => \A k \in 3 .. n + 3 : Pointed(k, Len(seeds))

LEMMA PointersStay ==
  ASSUME UNCHANGED <<input, seeds>>
  PROVE  /\ n' = n /\ \A k, c : Targets(k, c)' = Targets(k, c)
         /\ \A k, c : lattice'[k] = lattice[k] => Pointed(k, c)' = Pointed(k, c)
<1>1. n' = n /\ \A k, c : Targets(k, c)' = Targets(k, c)
  BY DEF n, Targets, Node, EndingSet, EndOf
<1>. QED
  BY <1>1 DEF Pointed

\* The nodes of two seeds are two nodes, and none is a BOS node.
LEMMA NodesDiffer ==
  ASSUME IInv, phase \in Working, NEW i \in 1 .. Len(seeds)
  PROVE  /\ Node(i) # Bos1
         /\ \A j \in 1 .. Len(seeds) : Node(i) = Node(j) => i = j
<1>1. /\ Len(seeds) \in Nat /\ DOMAIN seeds = 1 .. Len(seeds) /\ Fit(seeds, n) /\ Starts(seeds) /\ n \in Nat
  BY SeedsAtWork
<1>2. \A j \in 1 .. Len(seeds) : seeds[j].from \in Int /\ 0 <= seeds[j].from
  BY <1>1 DEF Fit, Starts
<1>3. Node(i) # Bos1
  <2>1. seeds[i].from + 2 # 1
    BY <1>2
  <2>. QED
    BY <2>1 DEF Node, Bos1
<1>4. ASSUME NEW j \in 1 .. Len(seeds), Node(i) = Node(j) PROVE i = j
  <2>1. seeds[i].from + 2 = seeds[j].from + 2
    BY <1>4 DEF Node
  <2>2. seeds[i].from = seeds[j].from
    BY <1>2, <2>1
  <2>. DEFINE P == FromSet(seeds, seeds[i].from)
  <2>3. CountIn(P, i) = CountIn(P, j)
    BY <1>4, <2>2 DEF Node
  <2>4. i \in P /\ j \in P
    BY <1>1, <2>2 DEF FromSet
  <2>5. i \in Nat \ {0} /\ j \in Nat \ {0}
    BY <1>1
  <2>. HIDE DEF P
  <2>. QED
    BY <2>3, <2>4, <2>5, CountIsInjective
<1>. QED
  BY <1>3, <1>4

\* fillEnds points to the node of a seed: what it subtracts from the place of
\* the seed is the number of seeds that start before.
LEMMA PointsToNode ==
  ASSUME IInv, RowsInv, NodesInv, phase = "ends", NEW i \in 1 .. Len(seeds)
  PROVE  PointerTo(i) = Node(i)
<1>1. /\ phase \in Working /\ phase \in Checked /\ phase \in Counted
  BY DEF Working, Checked, Counted
<1>2. /\ seeds \in Seq(Given(input)) /\ Starts(seeds) /\ Fit(seeds, n) /\ Ordered(seeds) /\ n \in Nat
      /\ DOMAIN seeds = 1 .. Len(seeds) /\ Len(seeds) \in Nat
  BY <1>1, SeedsAtWork DEF RowsInv
<1>. DEFINE b == seeds[i].from
<1>3. b \in 0 .. n
  BY <1>2 DEF Fit
<1>4. info[b].first = CountBefore(seeds, b)
  <2>. HIDE DEF b
  <2>. QED
    BY <1>1, <1>3 DEF NodesInv
<1>5. i = CountBefore(seeds, b) + CountIn(FromSet(seeds, b), i)
  BY <1>2, OrderedPlace
<1>6. CountBefore(seeds, b) \in Nat /\ CountIn(FromSet(seeds, b), i) \in Nat
  <2>1. i \in Nat
    BY <1>2
  <2>. QED
    BY <1>2, <2>1, PlacesFinite, CountSteps
<1>7. i - info[b].first = CountIn(FromSet(seeds, b), i)
  <2>. HIDE DEF b
  <2>. QED
    BY <1>4, <1>5, <1>6
<1>. QED
  BY <1>7 DEF PointerTo, Node

\* One pointer more.
LEMMA PointerJoins ==
  ASSUME NEW ends, IsSequence(ends), NEW set, Pointers(ends, set), NEW v, v \notin set
  PROVE  Pointers(Append(ends, v), set \cup {v})
<1>. DEFINE more == Append(ends, v)
            m == Len(ends)
<1>1. /\ m \in Nat /\ Len(more) = m + 1 /\ IsSequence(more)
      /\ \A i \in 1 .. m : more[i] = ends[i]
      /\ more[m + 1] = v
  BY Appended
<1>2. DOMAIN ends = 1 .. m /\ DOMAIN more = 1 .. m + 1
  <2>. HIDE DEF more
  <2>. QED
    BY <1>1 DEF IsSequence
<1>3. \A i \in 1 .. m + 1 : i \in 1 .. m \/ i = m + 1
  BY <1>1
<1>4. \A i \in 1 .. m : i \in 1 .. m + 1 /\ i # m + 1
  BY <1>1
<1>5. m + 1 \in 1 .. m + 1
  BY <1>1
<1>. HIDE DEF more, m
<1>6. ASSUME NEW i \in 1 .. m + 1 PROVE more[i] \in set \cup {v}
  BY <1>1, <1>2, <1>3 DEF Pointers
<1>7. ASSUME NEW w \in set \cup {v} PROVE \E i \in 1 .. m + 1 : more[i] = w
  BY <1>1, <1>2, <1>4, <1>5 DEF Pointers
<1>8. ASSUME NEW i \in 1 .. m + 1, NEW j \in 1 .. m + 1, more[i] = more[j] PROVE i = j
  <2>1. CASE i \in 1 .. m /\ j \in 1 .. m
    BY <1>1, <1>2, <1>8, <2>1 DEF Pointers
  <2>2. CASE i = m + 1 /\ j \in 1 .. m
    BY <1>1, <1>2, <1>8, <2>2 DEF Pointers
  <2>3. CASE j = m + 1 /\ i \in 1 .. m
    BY <1>1, <1>2, <1>8, <2>3 DEF Pointers
  <2>. QED
    BY <1>3, <2>1, <2>2, <2>3
<1>. QED
  BY <1>2, <1>6, <1>7, <1>8 DEF Pointers, more

LEMMA TargetsGrow ==
  ASSUME NEW k, NEW c \in Nat
  PROVE  /\ Targets(k, 0) = IF k = 3 THEN {Bos1} ELSE {}
         /\ EndOf(c + 1) = k => Targets(k, c + 1) = Targets(k, c) \cup {Node(c + 1)}
         /\ EndOf(c + 1) # k => Targets(k, c + 1) = Targets(k, c)
<1>1. EndingSet(k, 0) = {}
  BY DEF EndingSet
<1>2. EndOf(c + 1) = k => EndingSet(k, c + 1) = EndingSet(k, c) \cup {c + 1}
  BY DEF EndingSet
<1>3. EndOf(c + 1) # k => EndingSet(k, c + 1) = EndingSet(k, c)
  BY DEF EndingSet
<1>. QED
  BY <1>1, <1>2, <1>3 DEF Targets

LEMMA PointersBos == IInv /\ FillBosEnds => PointersInv'
<1>. SUFFICES ASSUME IInv, FillBosEnds PROVE PointersInv'
  OBVIOUS
<1>1. phase = "bosends" /\ phase' = "ends" /\ UNCHANGED <<input, seeds>> /\ cursor' = 1
  BY DEF FillBosEnds
<1>2. PICK first : OneMore(lattice, first, 2, Bos0) /\ OneMore(first, lattice', 3, Bos1)
  BY BosEndsAdded
<1>. DEFINE after == lattice'
<1>3. /\ Len(lattice) = n + 3 /\ n \in Nat
      /\ \A k \in 1 .. n + 3 : Holds(k, 0)
  BY <1>1, SeedsAtWork DEF IInv, LatticeInv, Working
<1>4. \A k \in 3 .. n + 3 : first[k] = lattice[k] /\ IsSequence(lattice[k].ends) /\ Len(lattice[k].ends) = 0
  <2>1. \A k \in 3 .. n + 3 : k \in 1 .. n + 3 /\ k # 2
    BY <1>3
  <2>. QED
    BY <1>2, <1>3, <2>1 DEF OneMore, Holds
<1>5. \A k \in 3 .. n + 3 : Pointers(lattice[k].ends, {})
  <2>1. ASSUME NEW q, IsSequence(q), Len(q) = 0 PROVE DOMAIN q = {}
    BY <2>1 DEF IsSequence
  <2>. QED
    BY <1>4, <2>1 DEF Pointers
<1>6. ASSUME NEW k \in 3 .. n + 3 PROVE Pointers(after[k].ends, Targets(k, 0))
  <2>1. OneMore(first, after, 3, Bos1) /\ Len(first) = n + 3 /\ k \in 1 .. n + 3
    BY <1>2, <1>3 DEF OneMore
  <2>. HIDE DEF after
  <2>2. CASE k = 3
    <3>1. after[k].ends = Append(lattice[k].ends, Bos1)
      BY <1>4, <2>1, <2>2 DEF OneMore
    <3>2. Pointers(after[k].ends, {} \cup {Bos1})
      BY <1>4, <1>5, <3>1, PointerJoins
    <3>. QED
      BY <2>2, <3>2, TargetsGrow
  <2>3. CASE k # 3
    <3>1. after[k] = lattice[k]
      BY <1>4, <2>1, <2>3 DEF OneMore
    <3>. QED
      BY <1>5, <2>3, <3>1, TargetsGrow
  <2>. QED
    BY <2>2, <2>3
<1>7. cursor' - 1 = 0
  BY <1>1
<1>8. \A k \in 3 .. n' + 3 : Pointers(lattice'[k].ends, Targets(k, cursor - 1)')
  BY <1>1, <1>6, <1>7, PointersStay DEF Targets, Node, EndingSet, EndOf
<1>. QED
  BY <1>1, <1>8 DEF PointersInv, Pointed

LEMMA PointersEnd == IInv /\ RowsInv /\ NodesInv /\ PointersInv /\ FillEnd => PointersInv'
<1>. SUFFICES ASSUME IInv, RowsInv, NodesInv, PointersInv, FillEnd PROVE PointersInv'
  OBVIOUS
<1>1. /\ phase = "ends" /\ phase' = "ends" /\ UNCHANGED <<input, seeds>> /\ cursor' = cursor + 1
      /\ cursor <= Len(seeds)
  BY DEF FillEnd
<1>2. /\ Len(lattice) = n + 3 /\ n \in Nat /\ Len(seeds) \in Nat
      /\ cursor \in 1 .. Len(seeds) + 1
      /\ \A k \in 1 .. n + 3 : Holds(k, Filled(k, cursor - 1))
  BY <1>1, SeedsAtWork DEF IInv, LatticeInv, Working
<1>3. PICK c \in Nat : c + 1 = cursor /\ c = cursor - 1 /\ c + 1 \in 1 .. Len(seeds)
  BY <1>1, <1>2
<1>4. EndOf(c + 1) \in 4 .. n + 3 /\ OneMore(lattice, lattice', EndOf(c + 1), Node(c + 1))
  BY <1>1, <1>3, EndAddedOf, PointsToNode
<1>5. ASSUME NEW k \in 3 .. n + 3 PROVE Pointers(lattice'[k].ends, Targets(k, c + 1))
  <2>1. k \in 1 .. n + 3
    BY <1>2
  <2>2. Pointers(lattice[k].ends, Targets(k, c)) /\ IsSequence(lattice[k].ends)
    BY <1>1, <1>2, <1>3, <2>1 DEF PointersInv, Pointed, Holds
  <2>3. CASE EndOf(c + 1) = k
    <3>1. Node(c + 1) \notin Targets(k, c)
      <4>1. \A i \in 1 .. c : i \in 1 .. Len(seeds) /\ i # c + 1
        BY <1>2, <1>3
      <4>2. Node(c + 1) # Bos1 /\ \A i \in 1 .. c : Node(i) # Node(c + 1)
        BY <1>1, <1>3, <4>1, NodesDiffer DEF Working
      <4>. QED
        BY <4>2 DEF Targets, EndingSet
    <3>2. lattice'[k].ends = Append(lattice[k].ends, Node(c + 1))
      BY <1>4, <2>3 DEF OneMore
    <3>3. Targets(k, c + 1) = Targets(k, c) \cup {Node(c + 1)}
      BY <2>3, TargetsGrow
    <3>. QED
      BY <2>2, <3>1, <3>2, <3>3, PointerJoins
  <2>4. CASE EndOf(c + 1) # k
    <3>1. lattice'[k] = lattice[k]
      BY <1>2, <1>4, <2>1, <2>4 DEF OneMore
    <3>2. Targets(k, c + 1) = Targets(k, c)
      BY <2>4, TargetsGrow
    <3>. QED
      BY <2>2, <3>1, <3>2
  <2>. QED
    BY <2>3, <2>4
<1>6. cursor' - 1 = c + 1
  BY <1>1, <1>3
<1>7. \A k \in 3 .. n' + 3 : Pointers(lattice'[k].ends, Targets(k, cursor - 1)')
  <2>1. ASSUME NEW k PROVE Targets(k, cursor - 1)' = Targets(k, c + 1)
    BY <1>1, <1>6 DEF Targets, Node, EndingSet, EndOf
  <2>2. n' = n
    BY <1>1, PointersStay
  <2>. QED
    BY <1>5, <2>1, <2>2
<1>. QED
  BY <1>1, <1>7 DEF PointersInv, Pointed

LEMMA PointersStep == IInv /\ RowsDone /\ NodesInv /\ PointersInv /\ [Next]_vars => PointersInv'
<1>. SUFFICES ASSUME IInv, RowsDone, NodesInv, PointersInv, [Next]_vars PROVE PointersInv'
  OBVIOUS
<1>1. CASE Reset \/ SpawnNodes \/ StartCheck \/ CheckSeed \/ Decide \/ Prepare \/ MakeBos
           \/ ConstructSingleBoundary \/ MakeEos
  BY <1>1 DEF PointersInv, Reset, SpawnNodes, StartCheck, CheckSeed, Decide, Prepare, MakeBos,
              ConstructSingleBoundary, MakeEos
<1>2. CASE FillBosEnds
  BY <1>2, PointersBos
<1>3. CASE FillEnd
  BY <1>3, PointersEnd DEF RowsDone
<1>4. CASE Return
  <2>1. /\ phase = "ends" /\ phase' = "built" /\ cursor > Len(seeds)
        /\ UNCHANGED <<input, seeds, lattice>>
    BY <1>4 DEF Return
  <2>2. cursor - 1 = Len(seeds)
    BY <2>1, SeedsAtWork DEF IInv, LatticeInv, Working
  <2>3. \A k \in 3 .. n + 3 : Pointers(lattice'[k].ends, Targets(k, Len(seeds)))
    BY <2>1, <2>2 DEF PointersInv, Pointed
  <2>4. n' = n /\ Len(seeds)' = Len(seeds) /\ \A k, c : Targets(k, c)' = Targets(k, c)
    BY <2>1, PointersStay
  <2>5. \A k \in 3 .. n' + 3 : Pointers(lattice'[k].ends, Targets(k, Len(seeds))')
    BY <2>1, <2>3, <2>4 DEF Targets, Node, EndingSet, EndOf
  <2>. QED
    BY <2>1, <2>5 DEF PointersInv, Pointed
<1>5. CASE UNCHANGED vars
  <2>1. UNCHANGED <<phase, input, seeds, lattice, cursor>>
    BY <1>5 DEF vars
  <2>2. n' = n /\ \A k, c : Pointed(k, c)' = Pointed(k, c)
    BY <2>1, PointersStay
  <2>. QED
    BY <2>1, <2>2 DEF PointersInv, Pointed
<1>. QED
  BY <1>1, <1>2, <1>3, <1>4, <1>5 DEF Next, Proceed

LEMMA CountAtMost ==
  ASSUME NEW P, NEW m \in Nat
  PROVE  CountIn(P, m) <= m
<1>1. IsFiniteSet(1 .. m) /\ Cardinality(1 .. m) = m
  <2>1. m \in Int /\ 1 \in Int /\ (IF 1 > m THEN 0 ELSE m - 1 + 1) = m
    OBVIOUS
  <2>. QED
    BY <2>1, FS_Interval
<1>2. UpTo(P, m) \in SUBSET (1 .. m)
  BY DEF UpTo
<1>. QED
  BY <1>1, <1>2, FS_Subset DEF CountIn

\* The nodes of a boundary and the seeds that start there are the same.
LEMMA NodesOfSeeds ==
  ASSUME IInv, RowsInv, NodesInv, phase = "built", NEW b \in 0 .. n - 1
  PROVE  LET q == lattice[b + 3].starts
             P == FromSet(seeds, b)
         IN /\ q \in Seq(Given(input))
            /\ DOMAIN q = 1 .. CountIn(P, Len(seeds))
            /\ \A i \in 1 .. Len(seeds) :
                 i \in P => CountIn(P, i) \in DOMAIN q /\ q[CountIn(P, i)] = seeds[i]
            /\ \A x \in DOMAIN q : \E i \in 1 .. Len(seeds) : i \in P /\ CountIn(P, i) = x
<1>. DEFINE q == StartingAt(seeds, b)
            P == FromSet(seeds, b)
            m == Len(seeds)
<1>1. seeds \in Seq(Given(input)) /\ m \in Nat
  BY SeedsAtWork DEF Working
<1>2. lattice[b + 3].starts = q
  BY DEF NodesInv, Made, Row
<1>3. q \in Seq(Given(input)) /\ Selected(q, seeds, P, m)
  BY <1>1, StartingAtSelects
<1>. HIDE DEF q, P, m
<1>4. \A i \in 1 .. m : i \in P => CountIn(P, i) \in 1 .. CountIn(P, m)
  BY <1>1, CountOfMember
<1>5. \A x \in 1 .. CountIn(P, m) : \E i \in 1 .. m : i \in P /\ CountIn(P, i) = x
  BY <1>1, CountOnto DEF Numbered
<1>. QED
  BY <1>2, <1>3, <1>4, <1>5 DEF Selected, P, m

\* The nodes that end at a boundary, read off the finished lattice, are those of
\* the seeds that end there.
LEMMA TargetsAreNodes ==
  ASSUME IInv, RowsInv, NodesInv, phase = "built", NEW k \in 3 .. n + 3
  PROVE  {v \in {<<b + 2, i>> : b \in 0 .. n - 1, i \in 1 .. Len(seeds)} :
            /\ v[2] \in DOMAIN lattice[v[1] + 1].starts
            /\ lattice[v[1] + 1].starts[v[2]].to + 3 = k}
         = {Node(i) : i \in EndingSet(k, Len(seeds))}
<1>. DEFINE m == Len(seeds)
            words == {<<b + 2, i>> : b \in 0 .. n - 1, i \in 1 .. m}
            EndsThere(v) == /\ v[2] \in DOMAIN lattice[v[1] + 1].starts
                            /\ lattice[v[1] + 1].starts[v[2]].to + 3 = k
<1>1. n \in Nat /\ m \in Nat /\ Fit(seeds, n) /\ Starts(seeds) /\ DOMAIN seeds = 1 .. m
  BY SeedsAtWork DEF Working
<1>2. \A i \in 1 .. m : seeds[i].from \in 0 .. n - 1 /\ i \in FromSet(seeds, seeds[i].from)
  BY <1>1 DEF Fit, FromSet
<1>3. ASSUME NEW i \in 1 .. m, NEW b \in 0 .. n - 1, i \in FromSet(seeds, b)
      PROVE  /\ Node(i) = <<b + 2, CountIn(FromSet(seeds, b), i)>> /\ (b + 2) + 1 = b + 3
             /\ CountIn(FromSet(seeds, b), i) \in DOMAIN lattice[b + 3].starts
             /\ CountIn(FromSet(seeds, b), i) \in 1 .. m
             /\ lattice[b + 3].starts[CountIn(FromSet(seeds, b), i)] = seeds[i]
  <2>1. Node(i) = <<b + 2, CountIn(FromSet(seeds, b), i)>>
    BY <1>3 DEF Node, FromSet
  <2>2. /\ CountIn(FromSet(seeds, b), i) \in DOMAIN lattice[b + 3].starts
        /\ lattice[b + 3].starts[CountIn(FromSet(seeds, b), i)] = seeds[i]
    BY <1>3, NodesOfSeeds
  <2>3. CountIn(FromSet(seeds, b), i) \in 1 .. m
    <3>1. i \in Nat /\ i <= m
      BY <1>1
    <3>2. CountIn(FromSet(seeds, b), i) \in 1 .. CountIn(FromSet(seeds, b), m)
      BY <1>1, <1>3, CountOfMember
    <3>3. CountIn(FromSet(seeds, b), m) <= m /\ CountIn(FromSet(seeds, b), m) \in Nat
      BY <1>1, CountAtMost, CountSteps
    <3>. QED
      BY <1>1, <3>2, <3>3
  <2>4. (b + 2) + 1 = b + 3
    BY <1>1
  <2>. QED
    BY <2>1, <2>2, <2>3, <2>4
<1>4. ASSUME NEW v \in words, EndsThere(v) PROVE \E i \in EndingSet(k, m) : v = Node(i)
  <2>1. PICK b \in 0 .. n - 1, x \in 1 .. m : v = <<b + 2, x>>
    OBVIOUS
  <2>2. v[1] = b + 2 /\ v[2] = x /\ (b + 2) + 1 = b + 3
    BY <1>1, <2>1
  <2>3. x \in DOMAIN lattice[b + 3].starts /\ lattice[b + 3].starts[x].to + 3 = k
    BY <1>4, <2>2
  <2>4. PICK i \in 1 .. m : i \in FromSet(seeds, b) /\ CountIn(FromSet(seeds, b), i) = x
    BY <2>3, NodesOfSeeds
  <2>5. Node(i) = v /\ lattice[b + 3].starts[x] = seeds[i]
    BY <1>3, <2>1, <2>4
  <2>6. i \in EndingSet(k, m)
    BY <2>3, <2>4, <2>5 DEF EndingSet, EndOf
  <2>. QED
    BY <2>5, <2>6
<1>5. ASSUME NEW i \in EndingSet(k, m) PROVE Node(i) \in words /\ EndsThere(Node(i))
  <2>1. i \in 1 .. m /\ seeds[i].to + 3 = k
    BY DEF EndingSet, EndOf
  <2>2. PICK b \in 0 .. n - 1 : b = seeds[i].from /\ i \in FromSet(seeds, b)
    BY <1>2, <2>1
  <2>3. PICK x \in 1 .. m : /\ Node(i) = <<b + 2, x>> /\ (b + 2) + 1 = b + 3
                            /\ x \in DOMAIN lattice[b + 3].starts
                            /\ lattice[b + 3].starts[x] = seeds[i]
    BY <1>3, <2>1, <2>2
  <2>4. Node(i)[1] = b + 2 /\ Node(i)[2] = x
    BY <2>3
  <2>. QED
    BY <2>1, <2>3, <2>4
<1>. QED
  <2>. HIDE DEF words, EndsThere
  <2>1. {v \in words : EndsThere(v)} = {Node(i) : i \in EndingSet(k, m)}
    BY <1>4, <1>5
  <2>. QED
    BY <2>1 DEF words, EndsThere, m

LEMMA PointersImplyEnds == IInv /\ RowsDone /\ NodesInv /\ PointersInv => EndsAreNodes
<1>. SUFFICES ASSUME IInv, RowsInv, NodesInv, PointersInv PROVE EndsAreNodes
  BY DEF RowsDone
<1>. DEFINE Ends(k) == lattice[k].ends
            words == {<<b + 2, i>> : b \in 0 .. n - 1, i \in 1 .. Len(seeds)}
            here(k) == {v \in words : /\ v[2] \in DOMAIN lattice[v[1] + 1].starts
                                      /\ lattice[v[1] + 1].starts[v[2]].to + 3 = k}
<1>1. ASSUME phase = "built", NEW k \in 3 .. n + 3
      PROVE  /\ \A i, j \in DOMAIN Ends(k) : Ends(k)[i] = Ends(k)[j] => i = j
             /\ {Ends(k)[i] : i \in DOMAIN Ends(k)} = here(k) \cup (IF k = 3 THEN {Bos1} ELSE {})
  <2>1. here(k) = {Node(i) : i \in EndingSet(k, Len(seeds))}
    BY <1>1, TargetsAreNodes
  <2>2. Pointers(Ends(k), here(k) \cup (IF k = 3 THEN {Bos1} ELSE {}))
    <3>1. Pointers(Ends(k), Targets(k, Len(seeds)))
      BY <1>1 DEF PointersInv, Pointed
    <3>. HIDE DEF here
    <3>2. Targets(k, Len(seeds)) = here(k) \cup (IF k = 3 THEN {Bos1} ELSE {})
      BY <2>1 DEF Targets
    <3>. QED
      BY <3>1, <3>2
  <2>. HIDE DEF here, Ends
  <2>. QED
    BY <2>2 DEF Pointers
<1>. QED
  BY <1>1, InvImpliesRoom DEF EndsAreNodes

\* When analyze returns, the pointers at a boundary fill the room made for them
\* and are those to the nodes that end there, each one once: the search meets
\* every pair of neighbouring words, and none twice.
THEOREM EndsPoint == Spec => []EndsAreNodes
<1>1. Init => IInv /\ RowsDone /\ NodesInv /\ PointersInv
  <2>1. Init => NodesInv /\ PointersInv
    BY DEF Init, NodesInv, PointersInv, Counted, Made
  <2>. QED
    BY <2>1, InitInv, RowsInit DEF RowsDone
<1>2. IInv /\ RowsDone /\ NodesInv /\ PointersInv /\ [Next]_vars
        => (IInv /\ RowsDone /\ NodesInv /\ PointersInv)'
  BY StepInv, RowsStep, NodesStep, PointersStep
<1>3. IInv /\ RowsDone /\ NodesInv /\ PointersInv => EndsAreNodes
  BY PointersImplyEnds
<1>. QED
  BY <1>1, <1>2, <1>3, PTL DEF Spec
-----------------------------------------------------------------------------
(* The lattice that the search is given *)

\* The ends of the words of q, as the boundaries of module Lattice.
EndsOf(q) == [i \in DOMAIN q |-> q[i].to + 2]

LEMMA BuiltNodes ==
  ASSUME IInv, RowsInv, NodesInv, phase = "built"
  PROVE  /\ AsLattice.n = n /\ DOMAIN AsLattice.nodes = 2 .. n + 1
         /\ \A b \in 0 .. n - 1 : /\ b + 2 \in 2 .. n + 1
                                  /\ AsLattice.nodes[b + 2] = EndsOf(lattice[b + 3].starts)
<1>1. n \in Nat
  BY SeedsAtWork DEF Working
<1>2. ASSUME NEW b \in 0 .. n - 1
      PROVE  b + 2 \in 2 .. n + 1 /\ AsLattice.nodes[b + 2] = EndsOf(lattice[b + 3].starts)
  <2>1. b + 2 \in 2 .. n + 1 /\ (b + 2) + 1 = b + 3
    BY <1>1
  <2>. QED
    BY <2>1 DEF AsLattice, EndsOf
<1>. QED
  BY <1>2 DEF AsLattice

\* Every word ends behind its start, at the latest where the sentence does.
LEMMA BuiltIsLattice ==
  ASSUME IInv, RowsInv, NodesInv, phase = "built"
  PROVE  IsLattice(AsLattice)
<1>. DEFINE l == AsLattice
<1>1. n \in Nat /\ Fit(seeds, n)
  BY SeedsAtWork DEF Working
<1>2. /\ l.n = n /\ DOMAIN l.nodes = 2 .. n + 1
      /\ \A b \in 0 .. n - 1 : l.nodes[b + 2] = EndsOf(lattice[b + 3].starts)
  BY BuiltNodes
<1>. HIDE DEF l
<1>3. ASSUME NEW c \in 2 .. n + 1 PROVE l.nodes[c] \in Seq(c + 1 .. n + 2)
  <2>1. PICK b \in 0 .. n - 1 : c = b + 2
    <3>1. c - 2 \in 0 .. n - 1 /\ c = (c - 2) + 2
      BY <1>1
    <3>. QED
      BY <3>1
  <2>. DEFINE q == lattice[b + 3].starts
  <2>2. /\ q \in Seq(Given(input))
        /\ \A x \in DOMAIN q : \E i \in 1 .. Len(seeds) : i \in FromSet(seeds, b) /\ q[x] = seeds[i]
    BY NodesOfSeeds
  <2>3. l.nodes[c] = EndsOf(q)
    BY <1>2, <2>1
  <2>. HIDE DEF q
  <2>4. ASSUME NEW x \in DOMAIN q PROVE q[x].to + 2 \in c + 1 .. n + 2
    <3>1. PICK i \in DOMAIN seeds : seeds[i].from = b /\ q[x] = seeds[i]
      BY <2>2 DEF FromSet
    <3>2. q[x].to \in b + 1 .. n
      BY <1>1, <3>1 DEF Fit
    <3>3. PICK to \in b + 1 .. n : to = q[x].to
      BY <3>2
    <3>4. to + 2 \in c + 1 .. n + 2
      BY <1>1, <2>1
    <3>. QED
      BY <3>3, <3>4
  <2>5. EndsOf(q) \in [1 .. Len(q) -> c + 1 .. n + 2] /\ Len(q) \in Nat
    <3>1. DOMAIN q = 1 .. Len(q) /\ Len(q) \in Nat
      BY <2>2
    <3>. QED
      BY <2>4, <3>1 DEF EndsOf
  <2>6. \A S, f : \A m \in Nat : f \in [1 .. m -> S] => f \in Seq(S)
    BY SeqDef
  <2>. QED
    BY <2>3, <2>5, <2>6
<1>. QED
  BY <1>1, <1>2, <1>3 DEF IsLattice, l

LEMMA BuiltConnects ==
  ASSUME IInv, RowsInv, PassInv, NodesInv, phase = "built"
  PROVE  IsConnected(AsLattice)
<1>. DEFINE l == AsLattice
<1>1. n \in Nat /\ Fit(seeds, n) /\ DOMAIN seeds = 1 .. Len(seeds)
  BY SeedsAtWork DEF Working
<1>2. n \in ReachedBy(seeds, n)
  BY DEF PassInv, Checked, Reachable
<1>3. l.n = n /\ \A b \in 0 .. n - 1 : l.nodes[b + 2] = EndsOf(lattice[b + 3].starts)
  BY BuiltNodes
<1>4. IsLattice(l)
  BY BuiltIsLattice
<1>. HIDE DEF l
<1>5. HasNodes(l, seeds)
  <2>1. ASSUME NEW i \in DOMAIN seeds
        PROVE  \E k \in DOMAIN l.nodes[seeds[i].from + 2] :
                 l.nodes[seeds[i].from + 2][k] = seeds[i].to + 2
    <3>1. PICK b \in 0 .. n - 1 : b = seeds[i].from
      BY <1>1 DEF Fit
    <3>. DEFINE q == lattice[b + 3].starts
                k == CountIn(FromSet(seeds, b), i)
    <3>2. i \in FromSet(seeds, b) /\ i \in 1 .. Len(seeds)
      BY <1>1, <3>1 DEF FromSet
    <3>3. k \in DOMAIN q /\ q[k] = seeds[i]
      BY <3>2, NodesOfSeeds
    <3>4. l.nodes[seeds[i].from + 2] = EndsOf(q)
      BY <1>3, <3>1
    <3>. HIDE DEF q, k
    <3>. QED
      BY <3>3, <3>4 DEF EndsOf
  <2>. QED
    BY <2>1 DEF HasNodes
<1>. QED
  BY <1>2, <1>3, <1>4, <1>1, <1>5, ReachedConnects DEF l

\* What BeamSearch takes for granted of its lattice holds of every lattice
\* that analyze returns: words go forward and stay inside the sentence, and a
\* chain of them leads from BOS to EOS.
THEOREM SearchCanStart == Spec => []ReadyForSearch
<1>1. Init => IInv /\ RowsDone /\ NodesInv
  <2>1. Init => NodesInv
    BY DEF Init, NodesInv, Counted, Made
  <2>. QED
    BY <2>1, InitInv, RowsInit DEF RowsDone
<1>2. IInv /\ RowsDone /\ NodesInv /\ [Next]_vars => (IInv /\ RowsDone /\ NodesInv)'
  BY StepInv, RowsStep, NodesStep
<1>3. IInv /\ RowsDone /\ NodesInv => ReadyForSearch
  BY BuiltIsLattice, BuiltConnects DEF ReadyForSearch, RowsDone
<1>. QED
  BY <1>1, <1>2, <1>3, PTL DEF Spec

-----------------------------------------------------------------------------
(* The builder keeps the promise of LatticeRequest *)

LEMMA BuiltIsLatticeOf ==
  ASSUME IInv, RowsInv, NodesInv, phase \in Made
  PROVE  AsLattice = Request!LatticeOf(input, SeedsUpTo(stage))
<1>. DEFINE w == SeedsUpTo(stage)
<1>1. n \in Nat /\ n = Size[input]
  BY SeedsAtWork DEF Made, Working, n
<1>2. \A b \in 0 .. n - 1 : lattice[b + 3].starts = StartingAt(w, b)
  <2>1. todo = <<>> /\ phase \in Working
    BY DEF RowsInv, Made, Working, Checked
  <2>2. SameRows(seeds, w)
    BY <2>1, AllSpawned
  <2>3. \A b \in 0 .. n - 1 : lattice[b + 3].starts = StartingAt(seeds, b)
    BY DEF NodesInv, Made, Row
  <2>. HIDE DEF w
  <2>. QED
    BY <2>2, <2>3 DEF SameRows
<1>. HIDE DEF w
<1>3. \A c \in 2 .. n + 1 : lattice[c + 1].starts = StartingAt(w, c - 2)
  <2>1. ASSUME NEW c \in 2 .. n + 1 PROVE lattice[c + 1].starts = StartingAt(w, c - 2)
    <3>1. c - 2 \in 0 .. n - 1 /\ (c - 2) + 3 = c + 1
      BY <1>1
    <3>2. lattice[(c - 2) + 3].starts = StartingAt(w, c - 2)
      BY <1>2, <3>1
    <3>. QED
      BY <3>1, <3>2
  <2>. QED
    BY <2>1
<1>. DEFINE a == [c \in 2 .. n + 1 |->
                    [i \in DOMAIN lattice[c + 1].starts |-> lattice[c + 1].starts[i].to + 2]]
            d == [c \in 2 .. n + 1 |->
                    [i \in DOMAIN StartingAt(w, c - 2) |-> StartingAt(w, c - 2)[i].to + 2]]
<1>4. a = d
  BY <1>3
<1>5. AsLattice = [n |-> n, nodes |-> a]
  BY DEF AsLattice
<1>6. Request!LatticeOf(input, w) = [n |-> n, nodes |-> d]
  BY <1>1 DEF Request!LatticeOf, Request!StartingAt, StartingAt
<1>. QED
  BY <1>4, <1>5, <1>6 DEF w

\* The answer that the phase stands for.
Reply == CASE phase = "idle" -> Idle
           [] phase = "failed" -> Error
           [] phase = "built" -> [kind |-> "lattice", lattice |-> AsLattice]
           [] OTHER -> None

LEMMA RepliesDiffer ==
  /\ Idle # None /\ Error # None
  /\ \A l : [kind |-> "lattice", lattice |-> l] # None
<1>1. Idle.kind = "idle" /\ Error.kind = "error" /\ None.kind = "none"
  BY DEF Idle, Error, None
<1>2. \A l : [kind |-> "lattice", lattice |-> l].kind = "lattice"
  OBVIOUS
<1>. QED
  BY <1>1, <1>2

LEMMA ReplyOfPhase ==
  /\ Reply # None <=> phase \in {"idle", "failed", "built"}
  /\ phase = "failed" => Reply = Error
  /\ phase = "built" => Reply = [kind |-> "lattice", lattice |-> AsLattice]
<1>1. /\ phase = "idle" => Reply = Idle
      /\ phase = "failed" => Reply = Error
      /\ phase = "built" => Reply = [kind |-> "lattice", lattice |-> AsLattice]
      /\ phase \notin {"idle", "failed", "built"} => Reply = None
  BY DEF Reply
<1>. QED
  BY <1>1, RepliesDiffer

\* What LatticeRequest says of a sentence, in terms of the seeds.
LEMMA CoveredIsReached ==
  ASSUME NEW st
  PROVE  Request!Covered(input, Words(input, MakersOf(st))) <=> n \in Reachable(SeedsUpTo(st))
<1>1. SeedsUpTo(st) = Words(input, MakersOf(st))
  BY SeedsAreWords
<1>2. \A q : Request!Covered(input, q) <=> n \in ReachedBy(q, n)
  BY DEF Request!Covered, Request!ReachedBy, ReachedBy, n
<1>. QED
  BY <1>1, <1>2 DEF Reachable

LEMMA AnswerOfSeeds ==
  /\ n \in Reachable(SeedsUpTo(1)) =>
       Request!AnswerTo(input)
         = [kind |-> "lattice", lattice |-> Request!LatticeOf(input, SeedsUpTo(1))]
  /\ n \notin Reachable(SeedsUpTo(1)) /\ n \in Reachable(SeedsUpTo(2)) =>
       Request!AnswerTo(input)
         = [kind |-> "lattice", lattice |-> Request!LatticeOf(input, SeedsUpTo(2))]
  /\ n \notin Reachable(SeedsUpTo(1)) /\ n \notin Reachable(SeedsUpTo(2)) =>
       Request!AnswerTo(input) = Error
<1>. DEFINE known == Request!WordsBy(input, Stage1)
            all == Request!WordsBy(input, Stage1 \o Stage2)
<1>1. /\ SeedsUpTo(1) = known /\ Words(input, MakersOf(1)) = known
      /\ SeedsUpTo(2) = all /\ Words(input, MakersOf(2)) = all
  BY SeedsAreWords DEF Words, MakersOf
<1>2. /\ Request!Covered(input, known) <=> n \in Reachable(SeedsUpTo(1))
      /\ Request!Covered(input, all) <=> n \in Reachable(SeedsUpTo(2))
  BY <1>1, CoveredIsReached
<1>3. Request!AnswerTo(input) =
        CASE Request!Covered(input, known) -> Request!Built(Request!LatticeOf(input, known))
          [] ~Request!Covered(input, known) /\ Request!Covered(input, all) ->
               Request!Built(Request!LatticeOf(input, all))
          [] OTHER -> Request!Error
  BY DEF Request!AnswerTo
<1>4. \A l : Request!Built(l) = [kind |-> "lattice", lattice |-> l]
  BY DEF Request!Built
<1>5. Request!Error = Error
  BY DEF Request!Error, Error
<1>. HIDE DEF known, all
<1>. QED
  BY <1>1, <1>2, <1>3, <1>4, <1>5

LEMMA AnswersRight ==
  ASSUME IInv, RowsInv, PassInv, phase \in Checked, stage = 1 \/ stage = 2
  PROVE  /\ Reachable(seeds) = Reachable(SeedsUpTo(stage))
         /\ n \in Reachable(seeds) =>
              Request!AnswerTo(input)
                = [kind |-> "lattice", lattice |-> Request!LatticeOf(input, SeedsUpTo(stage))]
         /\ n \notin Reachable(seeds) /\ stage = 2 => Request!AnswerTo(input) = Error
<1>1. phase \in Working /\ todo = <<>>
  BY DEF RowsInv, Working, Checked
<1>2. Reachable(seeds) = Reachable(SeedsUpTo(stage))
  BY <1>1, AllSpawned
<1>3. stage = 2 => n \notin Reachable(SeedsUpTo(1))
  BY <1>1 DEF RowsInv
<1>4. CASE stage = 1
  BY <1>2, <1>4, AnswerOfSeeds
<1>5. CASE stage = 2
  BY <1>2, <1>3, <1>5, AnswerOfSeeds
<1>. QED
  BY <1>2, <1>4, <1>5

LEMMA ReplyInit == Init => Request!Init
<1>. SUFFICES ASSUME Init PROVE Request!Init
  OBVIOUS
<1>1. input \in Inputs
  BY InputsAssumption DEF Init
<1>. QED
  BY <1>1 DEF Init, Request!Init, Request!Idle, Idle

\* A sentence that is refused or whose work begins.
LEMMA ReplyAsk == IInv /\ Reset => Request!Ask
<1>. SUFFICES ASSUME IInv, Reset PROVE Request!Ask
  OBVIOUS
<1>1. phase \in {"idle", "built", "failed"} /\ asked < MaxInputs /\ input' \in Inputs
  BY DEF Reset
<1>2. Reply # None
  BY <1>1, ReplyOfPhase
<1>3. Reply' = IF input' \in Refused THEN Error ELSE None
  BY DEF Reset, Reply
<1>4. asked' = asked + 1
  BY DEF Reset
<1>. QED
  BY <1>1, <1>2, <1>3, <1>4 DEF Request!Ask, Request!None, Request!Error, None, Error, Reply

LEMMA ReplyReturn == IInv /\ RowsDone /\ NodesInv /\ Return => Request!Answer
<1>. SUFFICES ASSUME IInv, RowsInv, PassInv, NodesInv, Return PROVE Request!Answer
  BY DEF RowsDone
<1>1. phase = "ends" /\ phase' = "built" /\ UNCHANGED <<input, stage, lattice, asked>>
  BY DEF Return
<1>2. stage = 1 \/ stage = 2
  BY <1>1 DEF RowsInv, Working
<1>3. n \in Reachable(seeds) /\ phase \in Made /\ phase \in Checked
  BY <1>1 DEF PassInv, Checked, Made
<1>4. Request!AnswerTo(input) = [kind |-> "lattice", lattice |-> AsLattice]
  BY <1>2, <1>3, AnswersRight, BuiltIsLatticeOf
<1>5. AsLattice' = AsLattice
  BY <1>1 DEF AsLattice, n
<1>6. Reply = None
  BY <1>1 DEF Reply
<1>7. Reply' = [kind |-> "lattice", lattice |-> AsLattice]
  BY <1>1, <1>5 DEF Reply
<1>8. Reply' # None /\ Reply' = Request!AnswerTo(input)
  BY <1>4, <1>7, RepliesDiffer
<1>. QED
  BY <1>1, <1>6, <1>8 DEF Request!Answer, Request!None, None, Reply

LEMMA ReplyDecide == IInv /\ RowsDone /\ Decide => Request!Answer \/ UNCHANGED Request!vars
<1>. SUFFICES ASSUME IInv, RowsInv, PassInv, Decide
              PROVE  Request!Answer \/ UNCHANGED Request!vars
  BY DEF RowsDone
<1>1. phase = "check" /\ cursor > Len(seeds) /\ UNCHANGED <<input, asked>>
  BY DEF Decide
<1>2. Reply = None
  BY <1>1 DEF Reply
<1>3. (stage = 1 \/ stage = 2) /\ phase \in Checked /\ phase \in Working
  BY <1>1 DEF RowsInv, Checked, Working
<1>4. n \in Nat
  BY <1>3, SeedsAtWork
<1>5. conn[n] <=> n \in Reachable(seeds)
  BY <1>1, <1>4, PassIsDone
<1>6. CASE conn[n] \/ stage = 1
  <2>1. phase' = "prepare" \/ phase' = "spawn"
    BY <1>6 DEF Decide
  <2>2. Reply' = None
    BY <2>1 DEF Reply
  <2>. QED
    BY <1>1, <1>2, <2>2 DEF Request!vars, Reply
<1>7. CASE ~conn[n] /\ stage = 2
  <2>1. phase' = "failed"
    BY <1>7 DEF Decide
  <2>2. Reply' = Error
    BY <2>1 DEF Reply
  <2>3. Request!AnswerTo(input) = Error
    BY <1>3, <1>5, <1>7, AnswersRight
  <2>4. Reply' # None /\ Reply' = Request!AnswerTo(input)
    BY <2>2, <2>3, RepliesDiffer
  <2>. QED
    BY <1>1, <1>2, <2>4 DEF Request!Answer, Request!None, None, Reply
<1>. QED
  BY <1>3, <1>6, <1>7

LEMMA ReplyStep ==
  IInv /\ RowsDone /\ NodesInv /\ [Next]_vars => [Request!Ask \/ Request!Answer]_(Request!vars)
<1>. SUFFICES ASSUME IInv, RowsDone, NodesInv, [Next]_vars
              PROVE  Request!Ask \/ Request!Answer \/ UNCHANGED Request!vars
  OBVIOUS
<1>1. CASE Reset
  BY <1>1, ReplyAsk
<1>2. CASE Return
  BY <1>2, ReplyReturn
<1>3. CASE Decide
  BY <1>3, ReplyDecide
<1>4. CASE SpawnNodes \/ StartCheck \/ CheckSeed \/ Prepare \/ MakeBos
           \/ ConstructSingleBoundary \/ MakeEos \/ FillBosEnds \/ FillEnd
  <2>1. /\ phase \notin {"idle", "failed", "built"} /\ phase' \notin {"idle", "failed", "built"}
        /\ UNCHANGED <<input, asked>>
    BY <1>4 DEF SpawnNodes, StartCheck, CheckSeed, Prepare, MakeBos,
                ConstructSingleBoundary, MakeEos, FillBosEnds, FillEnd
  <2>2. Reply = None /\ Reply' = None
    BY <2>1 DEF Reply
  <2>. QED
    BY <2>1, <2>2 DEF Request!vars, Reply
<1>5. CASE UNCHANGED vars
  <2>1. UNCHANGED <<phase, input, lattice, asked>>
    BY <1>5 DEF vars
  <2>2. AsLattice' = AsLattice
    BY <2>1 DEF AsLattice, n
  <2>3. Reply' = Reply
    BY <2>1, <2>2 DEF Reply
  <2>. QED
    BY <2>1, <2>3 DEF Request!vars, Reply
<1>. QED
  BY <1>1, <1>2, <1>3, <1>4, <1>5 DEF Next, Proceed

\* The builder implements LatticeRequest: every sentence is answered with the
\* lattice of stage 1 if its words cover the sentence, else with that of both
\* stages if those do, and else with an error; nothing is left of the sentences
\* before.
THEOREM RequestKept == Spec => KeepsRequest
<1>1. Init => IInv /\ RowsDone /\ NodesInv
  <2>1. Init => NodesInv
    BY DEF Init, NodesInv, Counted, Made
  <2>. QED
    BY <2>1, InitInv, RowsInit DEF RowsDone
<1>2. IInv /\ RowsDone /\ NodesInv /\ [Next]_vars => (IInv /\ RowsDone /\ NodesInv)'
  BY StepInv, RowsStep, NodesStep
<1>3. Init => Request!Init
  BY ReplyInit
<1>4. IInv /\ RowsDone /\ NodesInv /\ [Next]_vars => [Request!Ask \/ Request!Answer]_(Request!vars)
  BY ReplyStep
<1>. QED
  BY <1>1, <1>2, <1>3, <1>4, PTL DEF Spec, KeepsRequest, Request!Spec
-----------------------------------------------------------------------------
(* The bytes of a text *)

Chars == DOMAIN Bytes
Octets == 0 .. 255

\* x is how y begins.
Begins(x, y) == Len(x) <= Len(y) /\ \A i \in 1 .. Len(x) : y[i] = x[i]

LEMMA BytesOfCharacter ==
  ASSUME NEW c \in Chars
  PROVE  Bytes[c] \in Seq(Octets) /\ Len(Bytes[c]) \in Nat \ {0} /\ Bytes[c][1] \in Octets
<1>1. Bytes[c] \in Seq(Octets) \ {<<>>}
  BY DictionaryAssumption DEF Chars, Octets
<1>. QED
  BY <1>1

\* The first byte of a character tells how many bytes it is.
LEMMA FirstByteTells ==
  ASSUME NEW c \in Chars
  PROVE  Len(Bytes[c]) = Announced(Bytes[c][1])
<1>1. Codepoint(Bytes[c], 1).utf8Length = Len(Bytes[c])
  BY CharactersAssumption DEF Chars
<1>2. Codepoint(Bytes[c], 1).utf8Length \in {0, Announced(Bytes[c][1])}
  BY DEF Codepoint
<1>. QED
  BY <1>1, <1>2, BytesOfCharacter

\* So behind o bytes of a text only one character can be read.
ReadAt(x, o, c) == \A i \in 1 .. Len(Bytes[c]) : x[o + i] = Bytes[c][i]
LEMMA OneCharacterThere ==
  ASSUME NEW c \in Chars, NEW d \in Chars, NEW x, NEW o \in Nat, ReadAt(x, o, c), ReadAt(x, o, d)
  PROVE  c = d
<1>1. /\ Bytes[c] \in Seq(Octets) /\ Len(Bytes[c]) \in Nat \ {0}
      /\ Bytes[d] \in Seq(Octets) /\ Len(Bytes[d]) \in Nat \ {0}
  BY BytesOfCharacter
<1>2. Bytes[c][1] = x[o + 1] /\ Bytes[d][1] = x[o + 1]
  BY <1>1 DEF ReadAt
<1>3. Len(Bytes[c]) = Len(Bytes[d])
  BY <1>2, FirstByteTells
<1>4. Bytes[c] = Bytes[d]
  <2>1. \A i \in 1 .. Len(Bytes[c]) : Bytes[c][i] = Bytes[d][i]
    BY <1>3 DEF ReadAt
  <2>. QED
    BY <1>1, <1>3, <2>1
<1>. QED
  BY <1>4, DictionaryAssumption DEF Chars

LEMMA SpellingGrows ==
  ASSUME NEW w \in Seq(Chars)
  PROVE  /\ Spelling(w) \in Seq(Octets)
         /\ \A c \in Chars : Spelling(Append(w, c)) = Spelling(w) \o Bytes[c]
<1>. DEFINE b(v) == [i \in DOMAIN v |-> Bytes[v[i]]]
<1>1. b(w) \in Seq(Seq(Octets))
  <2>1. \A i \in 1 .. Len(w) : Bytes[w[i]] \in Seq(Octets)
    BY BytesOfCharacter
  <2>. QED
    BY <2>1
<1>2. ASSUME NEW c \in Chars PROVE b(Append(w, c)) = Append(b(w), Bytes[c])
  <2>1. b(Append(w, c)) \in [1 .. Len(w) + 1 -> {Bytes[x] : x \in Chars}]
    OBVIOUS
  <2>2. Append(b(w), Bytes[c]) \in [1 .. Len(w) + 1 -> {Bytes[x] : x \in Chars}]
    <3>. DEFINE S == {Bytes[x] : x \in Chars}
    <3>1. b(w) \in Seq(S) /\ Len(b(w)) = Len(w) /\ Bytes[c] \in S
      OBVIOUS
    <3>. HIDE DEF b, S
    <3>2. Append(b(w), Bytes[c]) \in Seq(S) /\ Len(Append(b(w), Bytes[c])) = Len(w) + 1
      BY <3>1
    <3>3. Append(b(w), Bytes[c]) \in [1 .. Len(w) + 1 -> S]
      BY <3>2, LenProperties
    <3>. QED
      BY <3>3 DEF S
  <2>3. \A i \in 1 .. Len(w) + 1 : b(Append(w, c))[i] = Append(b(w), Bytes[c])[i]
    OBVIOUS
  <2>. HIDE DEF b
  <2>. QED
    BY <2>1, <2>2, <2>3
<1>3. Spelling(w) = FlattenSeq(b(w)) /\ \A c : Spelling(Append(w, c)) = FlattenSeq(b(Append(w, c)))
  BY DEF Spelling
<1>. HIDE DEF b
<1>4. ASSUME NEW c \in Chars
      PROVE  FlattenSeq(b(w)) \in Seq(Octets) /\ FlattenSeq(Append(b(w), Bytes[c])) = FlattenSeq(b(w)) \o Bytes[c]
  <2>1. Bytes[c] \in Seq(Octets)
    BY BytesOfCharacter
  <2>. QED
    BY <1>1, <2>1, FlattenOneMore
<1>5. FlattenSeq(b(w)) \in Seq(Octets)
  BY <1>1, FlattenMembers
<1>. QED
  BY <1>2, <1>3, <1>4, <1>5

LEMMA SpellingOfNone == Spelling(<<>>) = <<>>
<1>1. [i \in DOMAIN <<>> |-> Bytes[<<>>[i]]] = <<>>
  OBVIOUS
<1>2. FlattenSeq(<<>>) = <<>>
  BY DEF FlattenSeq
<1>. QED
  BY <1>1, <1>2 DEF Spelling

\* A part of a text from its beginning, and one character more.
LEMMA PrefixGrows ==
  ASSUME NEW w \in Seq(Chars), NEW k \in 0 .. Len(w) - 1
  PROVE  /\ SubSeq(w, 1, k) \in Seq(Chars) /\ Len(SubSeq(w, 1, k)) = k
         /\ w[k + 1] \in Chars
         /\ SubSeq(w, 1, k + 1) = Append(SubSeq(w, 1, k), w[k + 1])
         /\ Spelling(SubSeq(w, 1, k + 1)) = Spelling(SubSeq(w, 1, k)) \o Bytes[w[k + 1]]
<1>1. SubSeq(w, 1, k) \in Seq(Chars) /\ Len(SubSeq(w, 1, k)) = k /\ w[k + 1] \in Chars
  OBVIOUS
<1>2. SubSeq(w, 1, k + 1) = Append(SubSeq(w, 1, k), w[k + 1])
  <2>1. k + 1 \in 1 .. Len(w) /\ k \in Nat
    OBVIOUS
  <2>2. SubSeq(w, 1, k + 1) \in Seq(Chars) /\ Len(SubSeq(w, 1, k + 1)) = k + 1
    OBVIOUS
  <2>3. \A i \in 1 .. k + 1 : SubSeq(w, 1, k + 1)[i] = Append(SubSeq(w, 1, k), w[k + 1])[i]
    OBVIOUS
  <2>4. Append(SubSeq(w, 1, k), w[k + 1]) \in Seq(Chars) /\ Len(Append(SubSeq(w, 1, k), w[k + 1])) = k + 1
    BY <1>1
  <2>. QED
    BY <2>2, <2>3, <2>4
<1>. QED
  BY <1>1, <1>2, SpellingGrows

LEMMA BeginsConcat ==
  ASSUME NEW x \in Seq(Octets), NEW y \in Seq(Octets), NEW z, Begins(x \o y, z), Len(z) \in Nat
  PROVE  Begins(x, z) /\ \A i \in 1 .. Len(y) : z[Len(x) + i] = y[i]
<1>1. /\ Len(x) \in Nat /\ Len(y) \in Nat /\ Len(x \o y) = Len(x) + Len(y)
      /\ \A i \in 1 .. Len(x) : (x \o y)[i] = x[i]
  BY ConcatProperties
<1>2. ASSUME NEW i \in 1 .. Len(y) PROVE (x \o y)[Len(x) + i] = y[i] /\ Len(x) + i \in 1 .. Len(x \o y)
  <2>1. Len(x) + i \in 1 .. Len(x) + Len(y) /\ Len(x) + i > Len(x) /\ (Len(x) + i) - Len(x) = i
    BY <1>1
  <2>. QED
    BY <1>1, <2>1, ConcatProperties
<1>3. Len(x) <= Len(x \o y) /\ \A i \in 1 .. Len(x) : i \in 1 .. Len(x \o y)
  BY <1>1
<1>. DEFINE xy == x \o y
<1>4. Len(xy) <= Len(z) /\ \A i \in 1 .. Len(xy) : z[i] = xy[i]
  BY DEF Begins
<1>5. Begins(x, z)
  <2>1. Len(xy) \in Nat
    BY <1>1
  <2>2. Len(x) <= Len(xy) /\ (\A i \in 1 .. Len(x) : i \in 1 .. Len(xy) /\ xy[i] = x[i])
    BY <1>1, <1>3
  <2>. HIDE DEF xy
  <2>. QED
    BY <1>1, <1>4, <2>1, <2>2 DEF Begins
<1>6. ASSUME NEW i \in 1 .. Len(y) PROVE z[Len(x) + i] = y[i]
  BY <1>2, <1>4
<1>. QED
  BY <1>5, <1>6

LEMMA BeginsWithConcat ==
  ASSUME NEW x \in Seq(Octets), NEW y \in Seq(Octets)
  PROVE  Begins(x, x \o y) /\ \A z : Begins(z, x) /\ Len(z) \in Nat => Begins(z, x \o y)
<1>1. /\ Len(x) \in Nat /\ Len(y) \in Nat /\ Len(x \o y) = Len(x) + Len(y)
      /\ \A i \in 1 .. Len(x) : (x \o y)[i] = x[i]
  BY ConcatProperties
<1>. QED
  BY <1>1 DEF Begins

\* A part of a text from its beginning is spelled as the spelling begins.
LEMMA SpellingBegins ==
  ASSUME NEW d \in Seq(Chars), NEW j \in 0 .. Len(d)
  PROVE  Begins(Spelling(SubSeq(d, 1, j)), Spelling(d))
<1>. DEFINE sp(k) == Spelling(SubSeq(d, 1, k))
            H == {k \in Nat : Begins(sp(j), sp(k))}
<1>1. \A k \in 0 .. Len(d) : sp(k) \in Seq(Octets) /\ Len(sp(k)) \in Nat
  <2>1. ASSUME NEW k \in 0 .. Len(d) PROVE SubSeq(d, 1, k) \in Seq(Chars)
    OBVIOUS
  <2>2. ASSUME NEW k \in 0 .. Len(d) PROVE sp(k) \in Seq(Octets)
    BY <2>1, SpellingGrows
  <2>. QED
    BY <2>2
<1>2. j \in H
  BY <1>1 DEF Begins
<1>3. ASSUME NEW k \in j .. Len(d) - 1, k \in H PROVE k + 1 \in H
  <2>1. k \in 0 .. Len(d) - 1 /\ k \in 0 .. Len(d) /\ k + 1 \in Nat
    OBVIOUS
  <2>2. sp(k + 1) = sp(k) \o Bytes[d[k + 1]] /\ Bytes[d[k + 1]] \in Seq(Octets)
    BY <2>1, PrefixGrows, BytesOfCharacter
  <2>3. Begins(sp(j), sp(k)) /\ sp(k) \in Seq(Octets) /\ Len(sp(j)) \in Nat
    BY <1>1, <1>3, <2>1
  <2>4. Begins(sp(j), sp(k) \o Bytes[d[k + 1]])
    <3>. HIDE DEF sp
    <3>. QED
      BY <2>2, <2>3, BeginsWithConcat
  <2>. HIDE DEF sp
  <2>. QED
    BY <2>1, <2>2, <2>4
<1>4. Len(d) \in H
  <2>1. j \in Int /\ Len(d) \in Int /\ Len(d) \in j .. Len(d)
    OBVIOUS
  <2>. HIDE DEF H
  <2>2. \A k \in j .. Len(d) : k \in H
    BY <1>2, <1>3, <2>1, InductionTo
  <2>. QED
    BY <2>1, <2>2
<1>5. SubSeq(d, 1, Len(d)) = d
  OBVIOUS
<1>. QED
  BY <1>4, <1>5

\* A text is spelled as the beginning of another one only if it is the beginning.
LEMMA SpellingTells ==
  ASSUME NEW d \in Seq(Chars), NEW w \in Seq(Chars), Begins(Spelling(w), Spelling(d))
  PROVE  Len(w) <= Len(d) /\ SubSeq(d, 1, Len(w)) = w
<1>. DEFINE Same(k) == k <= Len(d) /\ SubSeq(d, 1, k) = SubSeq(w, 1, k)
            H == {k \in Nat : Same(k)}
<1>1. Len(d) \in Nat /\ Len(w) \in Nat /\ Spelling(d) \in Seq(Octets) /\ Len(Spelling(d)) \in Nat
  <2>1. Spelling(d) \in Seq(Octets)
    BY SpellingGrows
  <2>. QED
    BY <2>1
<1>2. 0 \in H
  <2>1. SubSeq(d, 1, 0) = <<>> /\ SubSeq(w, 1, 0) = <<>>
    OBVIOUS
  <2>. QED
    BY <1>1, <2>1
<1>3. ASSUME NEW k \in 0 .. Len(w) - 1, k \in H PROVE k + 1 \in H
  <2>. DEFINE x == SubSeq(w, 1, k)
              c == w[k + 1]
              s == Spelling(d)
  <2>1. /\ k \in Nat /\ k + 1 \in Nat /\ k + 1 \in 0 .. Len(w)
        /\ k <= Len(d) /\ SubSeq(d, 1, k) = x
    BY <1>1, <1>3
  <2>2. /\ x \in Seq(Chars) /\ c \in Chars /\ SubSeq(w, 1, k + 1) = Append(x, c)
        /\ Spelling(SubSeq(w, 1, k + 1)) = Spelling(x) \o Bytes[c]
    BY PrefixGrows
  <2>3. /\ Spelling(x) \in Seq(Octets) /\ Len(Spelling(x)) \in Nat
        /\ Bytes[c] \in Seq(Octets) /\ Len(Bytes[c]) \in Nat \ {0}
    <3>. HIDE DEF x, c
    <3>1. Spelling(x) \in Seq(Octets)
      BY <2>2, SpellingGrows
    <3>2. Bytes[c] \in Seq(Octets) /\ Len(Bytes[c]) \in Nat \ {0}
      BY <2>2, BytesOfCharacter
    <3>. QED
      BY <3>1, <3>2
  <2>4. Begins(Spelling(x) \o Bytes[c], s)
    <3>1. Begins(Spelling(SubSeq(w, 1, k + 1)), Spelling(w))
      BY <2>1, SpellingBegins
    <3>2. Spelling(w) \in Seq(Octets) /\ Spelling(SubSeq(w, 1, k + 1)) \in Seq(Octets)
      <4>1. SubSeq(w, 1, k + 1) \in Seq(Chars)
        BY <2>1
      <4>. QED
        BY <4>1, SpellingGrows
    <3>3. Len(Spelling(w)) \in Nat /\ Len(Spelling(SubSeq(w, 1, k + 1))) \in Nat
      BY <3>2
    <3>4. Begins(Spelling(SubSeq(w, 1, k + 1)), s)
      <4>. HIDE DEF s, x, c
      <4>. QED
        BY <1>1, <3>1, <3>3 DEF Begins, s
    <3>. QED
      BY <2>2, <3>4
  <2>5. Len(Spelling(x)) + Len(Bytes[c]) <= Len(s)
    <3>. HIDE DEF x, c, s
    <3>1. Len(Spelling(x) \o Bytes[c]) = Len(Spelling(x)) + Len(Bytes[c])
      BY <2>3, ConcatProperties
    <3>. QED
      BY <2>4, <3>1 DEF Begins
  <2>6. ReadAt(s, Len(Spelling(x)), c)
    <3>. HIDE DEF x, c, s
    <3>. QED
      BY <1>1, <2>3, <2>4, BeginsConcat DEF s, ReadAt
  <2>7. k < Len(d)
    <3>1. CASE k = Len(d)
      <4>1. x = d
        BY <2>1, <3>1
      <4>2. Len(Spelling(x)) + Len(Bytes[c]) <= Len(Spelling(x))
        BY <2>5, <4>1
      <4>. HIDE DEF x, c
      <4>. QED
        BY <2>3, <4>2
    <3>. QED
      BY <1>1, <2>1, <3>1
  <2>8. k \in 0 .. Len(d) - 1 /\ k + 1 \in 0 .. Len(d) /\ k + 1 <= Len(d)
    BY <1>1, <2>1, <2>7
  <2>. DEFINE e == d[k + 1]
  <2>9. /\ e \in Chars /\ SubSeq(d, 1, k + 1) = Append(x, e)
        /\ Spelling(SubSeq(d, 1, k + 1)) = Spelling(x) \o Bytes[e]
        /\ Bytes[e] \in Seq(Octets)
    BY <2>1, <2>8, PrefixGrows, BytesOfCharacter
  <2>10. Begins(Spelling(x) \o Bytes[e], s)
    BY <2>8, <2>9, SpellingBegins
  <2>11. ReadAt(s, Len(Spelling(x)), e)
    <3>. HIDE DEF x, c, s, e
    <3>. QED
      BY <1>1, <2>3, <2>9, <2>10, BeginsConcat DEF s, ReadAt
  <2>12. c = e
    <3>. HIDE DEF x, c, s, e
    <3>. QED
      BY <2>2, <2>3, <2>6, <2>9, <2>11, OneCharacterThere
  <2>. QED
    BY <2>1, <2>2, <2>8, <2>9, <2>12
<1>4. Len(w) \in H
  <2>1. 0 \in Int /\ Len(w) \in Int /\ Len(w) \in 0 .. Len(w)
    BY <1>1
  <2>. HIDE DEF H
  <2>2. \A k \in 0 .. Len(w) : k \in H
    BY <1>2, <1>3, <2>1, InductionTo
  <2>. QED
    BY <2>1, <2>2
<1>5. SubSeq(w, 1, Len(w)) = w
  OBVIOUS
<1>. QED
  BY <1>4, <1>5

\* So texts of the same spelling are the same.
LEMMA SameSpelling ==
  ASSUME NEW v \in Seq(Chars), NEW w \in Seq(Chars), Spelling(w) = Spelling(v)
  PROVE  w = v
<1>1. Spelling(w) \in Seq(Octets)
  BY SpellingGrows
<1>2. Begins(Spelling(w), Spelling(w))
  BY <1>1 DEF Begins
<1>3. Begins(Spelling(w), Spelling(v)) /\ Begins(Spelling(v), Spelling(w))
  BY <1>2
<1>4. Len(w) <= Len(v) /\ SubSeq(v, 1, Len(w)) = w
  BY <1>3, SpellingTells
<1>5. Len(v) <= Len(w) /\ SubSeq(w, 1, Len(v)) = v
  BY <1>3, SpellingTells
<1>6. Len(v) = Len(w) /\ SubSeq(v, 1, Len(v)) = v
  <2>1. Len(v) \in Nat /\ Len(w) \in Nat
    OBVIOUS
  <2>2. SubSeq(v, 1, Len(v)) = v
    BY <2>1
  <2>3. Len(w) <= Len(v) /\ Len(v) <= Len(w)
    BY <1>4, <1>5
  <2>. QED
    BY <2>1, <2>2, <2>3
<1>. QED
  BY <1>4, <1>6

\* And the trie holds a text as a leaf if it is a word, and as a node if it is
\* the beginning of a word.
LEMMA LeafTells ==
  ASSUME NEW w \in Seq(Chars)
  PROVE  Spelling(w) \in Leaves <=> w \in DOMAIN Dictionary
<1>1. ASSUME NEW v \in DOMAIN Dictionary, Spelling(w) = Spelling(v) PROVE w = v
  <2>1. v \in Seq(Chars)
    BY DictionaryAssumption DEF Chars
  <2>. QED
    BY <1>1, <2>1, SameSpelling
<1>. QED
  BY <1>1 DEF Leaves

NodeOf(k) == {SubSeq(k, 1, i) : i \in 1 .. Len(k)}

LEMMA NodeTells ==
  ASSUME NEW w \in Seq(Chars)
  PROVE  Spelling(w) \in Trie <=> w = <<>> \/ \E d \in DOMAIN Dictionary : IsPrefix(w, d)
<1>1. Spelling(w) \in Seq(Octets) /\ Len(Spelling(w)) \in Nat /\ Len(w) \in Nat
  <2>1. Spelling(w) \in Seq(Octets)
    BY SpellingGrows
  <2>. QED
    BY <2>1
<1>2. ASSUME NEW d \in DOMAIN Dictionary
      PROVE  /\ Begins(Spelling(w), Spelling(d)) <=> IsPrefix(w, d)
             /\ Spelling(w) # <<>> => (Begins(Spelling(w), Spelling(d)) <=> Spelling(w) \in NodeOf(Spelling(d)))
             /\ Spelling(w) \in NodeOf(Spelling(d)) => Spelling(w) # <<>>
  <2>1. d \in Seq(Chars) /\ Len(d) \in Nat
    BY DictionaryAssumption DEF Chars
  <2>2. Spelling(d) \in Seq(Octets) /\ Len(Spelling(d)) \in Nat
    <3>1. Spelling(d) \in Seq(Octets)
      BY <2>1, SpellingGrows
    <3>. QED
      BY <3>1
  <2>3. SubSeq(w, 1, Len(w)) = w
    BY <1>1
  <2>4. ASSUME Begins(Spelling(w), Spelling(d)) PROVE IsPrefix(w, d)
    BY <2>1, <2>3, <2>4, SpellingTells DEF IsPrefix
  <2>5. ASSUME IsPrefix(w, d) PROVE Begins(Spelling(w), Spelling(d))
    <3>1. Len(w) \in 0 .. Len(d) /\ SubSeq(d, 1, Len(w)) = w
      BY <1>1, <2>1, <2>3, <2>5 DEF IsPrefix
    <3>. QED
      BY <2>1, <3>1, SpellingBegins
  <2>. DEFINE x == Spelling(w)
              k == Spelling(d)
  <2>6. ASSUME x # <<>>, Begins(x, k) PROVE x \in NodeOf(k)
    <3>. HIDE DEF x, k
    <3>1. Len(x) \in 1 .. Len(k)
      BY <1>1, <2>2, <2>6 DEF Begins, x, k
    <3>2. x = SubSeq(k, 1, Len(x))
      <4>1. x \in Seq(Octets) /\ k \in Seq(Octets)
        BY <1>1, <2>2 DEF x, k
      <4>2. SubSeq(k, 1, Len(x)) \in Seq(Octets) /\ Len(SubSeq(k, 1, Len(x))) = Len(x)
        BY <3>1, <4>1
      <4>3. \A i \in 1 .. Len(x) : SubSeq(k, 1, Len(x))[i] = x[i]
        BY <2>6, <3>1, <4>1 DEF Begins
      <4>. QED
        BY <4>1, <4>2, <4>3
    <3>. QED
      BY <3>1, <3>2 DEF NodeOf
  <2>7. ASSUME x \in NodeOf(k) PROVE x # <<>> /\ Begins(x, k)
    <3>. HIDE DEF x, k
    <3>1. PICK i \in 1 .. Len(k) : x = SubSeq(k, 1, i)
      BY <2>7 DEF NodeOf
    <3>2. k \in Seq(Octets)
      BY <2>2 DEF k
    <3>3. Len(x) = i /\ \A j \in 1 .. i : x[j] = k[j]
      BY <3>1, <3>2
    <3>4. i <= Len(k) /\ i # 0
      BY <3>1, <3>2
    <3>. QED
      BY <3>3, <3>4 DEF Begins
  <2>. QED
    BY <2>4, <2>5, <2>6, <2>7
<1>3. Spelling(w) \in Trie <=> Spelling(w) = <<>> \/ \E d \in DOMAIN Dictionary : Spelling(w) \in NodeOf(Spelling(d))
  BY DEF Trie, Leaves, NodeOf
<1>4. Spelling(w) = <<>> <=> w = <<>>
  <2>1. ASSUME w # <<>> PROVE Spelling(w) # <<>>
    <3>1. Len(w) - 1 \in 0 .. Len(w) - 1 /\ (Len(w) - 1) + 1 = Len(w) /\ SubSeq(w, 1, Len(w)) = w
      BY <1>1, <2>1
    <3>. DEFINE x == Spelling(SubSeq(w, 1, Len(w) - 1))
                y == Bytes[w[Len(w)]]
    <3>2. SubSeq(w, 1, Len(w) - 1) \in Seq(Chars) /\ w[Len(w)] \in Chars /\ Spelling(w) = x \o y
      <4>. DEFINE k == Len(w) - 1
      <4>1. /\ SubSeq(w, 1, k) \in Seq(Chars) /\ w[k + 1] \in Chars
            /\ Spelling(SubSeq(w, 1, k + 1)) = Spelling(SubSeq(w, 1, k)) \o Bytes[w[k + 1]]
        <5>1. k \in 0 .. Len(w) - 1
          BY <3>1
        <5>. HIDE DEF k
        <5>. QED
          BY <5>1, PrefixGrows
      <4>. QED
        BY <3>1, <4>1
    <3>3. x \in Seq(Octets) /\ y \in Seq(Octets) /\ Len(y) # 0
      BY <3>2, SpellingGrows, BytesOfCharacter
    <3>. HIDE DEF x, y
    <3>4. Len(x \o y) = Len(x) + Len(y) /\ Len(x) \in Nat /\ Len(y) \in Nat
      BY <3>3, ConcatProperties
    <3>5. Len(x \o y) # 0
      BY <3>3, <3>4
    <3>. QED
      BY <3>2, <3>5
  <2>. QED
    BY <2>1, SpellingOfNone
<1>5. w = <<>> => \A d \in DOMAIN Dictionary : IsPrefix(w, d)
  <2>1. ASSUME NEW d \in DOMAIN Dictionary, w = <<>> PROVE IsPrefix(w, d)
    <3>1. d \in Seq(Chars)
      BY DictionaryAssumption DEF Chars
    <3>2. Len(d) \in Nat /\ SubSeq(d, 1, 0) = <<>> /\ SubSeq(w, 1, 0) = <<>> /\ Len(w) = 0
      BY <2>1, <3>1
    <3>. QED
      BY <3>2 DEF IsPrefix
  <2>. QED
    BY <2>1
<1>. QED
  BY <1>2, <1>3, <1>4, <1>5

-----------------------------------------------------------------------------
(* What a traversal tells *)

LEMMA TrieIsBytes == <<>> \in Trie /\ Trie \subseteq Seq(Octets)
<1>1. ASSUME NEW d \in DOMAIN Dictionary PROVE NodeOf(Spelling(d)) \subseteq Seq(Octets)
  <2>1. d \in Seq(Chars)
    BY DictionaryAssumption DEF Chars
  <2>2. Spelling(d) \in Seq(Octets)
    BY <2>1, SpellingGrows
  <2>. QED
    BY <2>2 DEF NodeOf
<1>2. <<>> \in Seq(Octets)
  OBVIOUS
<1>3. Trie = {<<>>} \cup UNION {NodeOf(k) : k \in Leaves}
  BY DEF Trie, NodeOf
<1>. QED
  BY <1>1, <1>2, <1>3 DEF Leaves

Statuses == {"Ok", "NoLeaf", "NoNode"}
Places == [at : Trie, status : Statuses]
Root == [at |-> <<>>, status |-> "NoLeaf"]

\* A step goes over the whole character if the trie holds what is read then,
\* and tells whether it is a word; else it says that there is no such node.
LEMMA StepTells ==
  ASSUME NEW at \in Trie, NEW c \in Chars
  PROVE  /\ Step(at, c) \in Places
         /\ at \o Bytes[c] \in Trie =>
              Step(at, c) = [at     |-> at \o Bytes[c],
                             status |-> IF at \o Bytes[c] \in Leaves THEN "Ok" ELSE "NoLeaf"]
         /\ at \o Bytes[c] \notin Trie => Step(at, c).status = "NoNode"
<1>. DEFINE B == Bytes[c]
            L == Len(B)
            Fits(i) == at \o SubSeq(B, 1, i) \in Trie
            matched == {i \in 0 .. L : Fits(i)}
            upTo == CHOOSE i \in matched : \A j \in matched : j <= i
            to == at \o SubSeq(B, 1, upTo)
<1>1. at \in Seq(Octets) /\ B \in Seq(Octets) /\ L \in Nat
  BY TrieIsBytes, BytesOfCharacter
<1>2. Step(at, c) = [at |-> to,
                     status |-> CASE upTo < L -> "NoNode"
                                  [] upTo = L /\ to \in Leaves -> "Ok"
                                  [] OTHER -> "NoLeaf"]
  BY DEF Step
<1>. HIDE DEF B
<1>3. at \o SubSeq(B, 1, 0) = at /\ SubSeq(B, 1, L) = B
  <2>1. SubSeq(B, 1, 0) = <<>> /\ SubSeq(B, 1, L) = B
    BY <1>1
  <2>2. at \o <<>> = at
    BY <1>1, ConcatProperties
  <2>. QED
    BY <2>1, <2>2
<1>4. Fits(0) /\ (Fits(L) <=> at \o B \in Trie)
  BY <1>3
<1>. HIDE DEF Fits
<1>5. upTo \in matched /\ \A j \in matched : j <= upTo
  <2>. HIDE DEF L
  <2>. DEFINE T == {L - i : i \in matched}
  <2>1. T # {} /\ T \subseteq Nat
    <3>1. 0 \in matched
      BY <1>1, <1>4
    <3>2. \A i \in matched : L - i \in Nat
      BY <1>1
    <3>. HIDE DEF matched
    <3>. QED
      BY <3>1, <3>2
  <2>. HIDE DEF T
  <2>2. PICK m \in T : \A k \in T : m <= k
    BY <2>1, LeastNumber
  <2>3. PICK i \in matched : m = L - i
    BY <2>2 DEF T
  <2>4. ASSUME NEW j \in matched PROVE j <= i
    <3>1. L - i <= L - j
      BY <2>2, <2>3 DEF T
    <3>2. i \in Nat /\ j \in Nat
      OBVIOUS
    <3>. QED
      BY <1>1, <3>1, <3>2
  <2>. HIDE DEF matched
  <2>. QED
    BY <2>3, <2>4
<1>. HIDE DEF upTo
<1>6. upTo \in 0 .. L /\ to \in Trie
  BY <1>5 DEF Fits
<1>7. CASE at \o B \in Trie
  <2>1. L \in matched
    BY <1>1, <1>4, <1>7
  <2>2. upTo = L
    BY <1>1, <1>5, <1>6, <2>1
  <2>3. to = at \o B /\ ~(upTo < L)
    BY <1>1, <1>3, <2>2
  <2>. HIDE DEF to, L
  <2>. QED
    BY <1>2, <1>6, <1>7, <2>2, <2>3 DEF B, Places, Statuses
<1>8. CASE at \o B \notin Trie
  <2>1. upTo # L
    BY <1>4, <1>5, <1>8
  <2>2. upTo < L
    BY <1>1, <1>6, <2>1
  <2>. HIDE DEF to, L
  <2>. QED
    BY <1>2, <1>6, <1>8, <2>2 DEF B, Places, Statuses
<1>. QED
  BY <1>7, <1>8

\* The places a traversal stands at.
Travels(f, s, i) ==
  /\ f[i - 1] = Root
  /\ \A j \in i .. Len(s) : f[j] = Step(f[j - 1].at, s[j])
  /\ \A j \in i - 1 .. Len(s) : f[j] \in Places

LEMMA TravelsExist ==
  ASSUME NEW s \in Seq(Chars), NEW i \in 1 .. Len(s)
  PROVE  \E f : Travels(f, s, i) /\ Traversal(s, i) = [j \in i .. Len(s) |-> f[j].status]
<1>. DEFINE m == Len(s) - (i - 1)
            G == [p \in (1 .. m) \X Places |-> Step(p[2].at, s[(i - 1) + p[1]])]
            Eq(f) == f = [j \in i - 1 .. Len(s) |->
                            IF j < i THEN [at |-> <<>>, status |-> "NoLeaf"]
                            ELSE Step(f[j - 1].at, s[j])]
<1>1. m \in Nat /\ Len(s) \in Nat /\ i \in Nat /\ i <= Len(s) /\ i # 0
  OBVIOUS
<1>2. Root \in Places
  BY TrieIsBytes DEF Root, Places, Statuses
<1>3. G \in [(1 .. m) \X Places -> Places]
  <2>1. ASSUME NEW p \in (1 .. m) \X Places PROVE Step(p[2].at, s[(i - 1) + p[1]]) \in Places
    <3>1. p[1] \in 1 .. m /\ p[2] \in Places
      OBVIOUS
    <3>2. (i - 1) + p[1] \in 1 .. Len(s)
      BY <1>1, <3>1
    <3>3. p[2].at \in Trie /\ s[(i - 1) + p[1]] \in Chars
      BY <3>1, <3>2 DEF Places
    <3>. QED
      BY <3>3, StepTells
  <2>. HIDE DEF m
  <2>. QED
    BY <2>1
<1>4. PICK g \in [0 .. m -> Places] : IsRecursive(g, m, Root, G)
  <2>. HIDE DEF G, m
  <2>. QED
    BY <1>1, <1>2, <1>3, RecursionExists
<1>5. \A k \in 0 .. m : g[k] = IF k = 0 THEN Root ELSE Step(g[k - 1].at, s[(i - 1) + k])
  <2>1. ASSUME NEW k \in 0 .. m, k # 0 PROVE G[<<k, g[k - 1]>>] = Step(g[k - 1].at, s[(i - 1) + k])
    <3>1. k \in 1 .. m /\ k - 1 \in 0 .. m
      BY <1>1, <2>1
    <3>2. <<k, g[k - 1]>> \in (1 .. m) \X Places
      <4>. HIDE DEF m, G
      <4>. QED
        BY <1>4, <3>1
    <3>. HIDE DEF m
    <3>. QED
      BY <3>2
  <2>2. g = [k \in 0 .. m |-> IF k = 0 THEN Root ELSE G[<<k, g[k - 1]>>]]
    BY <1>4 DEF IsRecursive
  <2>. HIDE DEF G, m
  <2>. QED
    BY <2>1, <2>2
<1>. DEFINE h == [j \in i - 1 .. Len(s) |-> g[j - (i - 1)]]
<1>6. Eq(h)
  <2>1. ASSUME NEW j \in i - 1 .. Len(s)
        PROVE  g[j - (i - 1)] = IF j < i THEN Root ELSE Step(h[j - 1].at, s[j])
    <3>1. j - (i - 1) \in 0 .. m /\ (j < i <=> j - (i - 1) = 0) /\ (i - 1) + (j - (i - 1)) = j
      BY <1>1
    <3>2. j >= i => j - 1 \in i - 1 .. Len(s) /\ (j - 1) - (i - 1) = (j - (i - 1)) - 1
      BY <1>1
    <3>3. j >= i => h[j - 1] = g[(j - (i - 1)) - 1]
      BY <3>2
    <3>4. j < i \/ j >= i
      BY <1>1
    <3>. HIDE DEF h, m, G
    <3>. QED
      BY <1>5, <3>1, <3>3, <3>4
  <2>. QED
    BY <2>1 DEF Root
<1>. DEFINE f == CHOOSE x : Eq(x)
<1>7. Eq(f)
  <2>. HIDE DEF h
  <2>. QED
    BY <1>6
<1>8. Traversal(s, i) = [j \in i .. Len(s) |-> f[j].status]
  BY DEF Traversal
<1>. HIDE DEF f, h, G, m
<1>9. \A j \in i - 1 .. Len(s) : f[j] = IF j < i THEN Root ELSE Step(f[j - 1].at, s[j])
  BY <1>7 DEF Root
<1>. HIDE DEF Eq
<1>10. f[i - 1] = Root /\ \A j \in i .. Len(s) : f[j] = Step(f[j - 1].at, s[j])
  <2>1. i - 1 \in i - 1 .. Len(s) /\ i - 1 < i /\ \A j \in i .. Len(s) : j \in i - 1 .. Len(s) /\ ~(j < i)
    BY <1>1
  <2>. QED
    BY <1>9, <2>1
<1>11. \A j \in i - 1 .. Len(s) : f[j] \in Places
  <2>. DEFINE H == {j \in Int : f[j] \in Places}
  <2>1. i - 1 \in H /\ i - 1 \in Int /\ Len(s) \in Int
    BY <1>1, <1>2, <1>10
  <2>2. ASSUME NEW j \in i - 1 .. Len(s) - 1, j \in H PROVE j + 1 \in H
    <3>1. j + 1 \in i .. Len(s) /\ (j + 1) - 1 = j /\ j + 1 \in 1 .. Len(s) /\ j + 1 \in Int
      BY <1>1
    <3>2. f[j].at \in Trie /\ s[j + 1] \in Chars
      BY <2>2, <3>1 DEF Places
    <3>3. f[j + 1] = Step(f[j].at, s[j + 1])
      BY <1>10, <3>1
    <3>. QED
      BY <3>1, <3>2, <3>3, StepTells
  <2>. HIDE DEF H
  <2>3. \A j \in i - 1 .. Len(s) : j \in H
    BY <2>1, <2>2, InductionTo
  <2>. QED
    BY <2>3 DEF H
<1>. QED
  BY <1>8, <1>10, <1>11 DEF Travels

LEMMA ShorterPrefix ==
  ASSUME NEW w \in Seq(Chars), NEW c \in Chars, NEW d \in Seq(Chars), IsPrefix(Append(w, c), d)
  PROVE  IsPrefix(w, d)
<1>. DEFINE v == Append(w, c)
            m == Len(w)
<1>1. /\ v \in Seq(Chars) /\ Len(v) = m + 1 /\ m \in Nat /\ Len(d) \in Nat
      /\ \A k \in 1 .. m : v[k] = w[k]
  OBVIOUS
<1>2. Len(v) <= Len(d) /\ SubSeq(v, 1, Len(v)) = SubSeq(d, 1, Len(v))
  BY DEF IsPrefix
<1>. HIDE DEF v, m
<1>3. SubSeq(v, 1, Len(v)) = v /\ m \in 0 .. Len(d) /\ m + 1 <= Len(d)
  BY <1>1, <1>2
<1>4. v = SubSeq(d, 1, m + 1)
  BY <1>1, <1>2, <1>3
<1>5. \A k \in 1 .. m : d[k] = w[k]
  <2>1. \A k \in 1 .. m : SubSeq(d, 1, m + 1)[k] = d[k]
    BY <1>1, <1>3
  <2>. QED
    BY <1>1, <1>4, <2>1
<1>6. SubSeq(w, 1, m) = SubSeq(d, 1, m)
  <2>1. SubSeq(w, 1, m) \in Seq(Chars) /\ Len(SubSeq(w, 1, m)) = m
    BY <1>1 DEF m
  <2>2. SubSeq(d, 1, m) \in Seq(Chars) /\ Len(SubSeq(d, 1, m)) = m
    BY <1>3, <1>1
  <2>3. \A k \in 1 .. m : SubSeq(w, 1, m)[k] = SubSeq(d, 1, m)[k]
    BY <1>1, <1>3, <1>5 DEF m
  <2>. QED
    BY <2>1, <2>2, <2>3
<1>. QED
  BY <1>1, <1>3, <1>6 DEF IsPrefix, m

\* A part of a text and the same part with one character more.
LEMMA PartGrows ==
  ASSUME NEW s \in Seq(Chars), NEW i \in 1 .. Len(s), NEW j \in i - 1 .. Len(s) - 1
  PROVE  /\ SubSeq(s, i, j) \in Seq(Chars) /\ s[j + 1] \in Chars
         /\ SubSeq(s, i, j + 1) = Append(SubSeq(s, i, j), s[j + 1])
         /\ Spelling(SubSeq(s, i, j + 1)) = Spelling(SubSeq(s, i, j)) \o Bytes[s[j + 1]]
<1>. DEFINE x == SubSeq(s, i, j)
            y == SubSeq(s, i, j + 1)
            l == j - (i - 1)
<1>1. l \in Nat /\ i \in Nat /\ j \in Nat /\ Len(s) \in Nat /\ j + 1 \in 1 .. Len(s)
  OBVIOUS
<1>2. /\ x \in Seq(Chars) /\ Len(x) = l
      /\ \A k \in 1 .. l : x[k] = s[(i - 1) + k]
  BY <1>1
<1>3. /\ y \in Seq(Chars) /\ Len(y) = l + 1
      /\ \A k \in 1 .. l + 1 : y[k] = s[(i - 1) + k]
  BY <1>1
<1>4. s[j + 1] \in Chars
  BY <1>1
<1>. DEFINE z == Append(x, s[j + 1])
<1>5. /\ z \in Seq(Chars) /\ Len(z) = l + 1
      /\ (\A k \in 1 .. l : z[k] = x[k]) /\ z[l + 1] = s[j + 1]
  <2>. HIDE DEF x, l
  <2>. QED
    BY <1>2, <1>4
<1>6. y = z
  <2>1. (i - 1) + (l + 1) = j + 1
    BY <1>1
  <2>2. \A k \in 1 .. l + 1 : k \in 1 .. l \/ k = l + 1
    BY <1>1
  <2>. HIDE DEF x, y, z, l
  <2>3. ASSUME NEW k \in 1 .. l + 1 PROVE y[k] = z[k]
    <3>1. CASE k \in 1 .. l
      BY <1>2, <1>3, <1>5, <3>1
    <3>2. CASE k = l + 1
      BY <1>3, <1>5, <2>1, <3>2
    <3>. QED
      BY <2>2, <3>1, <3>2
  <2>. QED
    BY <1>1, <1>3, <1>5, <2>3
<1>. HIDE DEF x, y
<1>. QED
  BY <1>2, <1>4, <1>6, SpellingGrows DEF x, y

\* What no word begins with, no word begins with when it goes on.
LEMMA LostForGood ==
  ASSUME NEW w \in Seq(Chars), NEW c \in Chars, Spelling(w) \notin Trie
  PROVE  Spelling(Append(w, c)) \notin Trie
<1>. DEFINE v == Append(w, c)
<1>1. v \in Seq(Chars) /\ v # <<>>
  BY AppendedOne
<1>2. ~\E d \in DOMAIN Dictionary : IsPrefix(w, d)
  BY NodeTells
<1>3. ASSUME NEW d \in DOMAIN Dictionary, IsPrefix(Append(w, c), d) PROVE FALSE
  <2>1. d \in Seq(Chars)
    BY DictionaryAssumption DEF Chars
  <2>. QED
    BY <1>2, <1>3, <2>1, ShorterPrefix
<1>. HIDE DEF v
<1>4. Spelling(v) \in Trie <=> v = <<>> \/ \E d \in DOMAIN Dictionary : IsPrefix(v, d)
  BY <1>1, NodeTells
<1>. QED
  BY <1>1, <1>3, <1>4 DEF v

\* A traversal is lost once no word begins with the characters read; until
\* then it tells after each of them whether they are a word.
LEMMA TraversalTells ==
  ASSUME NEW s \in Seq(Chars), NEW i \in 1 .. Len(s), NEW j \in i .. Len(s)
  PROVE  /\ Lost(Traversal(s, i), i, j) <=> ~\E d \in DOMAIN Dictionary : IsPrefix(SubSeq(s, i, j), d)
         /\ ~Lost(Traversal(s, i), i, j) =>
              Traversal(s, i)[j] = IF SubSeq(s, i, j) \in DOMAIN Dictionary THEN "Ok" ELSE "NoLeaf"
<1>1. PICK f : Travels(f, s, i) /\ Traversal(s, i) = [k \in i .. Len(s) |-> f[k].status]
  BY TravelsExist
<1>. DEFINE w(k) == SubSeq(s, i, k)
            sp(k) == Spelling(w(k))
            On(k) == /\ f[k].at = sp(k) /\ \A l \in i .. k : f[l].status # "NoNode"
                     /\ k >= i => f[k].status = IF sp(k) \in Leaves THEN "Ok" ELSE "NoLeaf"
            Off(k) == \E l \in i .. k : f[l].status = "NoNode"
            Told(k) == (sp(k) \in Trie => On(k)) /\ (sp(k) \notin Trie => Off(k))
            H == {k \in Int : Told(k)}
<1>2. i \in Nat /\ i # 0 /\ j \in Nat /\ i <= j /\ j <= Len(s) /\ Len(s) \in Nat
  OBVIOUS
<1>3. i - 1 \in H
  <2>1. w(i - 1) = <<>>
    BY <1>2
  <2>2. sp(i - 1) = <<>> /\ sp(i - 1) \in Trie
    BY <2>1, SpellingOfNone, TrieIsBytes
  <2>3. f[i - 1].at = <<>>
    BY <1>1 DEF Travels, Root
  <2>4. i - 1 \in Int /\ ~(i - 1 >= i) /\ \A l \in i .. i - 1 : FALSE
    BY <1>2
  <2>. HIDE DEF sp, w
  <2>. QED
    BY <2>2, <2>3, <2>4
<1>4. ASSUME NEW k \in i - 1 .. Len(s) - 1, k \in H PROVE k + 1 \in H
  <2>. DEFINE c == s[k + 1]
  <2>1. k + 1 \in i .. Len(s) /\ (k + 1) - 1 = k /\ k \in Int /\ k + 1 \in Int
    BY <1>2
  <2>2. /\ w(k) \in Seq(Chars) /\ c \in Chars /\ w(k + 1) = Append(w(k), c)
        /\ sp(k + 1) = sp(k) \o Bytes[c]
    BY PartGrows
  <2>3. f[k + 1] = Step(f[k].at, c)
    BY <1>1, <2>1 DEF Travels
  <2>. HIDE DEF w, sp, c
  <2>4. \A l \in i .. k + 1 : l \in i .. k \/ l = k + 1
    BY <2>1
  <2>5. CASE sp(k) \in Trie /\ sp(k + 1) \in Trie
    <3>1. /\ f[k + 1].at = sp(k + 1)
          /\ f[k + 1].status = IF sp(k + 1) \in Leaves THEN "Ok" ELSE "NoLeaf"
      <4>1. f[k + 1] = Step(sp(k), c)
        BY <1>4, <2>3, <2>5
      <4>2. Step(sp(k), c) = [at |-> sp(k + 1), status |-> IF sp(k + 1) \in Leaves THEN "Ok" ELSE "NoLeaf"]
        <5>1. sp(k) \o Bytes[c] \in Trie
          BY <2>2, <2>5
        <5>. QED
          BY <2>2, <2>5, <5>1, StepTells
      <4>. QED
        BY <4>1, <4>2
    <3>2. f[k + 1].status # "NoNode"
      BY <3>1
    <3>3. \A l \in i .. k + 1 : f[l].status # "NoNode"
      BY <1>4, <2>4, <2>5, <3>2
    <3>4. On(k + 1)
      BY <3>1, <3>3
    <3>. HIDE DEF On, Off
    <3>. QED
      BY <2>1, <2>5, <3>4
  <2>6. CASE sp(k) \in Trie /\ sp(k + 1) \notin Trie
    <3>1. f[k + 1].status = "NoNode"
      <4>1. f[k + 1] = Step(sp(k), c)
        BY <1>4, <2>3, <2>6
      <4>2. sp(k) \o Bytes[c] \notin Trie
        BY <2>2, <2>6
      <4>. QED
        BY <2>2, <2>6, <4>1, <4>2, StepTells
    <3>2. k + 1 \in i .. k + 1
      BY <2>1
    <3>. QED
      BY <2>1, <2>6, <3>1, <3>2
  <2>7. CASE sp(k) \notin Trie
    <3>1. sp(k + 1) \notin Trie
      BY <2>2, <2>7, LostForGood DEF sp
    <3>2. \E l \in i .. k : f[l].status = "NoNode"
      BY <1>4, <2>7
    <3>3. \A l \in i .. k : l \in i .. k + 1
      BY <2>1
    <3>. QED
      BY <2>1, <3>1, <3>2, <3>3
  <2>. QED
    BY <2>5, <2>6, <2>7
<1>5. Told(j)
  <2>1. i - 1 \in Int /\ Len(s) \in Int /\ j \in i - 1 .. Len(s)
    BY <1>2
  <2>. HIDE DEF H
  <2>2. \A k \in i - 1 .. Len(s) : k \in H
    BY <1>3, <1>4, <2>1, InductionTo
  <2>3. j \in H
    BY <2>1, <2>2
  <2>. HIDE DEF Told
  <2>. QED
    BY <2>3 DEF H
<1>6. \A l \in i .. j : Traversal(s, i)[l] = f[l].status
  <2>1. \A l \in i .. j : l \in i .. Len(s)
    BY <1>2
  <2>. QED
    BY <1>1, <2>1
<1>7. w(j) \in Seq(Chars) /\ w(j) # <<>>
  <2>1. w(j) \in Seq(Chars) /\ Len(w(j)) = j - (i - 1)
    BY <1>2
  <2>. QED
    BY <1>2, <2>1
<1>8. sp(j) \in Trie <=> \E d \in DOMAIN Dictionary : IsPrefix(w(j), d)
  <2>. HIDE DEF w
  <2>. QED
    BY <1>7, NodeTells
<1>9. sp(j) \in Leaves <=> w(j) \in DOMAIN Dictionary
  <2>. HIDE DEF w
  <2>. QED
    BY <1>7, LeafTells
<1>10. j \in i .. j /\ j >= i
  BY <1>2
<1>11. Lost(Traversal(s, i), i, j) <=> Off(j)
  <2>. HIDE DEF w, sp
  <2>. QED
    BY <1>6 DEF Lost
<1>. HIDE DEF w, sp
<1>12. Lost(Traversal(s, i), i, j) <=> sp(j) \notin Trie
  BY <1>5, <1>11
<1>. QED
  BY <1>5, <1>6, <1>8, <1>9, <1>10, <1>12 DEF w

-----------------------------------------------------------------------------
(* Which seeds the makers collect *)

LEMMA MembersOfOne == ASSUME NEW x PROVE IsSequence(<<x>>) /\ ToSet(<<x>>) = {x}
<1>1. <<x>> \in Seq({x}) /\ DOMAIN <<x>> = {1} /\ <<x>>[1] = x
  OBVIOUS
<1>2. {<<x>>[i] : i \in DOMAIN <<x>>} = {x}
  BY <1>1
<1>. QED
  BY <1>1, <1>2 DEF IsSequence, ToSet

LEMMA MembersOfNone == IsSequence(<<>>) /\ ToSet(<<>>) = {}
BY EmptySequence DEF ToSet

LEMMA SequenceOf ==
  ASSUME NEW C, NEW q \in Seq(C)
  PROVE  IsSequence(q) /\ ToSet(q) \subseteq C
<1>1. q \in [1 .. Len(q) -> ToSet(q)] /\ Len(q) \in Nat
  BY DEF ToSet
<1>2. q \in Seq(ToSet(q))
  BY <1>1, SeqDef
<1>. QED
  BY <1>2 DEF IsSequence, ToSet

\* A sequence of sequences, and all their members.
LEMMA FlattenOf ==
  ASSUME NEW m \in Nat, NEW F, \A k \in 1 .. m : IsSequence(F[k])
  PROVE  /\ IsSequence(FlattenSeq([k \in 1 .. m |-> F[k]]))
         /\ \A v : v \in ToSet(FlattenSeq([k \in 1 .. m |-> F[k]])) <=> \E k \in 1 .. m : v \in ToSet(F[k])
<1>. DEFINE C == UNION {ToSet(F[k]) : k \in 1 .. m}
            q == [k \in 1 .. m |-> F[k]]
<1>1. ASSUME NEW k \in 1 .. m PROVE F[k] \in Seq(C)
  <2>1. F[k] \in Seq(ToSet(F[k]))
    BY DEF IsSequence, ToSet
  <2>2. ToSet(F[k]) \subseteq C
    OBVIOUS
  <2>. HIDE DEF C
  <2>. QED
    BY <2>1, <2>2, SeqMonotonic
<1>2. q \in Seq(Seq(C))
  <2>. HIDE DEF C
  <2>. QED
    BY <1>1
<1>3. DOMAIN q = 1 .. m /\ \A k \in 1 .. m : q[k] = F[k]
  OBVIOUS
<1>. HIDE DEF q, C
<1>4. FlattenSeq(q) \in Seq(C) /\ \A v : v \in ToSet(FlattenSeq(q)) <=> \E k \in DOMAIN q : v \in ToSet(q[k])
  BY <1>2, FlattenMembers
<1>5. IsSequence(FlattenSeq(q))
  BY <1>4, SequenceOf
<1>6. \A v : v \in ToSet(FlattenSeq(q)) <=> \E k \in 1 .. m : v \in ToSet(F[k])
  BY <1>3, <1>4
<1>. QED
  BY <1>5, <1>6 DEF q

\* What is collected from all parts of a text.
WholeOf(m, G) ==
  FlattenSeq([i \in 1 .. m |-> FlattenSeq([k \in 1 .. m + 1 - i |-> G[<<i, i + k - 1>>]])])

LEMMA WholeMembers ==
  ASSUME NEW m \in Nat, NEW G, \A i \in 1 .. m : \A j \in i .. m : IsSequence(G[<<i, j>>])
  PROVE  \A v : v \in ToSet(WholeOf(m, G)) <=> \E i \in 1 .. m : \E j \in i .. m : v \in ToSet(G[<<i, j>>])
<1>. DEFINE F(i) == [k \in 1 .. m + 1 - i |-> G[<<i, i + k - 1>>]]
            R == [i \in 1 .. m |-> FlattenSeq(F(i))]
<1>1. ASSUME NEW i \in 1 .. m
      PROVE  /\ IsSequence(FlattenSeq(F(i)))
             /\ \A v : v \in ToSet(FlattenSeq(F(i))) <=> \E j \in i .. m : v \in ToSet(G[<<i, j>>])
  <2>. DEFINE f == F(i)
              l == m + 1 - i
  <2>1. l \in Nat /\ \A k \in 1 .. l : i + k - 1 \in i .. m
    OBVIOUS
  <2>2. \A k \in 1 .. l : f[k] = G[<<i, i + k - 1>>]
    OBVIOUS
  <2>3. \A k \in 1 .. l : IsSequence(f[k])
    BY <2>1, <2>2
  <2>4. f = [k \in 1 .. l |-> f[k]]
    OBVIOUS
  <2>5. \A j \in i .. m : j - i + 1 \in 1 .. l /\ i + (j - i + 1) - 1 = j
    OBVIOUS
  <2>. HIDE DEF f, l
  <2>6. /\ IsSequence(FlattenSeq(f))
        /\ \A v : v \in ToSet(FlattenSeq(f)) <=> \E k \in 1 .. l : v \in ToSet(f[k])
    BY <2>1, <2>3, <2>4, FlattenOf
  <2>7. ASSUME NEW v PROVE (\E k \in 1 .. l : v \in ToSet(f[k])) <=> \E j \in i .. m : v \in ToSet(G[<<i, j>>])
    <3>1. ASSUME NEW k \in 1 .. l, v \in ToSet(f[k]) PROVE \E j \in i .. m : v \in ToSet(G[<<i, j>>])
      <4>1. i + k - 1 \in i .. m /\ v \in ToSet(G[<<i, i + k - 1>>])
        BY <2>1, <2>2, <3>1
      <4>. QED
        BY <4>1
    <3>2. ASSUME NEW j \in i .. m, v \in ToSet(G[<<i, j>>]) PROVE \E k \in 1 .. l : v \in ToSet(f[k])
      <4>1. j - i + 1 \in 1 .. l /\ f[j - i + 1] = G[<<i, j>>]
        BY <2>2, <2>5
      <4>. QED
        BY <3>2, <4>1
    <3>. QED
      BY <3>1, <3>2
  <2>8. \A v : v \in ToSet(FlattenSeq(f)) <=> \E j \in i .. m : v \in ToSet(G[<<i, j>>])
    BY <2>6, <2>7
  <2>. QED
    BY <2>6, <2>8 DEF f
<1>2. WholeOf(m, G) = FlattenSeq(R)
  BY DEF WholeOf
<1>. HIDE DEF F
<1>3. \A i \in 1 .. m : R[i] = FlattenSeq(F(i))
  OBVIOUS
<1>4. R = [i \in 1 .. m |-> R[i]]
  OBVIOUS
<1>. HIDE DEF R
<1>5. \A i \in 1 .. m : IsSequence(R[i])
  BY <1>1, <1>3
<1>6. \A v : v \in ToSet(FlattenSeq(R)) <=> \E i \in 1 .. m : v \in ToSet(R[i])
  BY <1>4, <1>5, FlattenOf
<1>7. \A i \in 1 .. m : \A v : v \in ToSet(R[i]) <=> \E j \in i .. m : v \in ToSet(G[<<i, j>>])
  BY <1>1, <1>3
<1>. QED
  BY <1>2, <1>6, <1>7

\* v stands at one place of q at most.
Once(q, v) == \A a, b \in DOMAIN q : q[a] = v /\ q[b] = v => a = b

LEMMA OnceConcat ==
  ASSUME NEW C, NEW x \in Seq(C), NEW y \in Seq(C), NEW v, Once(x, v), Once(y, v),
         v \notin ToSet(x) \/ v \notin ToSet(y)
  PROVE  Once(x \o y, v)
<1>. DEFINE z == x \o y
<1>1. /\ Len(x) \in Nat /\ Len(y) \in Nat /\ DOMAIN x = 1 .. Len(x) /\ DOMAIN y = 1 .. Len(y)
      /\ DOMAIN z = 1 .. Len(x) + Len(y)
  <2>1. z \in Seq(C) /\ Len(z) = Len(x) + Len(y)
    BY ConcatProperties
  <2>. HIDE DEF z
  <2>. QED
    BY <2>1
<1>2. \A a \in 1 .. Len(x) + Len(y) : z[a] = IF a <= Len(x) THEN x[a] ELSE y[a - Len(x)]
  BY ConcatProperties
<1>. HIDE DEF z
<1>3. \A a \in DOMAIN z : z[a] = v =>
        \/ a \in DOMAIN x /\ x[a] = v /\ v \in ToSet(x)
        \/ a \notin DOMAIN x /\ a - Len(x) \in DOMAIN y /\ y[a - Len(x)] = v /\ v \in ToSet(y)
  <2>. SUFFICES ASSUME NEW a \in DOMAIN z, z[a] = v
                PROVE  \/ a \in DOMAIN x /\ x[a] = v /\ v \in ToSet(x)
                       \/ a \notin DOMAIN x /\ a - Len(x) \in DOMAIN y /\ y[a - Len(x)] = v /\ v \in ToSet(y)
    OBVIOUS
  <2>1. CASE a <= Len(x)
    <3>1. a \in DOMAIN x /\ x[a] = v
      BY <1>1, <1>2, <2>1
    <3>. QED
      BY <3>1 DEF ToSet
  <2>2. CASE ~(a <= Len(x))
    <3>1. a \notin DOMAIN x /\ a - Len(x) \in DOMAIN y /\ y[a - Len(x)] = v
      BY <1>1, <1>2, <2>2
    <3>. QED
      BY <3>1 DEF ToSet
  <2>. QED
    BY <2>1, <2>2
<1>4. ASSUME NEW a \in DOMAIN z, NEW b \in DOMAIN z, z[a] = v, z[b] = v PROVE a = b
  <2>1. CASE v \notin ToSet(y)
    BY <1>3, <1>4, <2>1 DEF Once
  <2>2. CASE v \notin ToSet(x)
    <3>1. a - Len(x) \in DOMAIN y /\ b - Len(x) \in DOMAIN y /\ y[a - Len(x)] = v /\ y[b - Len(x)] = v
      BY <1>3, <1>4, <2>2
    <3>2. a - Len(x) = b - Len(x)
      BY <3>1 DEF Once
    <3>. QED
      BY <1>1, <3>2
  <2>. QED
    BY <2>1, <2>2
<1>. QED
  BY <1>4 DEF Once, z

LEMMA FlattenOnce ==
  ASSUME NEW C, NEW q \in Seq(Seq(C)), NEW v, \A k \in DOMAIN q : Once(q[k], v),
         \A k, l \in DOMAIN q : v \in ToSet(q[k]) /\ v \in ToSet(q[l]) => k = l
  PROVE  Once(FlattenSeq(q), v)
<1>1. /\ Len(q) \in Nat /\ DOMAIN q = 1 .. Len(q)
      /\ \A l \in 1 .. Len(q) : q[l] \in Seq(C)
  OBVIOUS
<1>2. CASE q = <<>>
  <2>1. DOMAIN FlattenSeq(q) = {}
    <3>1. FlattenSeq(q) \in Seq(C) /\ \A i \in DOMAIN FlattenSeq(q) : \E k \in DOMAIN q : TRUE
      BY FlattenFrom
    <3>2. DOMAIN q = {}
      BY <1>2
    <3>. QED
      BY <3>1, <3>2
  <2>. QED
    BY <2>1 DEF Once
<1>3. CASE q # <<>>
  <2>1. PICK f \in [1 .. Len(q) -> Seq(C)] : Joins(q, f)
    BY <1>3, JoinsExist
  <2>2. \A l \in 1 .. Len(q) : f[l] = IF l = 1 THEN q[l] ELSE f[l - 1] \o q[l]
    <3>. DEFINE g == [l \in 1 .. Len(q) |-> IF l = 1 THEN q[l] ELSE f[l - 1] \o q[l]]
    <3>1. f = g
      BY <2>1 DEF Joins
    <3>2. \A l \in 1 .. Len(q) : g[l] = IF l = 1 THEN q[l] ELSE f[l - 1] \o q[l]
      OBVIOUS
    <3>. HIDE DEF g
    <3>. QED
      BY <3>1, <3>2
  <2>. DEFINE Met(k) == v \in ToSet(f[k]) => \E l \in 1 .. k : v \in ToSet(q[l])
              H == {k \in Nat : Once(f[k], v) /\ Met(k)}
  <2>3. Len(q) # 0
    BY <1>1, <1>3
  <2>4. 1 \in H
    <3>1. 1 \in 1 .. Len(q) /\ f[1] = q[1] /\ 1 \in 1 .. 1
      BY <1>1, <2>2, <2>3
    <3>. QED
      BY <1>1, <3>1
  <2>5. ASSUME NEW k \in 1 .. Len(q) - 1, k \in H PROVE k + 1 \in H
    <3>1. /\ k \in 1 .. Len(q) /\ k + 1 \in 1 .. Len(q) /\ (k + 1) - 1 = k /\ k + 1 # 1 /\ k + 1 \in Nat
          /\ k + 1 \in 1 .. k + 1 /\ \A l \in 1 .. k : l \in 1 .. Len(q) /\ l \in 1 .. k + 1 /\ l # k + 1
      BY <1>1
    <3>2. f[k] \in Seq(C) /\ q[k + 1] \in Seq(C) /\ f[k + 1] = f[k] \o q[k + 1]
      BY <1>1, <2>1, <2>2, <3>1
    <3>3. \A x : x \in ToSet(f[k + 1]) <=> x \in ToSet(f[k]) \/ x \in ToSet(q[k + 1])
      BY <3>2, ConcatMembers
    <3>4. Met(k + 1)
      BY <2>5, <3>1, <3>3
    <3>5. v \notin ToSet(f[k]) \/ v \notin ToSet(q[k + 1])
      BY <1>1, <2>5, <3>1
    <3>6. Once(f[k], v) /\ Once(q[k + 1], v)
      BY <1>1, <2>5, <3>1
    <3>7. Once(f[k] \o q[k + 1], v)
      <4>. HIDE DEF H, Met
      <4>. QED
        BY <3>2, <3>5, <3>6, OnceConcat
    <3>8. Once(f[k + 1], v)
      BY <3>2, <3>7
    <3>. HIDE DEF Met
    <3>. QED
      BY <3>1, <3>4, <3>8
  <2>6. Len(q) \in H
    <3>1. 1 \in Int /\ Len(q) \in Int /\ Len(q) \in 1 .. Len(q)
      BY <1>1, <2>3
    <3>. HIDE DEF H
    <3>2. \A k \in 1 .. Len(q) : k \in H
      BY <2>4, <2>5, <3>1, InductionTo
    <3>. QED
      BY <3>1, <3>2
  <2>7. FlattenSeq(q) = f[Len(q)]
    BY <1>3, <2>1, FlattenIsLast
  <2>. QED
    BY <2>6, <2>7
<1>. QED
  BY <1>2, <1>3

LEMMA FlattenOnceOf ==
  ASSUME NEW m \in Nat, NEW F, NEW v, \A k \in 1 .. m : IsSequence(F[k]) /\ Once(F[k], v),
         \A k, l \in 1 .. m : v \in ToSet(F[k]) /\ v \in ToSet(F[l]) => k = l
  PROVE  Once(FlattenSeq([k \in 1 .. m |-> F[k]]), v)
<1>. DEFINE C == UNION {ToSet(F[k]) : k \in 1 .. m}
            q == [k \in 1 .. m |-> F[k]]
<1>1. ASSUME NEW k \in 1 .. m PROVE F[k] \in Seq(C)
  <2>1. F[k] \in Seq(ToSet(F[k]))
    BY DEF IsSequence, ToSet
  <2>2. ToSet(F[k]) \subseteq C
    OBVIOUS
  <2>. HIDE DEF C
  <2>. QED
    BY <2>1, <2>2, SeqMonotonic
<1>2. q \in Seq(Seq(C))
  <2>. HIDE DEF C
  <2>. QED
    BY <1>1
<1>3. DOMAIN q = 1 .. m /\ \A k \in 1 .. m : q[k] = F[k]
  OBVIOUS
<1>4. \A k \in DOMAIN q : Once(q[k], v)
  BY <1>3
<1>5. ASSUME NEW k \in DOMAIN q, NEW l \in DOMAIN q, v \in ToSet(q[k]), v \in ToSet(q[l]) PROVE k = l
  BY <1>3, <1>5
<1>. HIDE DEF q, C
<1>6. Once(FlattenSeq(q), v)
  BY <1>2, <1>4, <1>5, FlattenOnce
<1>. QED
  BY <1>6 DEF q

LEMMA WholeOnce ==
  ASSUME NEW m \in Nat, NEW G, NEW v,
         \A i \in 1 .. m : \A j \in i .. m : IsSequence(G[<<i, j>>]) /\ Once(G[<<i, j>>], v),
         \A i, a \in 1 .. m : \A j \in i .. m : \A b \in a .. m :
           v \in ToSet(G[<<i, j>>]) /\ v \in ToSet(G[<<a, b>>]) => i = a /\ j = b
  PROVE  Once(WholeOf(m, G), v)
<1>. DEFINE F(i) == [k \in 1 .. m + 1 - i |-> G[<<i, i + k - 1>>]]
            R == [i \in 1 .. m |-> FlattenSeq(F(i))]
<1>1. ASSUME NEW i \in 1 .. m
      PROVE  /\ IsSequence(FlattenSeq(F(i))) /\ Once(FlattenSeq(F(i)), v)
             /\ v \in ToSet(FlattenSeq(F(i))) => \E j \in i .. m : v \in ToSet(G[<<i, j>>])
  <2>. DEFINE f == F(i)
              l == m + 1 - i
  <2>1. l \in Nat /\ \A k \in 1 .. l : i + k - 1 \in i .. m
    OBVIOUS
  <2>2. \A k \in 1 .. l : f[k] = G[<<i, i + k - 1>>]
    OBVIOUS
  <2>3. \A k \in 1 .. l : IsSequence(f[k]) /\ Once(f[k], v)
    BY <2>1, <2>2
  <2>4. f = [k \in 1 .. l |-> f[k]]
    OBVIOUS
  <2>5. ASSUME NEW k \in 1 .. l, NEW h \in 1 .. l, v \in ToSet(f[k]), v \in ToSet(f[h]) PROVE k = h
    <3>1. i + k - 1 = i + h - 1
      BY <2>1, <2>2, <2>5
    <3>. QED
      BY <2>1, <3>1
  <2>. HIDE DEF f, l
  <2>6. /\ IsSequence(FlattenSeq(f))
        /\ \A x : x \in ToSet(FlattenSeq(f)) <=> \E k \in 1 .. l : x \in ToSet(f[k])
    BY <2>1, <2>3, <2>4, FlattenOf
  <2>7. Once(FlattenSeq(f), v)
    BY <2>1, <2>3, <2>4, <2>5, FlattenOnceOf
  <2>8. v \in ToSet(FlattenSeq(f)) => \E j \in i .. m : v \in ToSet(G[<<i, j>>])
    BY <2>1, <2>2, <2>6
  <2>. QED
    BY <2>6, <2>7, <2>8 DEF f
<1>2. WholeOf(m, G) = FlattenSeq(R)
  BY DEF WholeOf
<1>. HIDE DEF F
<1>3. \A i \in 1 .. m : R[i] = FlattenSeq(F(i))
  OBVIOUS
<1>4. R = [i \in 1 .. m |-> R[i]]
  OBVIOUS
<1>. HIDE DEF R
<1>5. \A i \in 1 .. m : IsSequence(R[i]) /\ Once(R[i], v)
  BY <1>1, <1>3
<1>6. ASSUME NEW i \in 1 .. m, NEW a \in 1 .. m, v \in ToSet(R[i]), v \in ToSet(R[a]) PROVE i = a
  BY <1>1, <1>3, <1>6
<1>7. Once(FlattenSeq(R), v)
  BY <1>4, <1>5, <1>6, FlattenOnceOf
<1>. QED
  BY <1>2, <1>7

\* The parts of a text of m characters.
Spans(m) == (1 .. m) \X (1 .. m)

LEMMA SpanInside ==
  ASSUME NEW m \in Nat, NEW i \in 1 .. m, NEW k \in 1 .. m + 1 - i
  PROVE  <<i, i + k - 1>> \in Spans(m) /\ i + k - 1 \in i .. m
<1>1. i + k - 1 \in i .. m /\ i + k - 1 \in 1 .. m
  OBVIOUS
<1>. QED
  BY <1>1 DEF Spans

LEMMA SpanOf ==
  ASSUME NEW m \in Nat, NEW i \in 1 .. m, NEW j \in i .. m
  PROVE  <<i, j>> \in Spans(m)
<1>1. j \in 1 .. m
  OBVIOUS
<1>. QED
  BY <1>1 DEF Spans

\* The entries of a word, one seed each.
EntriesOf(w, i, j) == [e \in 1 .. Dictionary[w] |-> Seed(<<"dic", w, e>>, i, j)]

LEMMA EntryMembers ==
  ASSUME NEW w \in DOMAIN Dictionary, NEW i, NEW j
  PROVE  /\ IsSequence(EntriesOf(w, i, j))
         /\ \A v : v \in ToSet(EntriesOf(w, i, j)) <=>
                     \E e \in 1 .. Dictionary[w] : v = Seed(<<"dic", w, e>>, i, j)
<1>. DEFINE q == EntriesOf(w, i, j)
            S(e) == Seed(<<"dic", w, e>>, i, j)
            C == {S(e) : e \in 1 .. Dictionary[w]}
<1>1. PICK m \in Nat : m = Dictionary[w]
  BY DictionaryAssumption
<1>2. q = [e \in 1 .. m |-> S(e)]
  BY <1>1 DEF EntriesOf
<1>3. C = {S(e) : e \in 1 .. m}
  BY <1>1
<1>. HIDE DEF S, q, C
<1>4. q \in Seq(C)
  BY <1>2, <1>3
<1>5. DOMAIN q = 1 .. m /\ \A e \in 1 .. m : q[e] = S(e)
  BY <1>2
<1>6. IsSequence(q)
  BY <1>4, SequenceOf
<1>7. \A v : v \in ToSet(q) <=> \E e \in 1 .. m : v = S(e)
  BY <1>5 DEF ToSet
<1>. QED
  BY <1>1, <1>6, <1>7 DEF q, S

\* What the dictionary proposes: every entry of every word in the text.
DicProposes(w, i, j, v) ==
  w \in DOMAIN Dictionary /\ \E e \in 1 .. Dictionary[w] : v = Seed(<<"dic", w, e>>, i, j)
LEMMA DicMembers ==
  ASSUME NEW s \in Seq(Chars)
  PROVE  \A v : v \in ToSet(DicSeeds(s)) <=>
           \E i \in 1 .. Len(s) : \E j \in i .. Len(s) : DicProposes(SubSeq(s, i, j), i, j, v)
<1>. DEFINE m == Len(s)
            At(i, j) == IF Lost(Traversal(s, i), i, j) \/ Traversal(s, i)[j] # "Ok" THEN <<>>
                        ELSE EntriesOf(SubSeq(s, i, j), i, j)
            G == [p \in Spans(m) |-> At(p[1], p[2])]
<1>1. DicSeeds(s) = FlattenSeq([i \in 1 .. m |-> FlattenSeq([k \in 1 .. m + 1 - i |-> At(i, i + k - 1)])])
  BY DEF DicSeeds, Collect, EntriesOf
<1>2. m \in Nat
  OBVIOUS
<1>3. ASSUME NEW i \in 1 .. m, NEW j \in i .. m
      PROVE  At(i, j) = IF SubSeq(s, i, j) \in DOMAIN Dictionary THEN EntriesOf(SubSeq(s, i, j), i, j) ELSE <<>>
  <2>. DEFINE t == Traversal(s, i)
              w == SubSeq(s, i, j)
  <2>1. /\ Lost(t, i, j) <=> ~\E d \in DOMAIN Dictionary : IsPrefix(w, d)
        /\ ~Lost(t, i, j) => t[j] = IF w \in DOMAIN Dictionary THEN "Ok" ELSE "NoLeaf"
    BY TraversalTells
  <2>2. w \in DOMAIN Dictionary => IsPrefix(w, w)
    <3>1. w \in Seq(Chars)
      BY <1>2
    <3>. HIDE DEF w
    <3>2. Len(w) <= Len(w) /\ SubSeq(w, 1, Len(w)) = w
      BY <3>1
    <3>. QED
      BY <3>2 DEF IsPrefix
  <2>3. At(i, j) = IF Lost(t, i, j) \/ t[j] # "Ok" THEN <<>> ELSE EntriesOf(w, i, j)
    OBVIOUS
  <2>. HIDE DEF t, w, At
  <2>4. At(i, j) = IF w \in DOMAIN Dictionary THEN EntriesOf(w, i, j) ELSE <<>>
    BY <2>1, <2>2, <2>3
  <2>. QED
    BY <2>4 DEF w
<1>. HIDE DEF At
<1>4. \A i \in 1 .. m : \A j \in i .. m : G[<<i, j>>] = At(i, j)
  BY <1>2, SpanOf
<1>5. DicSeeds(s) = WholeOf(m, G)
  <2>1. \A i \in 1 .. m : \A k \in 1 .. m + 1 - i : G[<<i, i + k - 1>>] = At(i, i + k - 1)
    BY <1>2, <1>4, SpanInside
  <2>. HIDE DEF G, m
  <2>. QED
    BY <1>1, <2>1 DEF WholeOf
<1>. HIDE DEF G, m
<1>6. ASSUME NEW i \in 1 .. m, NEW j \in i .. m
      PROVE  /\ IsSequence(G[<<i, j>>])
             /\ \A v : v \in ToSet(G[<<i, j>>]) <=> DicProposes(SubSeq(s, i, j), i, j, v)
  <2>. DEFINE w == SubSeq(s, i, j)
  <2>1. G[<<i, j>>] = IF w \in DOMAIN Dictionary THEN EntriesOf(w, i, j) ELSE <<>>
    BY <1>3, <1>4
  <2>. HIDE DEF w
  <2>2. CASE w \in DOMAIN Dictionary
    <3>1. /\ IsSequence(EntriesOf(w, i, j))
          /\ \A v : v \in ToSet(EntriesOf(w, i, j)) <=>
                      \E e \in 1 .. Dictionary[w] : v = Seed(<<"dic", w, e>>, i, j)
      BY <2>2, EntryMembers
    <3>. QED
      BY <2>1, <2>2, <3>1 DEF DicProposes, w
  <2>3. CASE w \notin DOMAIN Dictionary
    BY <2>1, <2>3, MembersOfNone DEF DicProposes, w
  <2>. QED
    BY <2>2, <2>3
<1>7. \A v : v \in ToSet(DicSeeds(s)) <=> \E i \in 1 .. m : \E j \in i .. m : v \in ToSet(G[<<i, j>>])
  <2>1. \A i \in 1 .. m : \A j \in i .. m : IsSequence(G[<<i, j>>])
    BY <1>6
  <2>. QED
    BY <1>2, <1>5, <2>1, WholeMembers
<1>8. ASSUME NEW v
      PROVE  v \in ToSet(DicSeeds(s)) <=>
               \E i \in 1 .. m : \E j \in i .. m : DicProposes(SubSeq(s, i, j), i, j, v)
  BY <1>6, <1>7
<1>. QED
  BY <1>8 DEF m

BeginsWord(w) == \E d \in DOMAIN Dictionary : IsPrefix(w, d)
Kind(w) == IF BeginsWord(w) THEN "prefix" ELSE "notPrefix"

LEMMA WordBeginsItself == \A w \in DOMAIN Dictionary : BeginsWord(w)
<1>1. ASSUME NEW w \in DOMAIN Dictionary PROVE IsPrefix(w, w)
  <2>1. w \in Seq(Chars)
    BY DictionaryAssumption DEF Chars
  <2>2. Len(w) <= Len(w) /\ SubSeq(w, 1, Len(w)) = w
    BY <2>1
  <2>. QED
    BY <2>2 DEF IsPrefix
<1>. QED
  BY <1>1 DEF BeginsWord

\* What the maker of runs of a class proposes: each run that is no word.
ChunkProposes(s, class, i, j, v) ==
  /\ \A k \in i .. j : Has(s[k], class)
  /\ SubSeq(s, i, j) \notin DOMAIN Dictionary
  /\ v = Seed(<<"chunk", class, Kind(SubSeq(s, i, j))>>, i, j)
LEMMA ChunkMembers ==
  ASSUME NEW s \in Seq(Chars), NEW class
  PROVE  \A v : v \in ToSet(ChunkingSeeds(s, class)) <=>
           \E i \in 1 .. Len(s) : \E j \in i .. Len(s) : ChunkProposes(s, class, i, j, v)
<1>. DEFINE m == Len(s)
            At(i, j) ==
              LET t == Traversal(s, i) IN
              IF \E k \in i .. j : ~Has(s[k], class) THEN <<>>
              ELSE CASE Lost(t, i, j) -> <<Seed(<<"chunk", class, "notPrefix">>, i, j)>>
                     [] ~Lost(t, i, j) /\ t[j] = "NoLeaf" -> <<Seed(<<"chunk", class, "prefix">>, i, j)>>
                     [] OTHER -> <<>>
            G == [p \in Spans(m) |-> At(p[1], p[2])]
<1>1. ChunkingSeeds(s, class) =
        FlattenSeq([i \in 1 .. m |-> FlattenSeq([k \in 1 .. m + 1 - i |-> At(i, i + k - 1)])])
  BY DEF ChunkingSeeds, Collect
<1>2. m \in Nat
  OBVIOUS
<1>3. ASSUME NEW i \in 1 .. m, NEW j \in i .. m
      PROVE  /\ IsSequence(At(i, j))
             /\ \A v : v \in ToSet(At(i, j)) <=> ChunkProposes(s, class, i, j, v)
  <2>. DEFINE t == Traversal(s, i)
              w == SubSeq(s, i, j)
              Run == \A k \in i .. j : Has(s[k], class)
              x == Seed(<<"chunk", class, Kind(w)>>, i, j)
  <2>1. /\ Lost(t, i, j) <=> ~BeginsWord(w)
        /\ ~Lost(t, i, j) => t[j] = IF w \in DOMAIN Dictionary THEN "Ok" ELSE "NoLeaf"
    BY TraversalTells DEF BeginsWord
  <2>2. w \in DOMAIN Dictionary => BeginsWord(w)
    BY WordBeginsItself
  <2>3. At(i, j) = IF ~Run THEN <<>>
                   ELSE CASE Lost(t, i, j) -> <<Seed(<<"chunk", class, "notPrefix">>, i, j)>>
                          [] ~Lost(t, i, j) /\ t[j] = "NoLeaf" -> <<Seed(<<"chunk", class, "prefix">>, i, j)>>
                          [] OTHER -> <<>>
    OBVIOUS
  <2>4. \A v : ChunkProposes(s, class, i, j, v) <=> Run /\ w \notin DOMAIN Dictionary /\ v = x
    BY DEF ChunkProposes
  <2>5. x = Seed(<<"chunk", class, IF BeginsWord(w) THEN "prefix" ELSE "notPrefix">>, i, j)
    BY DEF Kind
  <2>. HIDE DEF t, w, At, Run, x
  <2>6. At(i, j) = IF Run /\ w \notin DOMAIN Dictionary THEN <<x>> ELSE <<>>
    BY <2>1, <2>2, <2>3, <2>5
  <2>7. CASE Run /\ w \notin DOMAIN Dictionary
    BY <2>4, <2>6, <2>7, MembersOfOne
  <2>8. CASE ~(Run /\ w \notin DOMAIN Dictionary)
    BY <2>4, <2>6, <2>8, MembersOfNone
  <2>. QED
    BY <2>7, <2>8
<1>. HIDE DEF At
<1>4. \A i \in 1 .. m : \A j \in i .. m : G[<<i, j>>] = At(i, j)
  BY <1>2, SpanOf
<1>5. ChunkingSeeds(s, class) = WholeOf(m, G)
  <2>1. \A i \in 1 .. m : \A k \in 1 .. m + 1 - i : G[<<i, i + k - 1>>] = At(i, i + k - 1)
    BY <1>2, <1>4, SpanInside
  <2>. HIDE DEF G, m
  <2>. QED
    BY <1>1, <2>1 DEF WholeOf
<1>. HIDE DEF G, m
<1>6. \A i \in 1 .. m : \A j \in i .. m : IsSequence(G[<<i, j>>])
  BY <1>3, <1>4
<1>7. \A v : v \in ToSet(ChunkingSeeds(s, class)) <=> \E i \in 1 .. m : \E j \in i .. m : v \in ToSet(G[<<i, j>>])
  BY <1>2, <1>5, <1>6, WholeMembers
<1>8. ASSUME NEW v
      PROVE  v \in ToSet(ChunkingSeeds(s, class)) <=>
               \E i \in 1 .. m : \E j \in i .. m : ChunkProposes(s, class, i, j, v)
  <2>1. ASSUME NEW i \in 1 .. m, NEW j \in i .. m
        PROVE  v \in ToSet(G[<<i, j>>]) <=> ChunkProposes(s, class, i, j, v)
    <3>1. G[<<i, j>>] = At(i, j)
      BY <1>4
    <3>. QED
      BY <1>3, <3>1
  <2>. QED
    BY <1>7, <2>1
<1>. QED
  BY <1>8 DEF m

\* What the first step of a traversal tells of one character.
LEMMA FirstStepTells ==
  ASSUME NEW c \in Chars
  PROVE  Step(<<>>, c).status = IF <<c>> \in DOMAIN Dictionary THEN "Ok"
                                ELSE IF BeginsWord(<<c>>) THEN "NoLeaf" ELSE "NoNode"
<1>1. Append(<<>>, c) = <<c>> /\ <<>> \in Seq(Chars) /\ <<c>> \in Seq(Chars) /\ <<c>> # <<>>
  OBVIOUS
<1>2. Spelling(<<c>>) = <<>> \o Bytes[c]
  <2>1. Spelling(Append(<<>>, c)) = Spelling(<<>>) \o Bytes[c]
    BY <1>1, SpellingGrows
  <2>. QED
    BY <1>1, <2>1, SpellingOfNone
<1>3. Spelling(<<c>>) \in Leaves <=> <<c>> \in DOMAIN Dictionary
  BY <1>1, LeafTells
<1>4. Spelling(<<c>>) \in Trie <=> BeginsWord(<<c>>)
  BY <1>1, NodeTells DEF BeginsWord
<1>5. <<c>> \in DOMAIN Dictionary => BeginsWord(<<c>>)
  BY WordBeginsItself
<1>6. CASE BeginsWord(<<c>>)
  <2>1. Step(<<>>, c) = [at     |-> <<>> \o Bytes[c],
                         status |-> IF <<>> \o Bytes[c] \in Leaves THEN "Ok" ELSE "NoLeaf"]
    BY <1>2, <1>4, <1>6, TrieIsBytes, StepTells
  <2>. QED
    BY <1>2, <1>3, <1>6, <2>1
<1>7. CASE ~BeginsWord(<<c>>)
  <2>1. Step(<<>>, c).status = "NoNode"
    BY <1>2, <1>4, <1>7, TrieIsBytes, StepTells
  <2>. QED
    BY <1>5, <1>7, <2>1
<1>. QED
  BY <1>6, <1>7

\* What the maker of single characters proposes: each that is no word.
SingleProposes(s, class, i, j, v) ==
  /\ j = i /\ Has(s[i], class) /\ <<s[i]>> \notin DOMAIN Dictionary
  /\ v = Seed(<<"single", class, Kind(<<s[i]>>)>>, i, j)
LEMMA SingleMembers ==
  ASSUME NEW s \in Seq(Chars), NEW class
  PROVE  \A v : v \in ToSet(SingleSeeds(s, class)) <=>
           \E i \in 1 .. Len(s) : \E j \in i .. Len(s) : SingleProposes(s, class, i, j, v)
<1>. DEFINE m == Len(s)
            At(i, j) ==
              LET status == Step(<<>>, s[i]).status IN
              IF j > i \/ ~Has(s[i], class) \/ status = "Ok" THEN <<>>
              ELSE <<Seed(<<"single", class, IF status = "NoNode" THEN "notPrefix" ELSE "prefix">>, i, j)>>
            G == [p \in Spans(m) |-> At(p[1], p[2])]
<1>1. SingleSeeds(s, class) =
        FlattenSeq([i \in 1 .. m |-> FlattenSeq([k \in 1 .. m + 1 - i |-> At(i, i + k - 1)])])
  BY DEF SingleSeeds, Collect
<1>2. m \in Nat
  OBVIOUS
<1>3. ASSUME NEW i \in 1 .. m, NEW j \in i .. m
      PROVE  /\ IsSequence(At(i, j))
             /\ \A v : v \in ToSet(At(i, j)) <=> SingleProposes(s, class, i, j, v)
  <2>. DEFINE status == Step(<<>>, s[i]).status
              c == s[i]
              x == Seed(<<"single", class, Kind(<<c>>)>>, i, j)
              Here == j = i /\ Has(c, class) /\ <<c>> \notin DOMAIN Dictionary
  <2>1. status = IF <<c>> \in DOMAIN Dictionary THEN "Ok"
                 ELSE IF BeginsWord(<<c>>) THEN "NoLeaf" ELSE "NoNode"
    <3>1. c \in Chars
      OBVIOUS
    <3>. QED
      BY <3>1, FirstStepTells
  <2>2. <<c>> \in DOMAIN Dictionary => BeginsWord(<<c>>)
    BY WordBeginsItself
  <2>3. At(i, j) = IF j > i \/ ~Has(c, class) \/ status = "Ok" THEN <<>>
                   ELSE <<Seed(<<"single", class, IF status = "NoNode" THEN "notPrefix" ELSE "prefix">>, i, j)>>
    OBVIOUS
  <2>4. \A v : SingleProposes(s, class, i, j, v) <=> Here /\ v = x
    BY DEF SingleProposes
  <2>5. x = Seed(<<"single", class, IF BeginsWord(<<c>>) THEN "prefix" ELSE "notPrefix">>, i, j)
    BY DEF Kind
  <2>6. j > i <=> j # i
    BY <1>2
  <2>7. Here <=> ~(j > i \/ ~Has(c, class) \/ status = "Ok")
    <3>. HIDE DEF status, c
    <3>. QED
      BY <2>1, <2>6
  <2>. HIDE DEF status, c, At, Here, x
  <2>8. At(i, j) = IF Here THEN <<x>> ELSE <<>>
    <3>1. CASE Here
      <4>1. (IF status = "NoNode" THEN "notPrefix" ELSE "prefix")
              = IF BeginsWord(<<c>>) THEN "prefix" ELSE "notPrefix"
        BY <2>1, <2>7, <3>1
      <4>. QED
        BY <2>3, <2>5, <2>7, <3>1, <4>1
    <3>2. CASE ~Here
      BY <2>3, <2>7, <3>2
    <3>. QED
      BY <3>1, <3>2
  <2>9. CASE Here
    BY <2>4, <2>8, <2>9, MembersOfOne
  <2>10. CASE ~Here
    BY <2>4, <2>8, <2>10, MembersOfNone
  <2>. QED
    BY <2>9, <2>10
<1>. HIDE DEF At
<1>4. \A i \in 1 .. m : \A j \in i .. m : G[<<i, j>>] = At(i, j)
  BY <1>2, SpanOf
<1>5. SingleSeeds(s, class) = WholeOf(m, G)
  <2>1. \A i \in 1 .. m : \A k \in 1 .. m + 1 - i : G[<<i, i + k - 1>>] = At(i, i + k - 1)
    BY <1>2, <1>4, SpanInside
  <2>. HIDE DEF G, m
  <2>. QED
    BY <1>1, <2>1 DEF WholeOf
<1>. HIDE DEF G, m
<1>6. \A i \in 1 .. m : \A j \in i .. m : IsSequence(G[<<i, j>>])
  BY <1>3, <1>4
<1>7. \A v : v \in ToSet(SingleSeeds(s, class)) <=> \E i \in 1 .. m : \E j \in i .. m : v \in ToSet(G[<<i, j>>])
  BY <1>2, <1>5, <1>6, WholeMembers
<1>8. ASSUME NEW v
      PROVE  v \in ToSet(SingleSeeds(s, class)) <=>
               \E i \in 1 .. m : \E j \in i .. m : SingleProposes(s, class, i, j, v)
  <2>1. ASSUME NEW i \in 1 .. m, NEW j \in i .. m
        PROVE  v \in ToSet(G[<<i, j>>]) <=> SingleProposes(s, class, i, j, v)
    <3>1. G[<<i, j>>] = At(i, j)
      BY <1>4
    <3>. QED
      BY <1>3, <3>1
  <2>. QED
    BY <1>7, <2>1
<1>. QED
  BY <1>8 DEF m

-----------------------------------------------------------------------------
(* The words of a sentence *)

\* The words of several makers are those of each of them.
LEMMA WordsMembers ==
  ASSUME NEW s \in Inputs \ Refused, NEW ms \in Seq(Makers)
  PROVE  \A v : v \in ToSet(Words(s, ms)) <=> \E i \in 1 .. Len(ms) : v \in ToSet(Spawned[s][ms[i]])
<1>1. PICK f : Appends(f, s, ms) /\ ValuesIn(f, Len(ms), Seq(Given(s))) /\ Words(s, ms) = f[Len(ms)]
  BY WordsAppend
<1>2. Len(ms) \in Nat /\ \A i \in 1 .. Len(ms) : ms[i] \in Makers
  OBVIOUS
<1>. DEFINE Of(k, v) == \E i \in 1 .. k : v \in ToSet(Spawned[s][ms[i]])
            H == {k \in Nat : \A v : v \in ToSet(f[k]) <=> Of(k, v)}
<1>3. 0 \in H
  BY <1>1, MembersOfNone DEF Appends
<1>4. ASSUME NEW k \in 0 .. Len(ms) - 1, k \in H PROVE k + 1 \in H
  <2>1. /\ k \in 0 .. Len(ms) /\ k + 1 \in 1 .. Len(ms) /\ (k + 1) - 1 = k /\ k + 1 \in Nat
        /\ 1 .. k + 1 = (1 .. k) \cup {k + 1}
    BY <1>2
  <2>2. /\ f[k + 1] = f[k] \o Spawned[s][ms[k + 1]]
        /\ f[k] \in Seq(Given(s)) /\ Spawned[s][ms[k + 1]] \in Seq(Given(s))
    BY <1>1, <1>2, <2>1, GivenSeeds DEF Appends, ValuesIn
  <2>3. \A v : v \in ToSet(f[k + 1]) <=> v \in ToSet(f[k]) \/ v \in ToSet(Spawned[s][ms[k + 1]])
    BY <2>2, ConcatMembers
  <2>4. \A v : Of(k + 1, v) <=> Of(k, v) \/ v \in ToSet(Spawned[s][ms[k + 1]])
    BY <2>1
  <2>5. \A v : v \in ToSet(f[k]) <=> Of(k, v)
    BY <1>4
  <2>. HIDE DEF Of
  <2>. QED
    BY <2>1, <2>3, <2>4, <2>5
<1>5. Len(ms) \in H
  <2>1. 0 \in Int /\ Len(ms) \in Int /\ Len(ms) \in 0 .. Len(ms)
    BY <1>2
  <2>. HIDE DEF H
  <2>2. \A k \in 0 .. Len(ms) : k \in H
    BY <1>3, <1>4, <2>1, InductionTo
  <2>. QED
    BY <2>1, <2>2
<1>. QED
  BY <1>1, <1>5

\* The makers JumanDIC has in each stage.
LEMMA StagesOfJumandic ==
  /\ Len(MakersOf(1)) = 8 /\ Len(MakersOf(2)) = 10
  /\ \A i \in 1 .. 8 : MakersOf(1)[i] = JumandicStage1[i] /\ MakersOf(2)[i] = JumandicStage1[i]
  /\ MakersOf(2)[9] = "hiragana" /\ MakersOf(2)[10] = "notImpl"
<1>1. Stage1 = JumandicStage1 /\ Stage2 = JumandicStage2
  BY MakersAssumption
<1>. QED
  BY <1>1 DEF MakersOf, JumandicStage1, JumandicStage2

\* The words of the accepted sentence s.
LEMMA SentenceText ==
  ASSUME NEW s \in Inputs \ Refused
  PROVE  s.text \in Seq(Chars) /\ Size[s] = Len(s.text) /\ Size[s] \in Nat
<1>. QED
  BY MakersAssumption, InputsAssumption DEF Chars

\* The classes a character may have.
TypeSets ==
  {{"SPACE"}, {"IDEOGRAPHIC_PUNC"}, {"SYMBOL", "ERA"}, {"HIRAGANA"}, {"HIRAGANA", "SMALL_KANA"},
   {"KATAKANA"}, {"KATAKANA", "SMALL_KANA"}, {"HIRAGANA", "KATAKANA", "CHOON"},
   {"HANKAKU_KANA", "CHOON"}, {"HANKAKU_KANA"}, {"MIDDLE_DOT"}, {"COMMA"}, {"SLASH"}, {"COLON"},
   {"PERIOD"}, {"FIGURE"}, {"KANJI_FIGURE", "KANJI"}, {"FIGURE_EXCEPTION", "KANJI"},
   {"KANJI_FIGURE", "FIGURE_DIGIT"}, {"ALPH"}, {"KANJI"}, {"BRACKET"}, {"SYMBOL"}}

LEMMA TypesOfCode == \A code : CodeType(code) \in TypeSets
<1>. SUFFICES ASSUME NEW code PROVE CodeType(code) \in TypeSets
  OBVIOUS
<1>1. /\ {"SPACE"} \in TypeSets /\ {"IDEOGRAPHIC_PUNC"} \in TypeSets /\ {"SYMBOL", "ERA"} \in TypeSets
      /\ {"HIRAGANA", "KATAKANA", "CHOON"} \in TypeSets /\ {"HANKAKU_KANA", "CHOON"} \in TypeSets
      /\ {"HANKAKU_KANA"} \in TypeSets /\ {"MIDDLE_DOT"} \in TypeSets /\ {"COMMA"} \in TypeSets
      /\ {"SLASH"} \in TypeSets /\ {"COLON"} \in TypeSets /\ {"PERIOD"} \in TypeSets
      /\ {"FIGURE"} \in TypeSets /\ {"KANJI_FIGURE", "KANJI"} \in TypeSets
      /\ {"FIGURE_EXCEPTION", "KANJI"} \in TypeSets /\ {"KANJI_FIGURE", "FIGURE_DIGIT"} \in TypeSets
      /\ {"ALPH"} \in TypeSets /\ {"KANJI"} \in TypeSets /\ {"BRACKET"} \in TypeSets
      /\ {"SYMBOL"} \in TypeSets
  BY DEF TypeSets
<1>2. {"HIRAGANA"} \cup SmallKana(code) \in TypeSets /\ {"KATAKANA"} \cup SmallKana(code) \in TypeSets
  <2>1. SmallKana(code) = {} \/ SmallKana(code) = {"SMALL_KANA"}
    BY DEF SmallKana
  <2>2. /\ {"HIRAGANA"} \cup {} = {"HIRAGANA"} /\ {"HIRAGANA"} \cup {"SMALL_KANA"} = {"HIRAGANA", "SMALL_KANA"}
        /\ {"KATAKANA"} \cup {} = {"KATAKANA"} /\ {"KATAKANA"} \cup {"SMALL_KANA"} = {"KATAKANA", "SMALL_KANA"}
    OBVIOUS
  <2>3. /\ {"HIRAGANA"} \in TypeSets /\ {"HIRAGANA", "SMALL_KANA"} \in TypeSets
        /\ {"KATAKANA"} \in TypeSets /\ {"KATAKANA", "SMALL_KANA"} \in TypeSets
    BY DEF TypeSets
  <2>. QED
    BY <2>1, <2>2, <2>3
<1>. DEFINE p1 == code \in SPACES
            p2 == code \in 12289 .. 12290
            p3 == code \in 13179 .. 13182
            p4 == code \in 12352 .. 12447
            p5 == code \in 12448 .. 12538 \cup 12541 .. 12543
            p6 == code \in CHOONS
            p7 == code = 65392
            p8 == code \in 65382 .. 65439 \ {65392}
            p9 == code \in {183, 12539}
            p10 == code \in {44, 65292}
            p11 == code \in {47, 65295}
            p12 == code \in {58, 65306}
            p13 == code = 65294
            p14 == code \in 48 .. 57 \cup 65296 .. 65305
            p15 == code \in KANJI_FIGURES
            p16 == code \in FIGURE_EXCEPTIONS
            p17 == code \in DIGITS_BY_NAME
            p18 == code \in ALPHABETS
            p19 == /\ code \in 19968 .. 40959 \/ code = 12293
                   /\ code \notin KANJI_FIGURES \cup FIGURE_EXCEPTIONS \cup DIGITS_BY_NAME
            p20 == code \in brackets \ ALPHABETS
<1>3. CodeType(code) = CASE p1 -> {"SPACE"}
                        [] p2 -> {"IDEOGRAPHIC_PUNC"}
                        [] p3 -> {"SYMBOL", "ERA"}
                        [] p4 -> {"HIRAGANA"} \cup SmallKana(code)
                        [] p5 -> {"KATAKANA"} \cup SmallKana(code)
                        [] p6 -> {"HIRAGANA", "KATAKANA", "CHOON"}
                        [] p7 -> {"HANKAKU_KANA", "CHOON"}
                        [] p8 -> {"HANKAKU_KANA"}
                        [] p9 -> {"MIDDLE_DOT"}
                        [] p10 -> {"COMMA"}
                        [] p11 -> {"SLASH"}
                        [] p12 -> {"COLON"}
                        [] p13 -> {"PERIOD"}
                        [] p14 -> {"FIGURE"}
                        [] p15 -> {"KANJI_FIGURE", "KANJI"}
                        [] p16 -> {"FIGURE_EXCEPTION", "KANJI"}
                        [] p17 -> {"KANJI_FIGURE", "FIGURE_DIGIT"}
                        [] p18 -> {"ALPH"}
                        [] p19 -> {"KANJI"}
                        [] p20 -> {"BRACKET"}
                        [] OTHER -> {"SYMBOL"}
  BY DEF CodeType
<1>. HIDE DEF p1, p2, p3, p4, p5, p6, p7, p8, p9, p10, p11, p12, p13, p14, p15, p16, p17, p18, p19, p20
<1>. DEFINE T == TypeSets
<1>4. T = TypeSets
  OBVIOUS
<1>. HIDE DEF T
<1>. QED
  BY <1>1, <1>2, <1>3, <1>4

\* getCodeType gives every code point a class.
LEMMA EveryCodeHasType == \A code : CodeType(code) \cap ANYTHING # {}
<1>1. \A types \in TypeSets : types \cap ANYTHING # {}
  BY DEF TypeSets, ANYTHING
<1>. QED
  BY <1>1, TypesOfCode

LEMMA AnyCharacter == \A c \in Chars : Has(c, ANYTHING)
<1>1. ASSUME NEW c \in Chars PROVE Classes[c] = CodeType(Codepoint(Bytes[c], 1).codepoint)
  BY CharactersAssumption DEF Chars
<1>. QED
  BY <1>1, EveryCodeHasType DEF Has

\* Every character of a sentence is a word of its own: the dictionary's, or
\* that of the maker of last resort.
LEMMA EveryCharacterProposed ==
  ASSUME NEW s \in Inputs \ Refused, NEW i \in 1 .. Size[s]
  PROVE  \E v \in ToSet(Words(s, MakersOf(2))) : v.from = i - 1 /\ v.to = i
<1>. DEFINE t == s.text
            m == Len(t)
            c == t[i]
<1>1. t \in Seq(Chars) /\ i \in 1 .. m /\ m \in Nat
  BY SentenceText
<1>2. c \in Chars /\ SubSeq(t, i, i) = <<c>> /\ i \in i .. i /\ i \in i .. m
  <2>. HIDE DEF t
  <2>1. c \in Chars /\ i \in i .. i /\ i \in i .. m /\ i - 1 \in i - 1 .. m - 1 /\ (i - 1) + 1 = i
    BY <1>1
  <2>2. SubSeq(t, i, i - 1) = <<>> /\ Append(<<>>, c) = <<c>>
    BY <1>1, <2>1
  <2>3. SubSeq(t, i, i) = Append(SubSeq(t, i, i - 1), c)
    BY <1>1, <2>1, PartGrows
  <2>. QED
    BY <2>1, <2>2, <2>3
<1>3. /\ Spawned[s]["dictionary"] = DicSeeds(t)
      /\ Spawned[s]["notImpl"] = SingleSeeds(t, ANYTHING)
  <2>1. Spawned[s] = SeedsOf(s)
    BY MakersAssumption
  <2>2. SeedsOf(s)["dictionary"] = DicSeeds(s.text) /\ SeedsOf(s)["notImpl"] = SingleSeeds(s.text, ANYTHING)
    BY DEF SeedsOf
  <2>. QED
    BY <2>1, <2>2
<1>4. /\ MakersOf(2) \in Seq(Makers) /\ Len(MakersOf(2)) = 10
      /\ MakersOf(2)[1] = "dictionary" /\ MakersOf(2)[10] = "notImpl"
  <2>1. JumandicStage1[1] = "dictionary" /\ 1 \in 1 .. 8
    BY DEF JumandicStage1
  <2>. QED
    BY <2>1, StagesOfJumandic, MakersOfStages
<1>. HIDE DEF t, m, c
<1>5. \A v : v \in ToSet(DicSeeds(t)) \/ v \in ToSet(SingleSeeds(t, ANYTHING)) => v \in ToSet(Words(s, MakersOf(2)))
  <2>1. \A v : v \in ToSet(Words(s, MakersOf(2))) <=>
                 \E k \in 1 .. 10 : v \in ToSet(Spawned[s][MakersOf(2)[k]])
    BY <1>4, WordsMembers
  <2>2. 1 \in 1 .. 10 /\ 10 \in 1 .. 10
    OBVIOUS
  <2>. QED
    BY <1>3, <1>4, <2>1, <2>2
<1>6. \A e : Seed(e, i, i).from = i - 1 /\ Seed(e, i, i).to = i
  BY DEF Seed
<1>7. CASE <<c>> \in DOMAIN Dictionary
  <2>. DEFINE v == Seed(<<"dic", <<c>>, 1>>, i, i)
  <2>1. 1 \in 1 .. Dictionary[<<c>>]
    BY <1>7, DictionaryAssumption
  <2>2. DicProposes(SubSeq(t, i, i), i, i, v)
    BY <1>2, <1>7, <2>1 DEF DicProposes
  <2>3. v \in ToSet(DicSeeds(t))
    <3>. HIDE DEF v
    <3>1. \E k \in 1 .. Len(t) : \E j \in k .. Len(t) : DicProposes(SubSeq(t, k, j), k, j, v)
      BY <1>1, <1>2, <2>2 DEF m
    <3>. QED
      BY <1>1, <3>1, DicMembers
  <2>. QED
    BY <1>5, <1>6, <2>3
<1>8. CASE <<c>> \notin DOMAIN Dictionary
  <2>. DEFINE v == Seed(<<"single", ANYTHING, Kind(<<c>>)>>, i, i)
  <2>1. SingleProposes(t, ANYTHING, i, i, v)
    BY <1>2, <1>8, AnyCharacter DEF SingleProposes, c
  <2>2. v \in ToSet(SingleSeeds(t, ANYTHING))
    <3>. HIDE DEF v
    <3>1. \E k \in 1 .. Len(t) : \E j \in k .. Len(t) : SingleProposes(t, ANYTHING, k, j, v)
      BY <1>1, <1>2, <2>1 DEF m
    <3>. QED
      BY <1>1, <3>1, SingleMembers
  <2>. QED
    BY <1>5, <1>6, <2>2
<1>. QED
  BY <1>7, <1>8

\* So chains of the words of both stages reach the end of every sentence.
LEMMA BothStagesReach ==
  ASSUME input \in Inputs \ Refused
  PROVE  n \in Reachable(SeedsUpTo(2))
<1>. DEFINE w == SeedsUpTo(2)
            R == ReachedBy(w, n)
<1>1. n = Size[input] /\ n \in Nat /\ w = Words(input, MakersOf(2)) /\ Reachable(w) = R
  BY SentenceText, SeedsAreWords DEF n, Reachable
<1>2. \A b \in 0 .. n - 1 : \E k \in DOMAIN w : w[k].from = b /\ w[k].to = b + 1
  <2>1. ASSUME NEW b \in 0 .. n - 1 PROVE \E k \in DOMAIN w : w[k].from = b /\ w[k].to = b + 1
    <3>. DEFINE i == b + 1
    <3>1. i \in 1 .. Size[input] /\ i - 1 = b
      BY <1>1
    <3>. HIDE DEF i, w
    <3>2. PICK v \in ToSet(w) : v.from = i - 1 /\ v.to = i
      BY <1>1, <3>1, EveryCharacterProposed
    <3>3. PICK k \in DOMAIN w : v = w[k]
      BY DEF ToSet
    <3>. QED
      BY <3>1, <3>2, <3>3 DEF i
  <2>. QED
    BY <2>1
<1>3. Fit(w, n)
  <2>1. w \in Seq(Given(input))
    BY <1>1, MakersOfStages, WordsAreGiven
  <2>. HIDE DEF w
  <2>. QED
    BY <1>1, <2>1, GivenFit
<1>. HIDE DEF w
<1>4. 0 \in R /\ Closed(R, w)
  BY <1>1, <1>3, ReachedClosed
<1>. HIDE DEF R
<1>5. ASSUME NEW b \in 0 .. n - 1, b \in R PROVE b + 1 \in R
  BY <1>2, <1>4, <1>5 DEF Closed
<1>6. \A b \in 0 .. n : b \in R
  <2>1. 0 \in Int /\ n \in Int
    BY <1>1
  <2>. QED
    BY <1>4, <1>5, <2>1, InductionTo
<1>. QED
  BY <1>1, <1>6 DEF w

\* The check that decides whether to give up is right, and with both stages it
\* finds the end of the sentence: no step but the refusal of an input fails.
LEMMA BuiltStep == IInv /\ RowsDone /\ AlwaysBuilt /\ [Next]_vars => AlwaysBuilt'
<1>. SUFFICES ASSUME IInv, RowsInv, PassInv, AlwaysBuilt, [Next]_vars, phase' = "failed"
              PROVE  input' \in Refused
  BY DEF RowsDone, AlwaysBuilt
<1>1. CASE Reset
  BY <1>1 DEF Reset
<1>2. CASE Decide
  <2>1. phase = "check" /\ cursor > Len(seeds) /\ ~conn[n] /\ stage # 1
    BY <1>2 DEF Decide
  <2>2. phase \in Working /\ todo = <<>> /\ stage = 2
    BY <2>1 DEF RowsInv, Working, Checked
  <2>3. n \in Nat /\ Reachable(seeds) = Reachable(SeedsUpTo(2)) /\ input \in Inputs \ Refused
    BY <2>2, AllSpawned DEF IInv, SeedsInv
  <2>4. n \notin Reachable(seeds)
    BY <2>1, <2>3, PassIsDone
  <2>. QED
    BY <2>3, <2>4, BothStagesReach
<1>3. CASE UNCHANGED vars
  BY <1>3 DEF vars, AlwaysBuilt
<1>4. CASE \/ SpawnNodes \/ StartCheck \/ CheckSeed \/ Prepare \/ MakeBos
           \/ ConstructSingleBoundary \/ MakeEos \/ FillBosEnds \/ FillEnd \/ Return
  BY <1>4 DEF SpawnNodes, StartCheck, CheckSeed, Prepare, MakeBos, ConstructSingleBoundary,
              MakeEos, FillBosEnds, FillEnd, Return
<1>. QED
  BY <1>1, <1>2, <1>3, <1>4 DEF Next, Proceed

\* Whatever its characters are and whatever the dictionary holds, a sentence
\* that is accepted is never answered with an error of the builder.
THEOREM SentencesAreBuilt == Spec => []AlwaysBuilt
<1>1. Init => IInv /\ RowsDone /\ AlwaysBuilt
  BY InitInv, RowsInit DEF RowsDone, AlwaysBuilt, Init
<1>2. IInv /\ RowsDone /\ AlwaysBuilt /\ [Next]_vars => (IInv /\ RowsDone /\ AlwaysBuilt)'
  BY StepInv, RowsStep, BuiltStep
<1>. QED
  BY <1>1, <1>2, PTL DEF Spec

-----------------------------------------------------------------------------
(* Which runs are proposed as unknown *)

\* Every seed of q is of a kind.
AllOf(q, kind) == \A v \in ToSet(q) : v.entry[1] = kind
SeedsOfKind(q, kind) == IsSequence(q) /\ AllOf(q, kind)

LEMMA KindOfSeed == \A e, i, j : Seed(e, i, j).entry = e /\ Seed(e, i, j).from = i - 1 /\ Seed(e, i, j).to = j
BY DEF Seed

LEMMA OneOfKind ==
  ASSUME NEW e, NEW i, NEW j
  PROVE  SeedsOfKind(<<Seed(e, i, j)>>, e[1]) /\ SeedsOfKind(<<>>, e[1])
BY MembersOfOne, MembersOfNone, KindOfSeed DEF SeedsOfKind, AllOf

LEMMA WholeOfKind ==
  ASSUME NEW m \in Nat, NEW G, NEW kind, \A i \in 1 .. m : \A j \in i .. m : SeedsOfKind(G[<<i, j>>], kind)
  PROVE  AllOf(WholeOf(m, G), kind)
<1>1. \A i \in 1 .. m : \A j \in i .. m : IsSequence(G[<<i, j>>])
  BY DEF SeedsOfKind
<1>2. \A v : v \in ToSet(WholeOf(m, G)) <=> \E i \in 1 .. m : \E j \in i .. m : v \in ToSet(G[<<i, j>>])
  BY <1>1, WholeMembers
<1>. QED
  BY <1>2 DEF SeedsOfKind, AllOf

\* What the maker of numbers proposes: the longest number that starts at i,
\* unless it is in the dictionary as one.
NumberProposes(s, behind, i, j, v) ==
  /\ j + 1 = FindLongestNumber(s, i, behind)
  /\ BeginsWord(SubSeq(s, i, j)) => SubSeq(s, i, j) \notin Figures
  /\ v = Seed(<<"number", Kind(SubSeq(s, i, j))>>, i, j)
LEMMA NumberIs ==
  ASSUME NEW s, NEW behind, NEW i, NEW j, NEW v, NumberProposes(s, behind, i, j, v)
  PROVE  v.entry[1] = "number" /\ v.from = i - 1 /\ v.to = j
<1>. DEFINE e == <<"number", Kind(SubSeq(s, i, j))>>
<1>1. v = Seed(e, i, j) /\ e[1] = "number"
  BY DEF NumberProposes
<1>. HIDE DEF e
<1>. QED
  BY <1>1, KindOfSeed

LEMMA NumberMembers ==
  ASSUME NEW s \in Seq(Chars), NEW behind
  PROVE  /\ \A v : v \in ToSet(NumericSeeds(s, behind)) <=>
              \E i \in 1 .. Len(s) : \E j \in i .. Len(s) : NumberProposes(s, behind, i, j, v)
         /\ \A v : Once(NumericSeeds(s, behind), v)
<1>. DEFINE m == Len(s)
            At(i, j) ==
              LET t == Traversal(s, i) IN
              CASE j + 1 # FindLongestNumber(s, i, behind) -> <<>>
                [] j + 1 = FindLongestNumber(s, i, behind) /\ Lost(t, i, j) ->
                     <<Seed(<<"number", "notPrefix">>, i, j)>>
                [] j + 1 = FindLongestNumber(s, i, behind) /\ ~Lost(t, i, j)
                     /\ SubSeq(s, i, j) \notin Figures -> <<Seed(<<"number", "prefix">>, i, j)>>
                [] OTHER -> <<>>
            G == [p \in Spans(m) |-> At(p[1], p[2])]
<1>1. NumericSeeds(s, behind) =
        FlattenSeq([i \in 1 .. m |-> FlattenSeq([k \in 1 .. m + 1 - i |-> At(i, i + k - 1)])])
  BY DEF NumericSeeds, Collect
<1>2. m \in Nat
  OBVIOUS
<1>3. ASSUME NEW i \in 1 .. m, NEW j \in i .. m
      PROVE  /\ IsSequence(At(i, j)) /\ \A v : Once(At(i, j), v)
             /\ \A v : v \in ToSet(At(i, j)) <=> NumberProposes(s, behind, i, j, v)
  <2>. DEFINE t == Traversal(s, i)
              w == SubSeq(s, i, j)
              Ends == j + 1 = FindLongestNumber(s, i, behind)
              x == Seed(<<"number", Kind(w)>>, i, j)
  <2>1. Lost(t, i, j) <=> ~BeginsWord(w)
    BY TraversalTells DEF BeginsWord
  <2>2. At(i, j) = CASE ~Ends -> <<>>
                     [] Ends /\ Lost(t, i, j) -> <<Seed(<<"number", "notPrefix">>, i, j)>>
                     [] Ends /\ ~Lost(t, i, j) /\ w \notin Figures -> <<Seed(<<"number", "prefix">>, i, j)>>
                     [] OTHER -> <<>>
    OBVIOUS
  <2>3. \A v : NumberProposes(s, behind, i, j, v) <=> Ends /\ (BeginsWord(w) => w \notin Figures) /\ v = x
    BY DEF NumberProposes
  <2>4. x = Seed(<<"number", IF BeginsWord(w) THEN "prefix" ELSE "notPrefix">>, i, j)
    BY DEF Kind
  <2>. HIDE DEF t, w, At, Ends, x
  <2>5. At(i, j) = IF Ends /\ (BeginsWord(w) => w \notin Figures) THEN <<x>> ELSE <<>>
    BY <2>1, <2>2, <2>4
  <2>6. \A v : Once(<<x>>, v) /\ Once(<<>>, v)
    BY DEF Once
  <2>7. CASE Ends /\ (BeginsWord(w) => w \notin Figures)
    BY <2>3, <2>5, <2>6, <2>7, MembersOfOne
  <2>8. CASE ~(Ends /\ (BeginsWord(w) => w \notin Figures))
    BY <2>3, <2>5, <2>6, <2>8, MembersOfNone
  <2>. QED
    BY <2>7, <2>8
<1>. HIDE DEF At
<1>4. \A i \in 1 .. m : \A j \in i .. m : G[<<i, j>>] = At(i, j)
  BY <1>2, SpanOf
<1>5. NumericSeeds(s, behind) = WholeOf(m, G)
  <2>1. \A i \in 1 .. m : \A k \in 1 .. m + 1 - i : G[<<i, i + k - 1>>] = At(i, i + k - 1)
    BY <1>2, <1>4, SpanInside
  <2>. HIDE DEF G, m
  <2>. QED
    BY <1>1, <2>1 DEF WholeOf
<1>. HIDE DEF G, m
<1>6. ASSUME NEW i \in 1 .. m, NEW j \in i .. m
      PROVE  /\ IsSequence(G[<<i, j>>]) /\ \A v : Once(G[<<i, j>>], v)
             /\ \A v : v \in ToSet(G[<<i, j>>]) <=> NumberProposes(s, behind, i, j, v)
  <2>1. G[<<i, j>>] = At(i, j)
    BY <1>4
  <2>. QED
    BY <1>3, <2>1
<1>7. ASSUME NEW v
      PROVE  v \in ToSet(NumericSeeds(s, behind)) <=>
               \E i \in 1 .. m : \E j \in i .. m : NumberProposes(s, behind, i, j, v)
  <2>1. \A y : y \in ToSet(WholeOf(m, G)) <=> \E i \in 1 .. m : \E j \in i .. m : y \in ToSet(G[<<i, j>>])
    BY <1>2, <1>6, WholeMembers
  <2>. QED
    BY <1>5, <1>6, <2>1
<1>8. ASSUME NEW v PROVE Once(NumericSeeds(s, behind), v)
  <2>1. ASSUME NEW i \in 1 .. m, NEW a \in 1 .. m, NEW j \in i .. m, NEW b \in a .. m,
               v \in ToSet(G[<<i, j>>]), v \in ToSet(G[<<a, b>>])
        PROVE  i = a /\ j = b
    <3>1. NumberProposes(s, behind, i, j, v) /\ NumberProposes(s, behind, a, b, v)
      BY <1>6, <2>1
    <3>2. v.from = i - 1 /\ v.to = j /\ v.from = a - 1 /\ v.to = b
      BY <3>1, NumberIs
    <3>. QED
      BY <1>2, <3>2
  <2>2. \A i, a \in 1 .. m : \A j \in i .. m : \A b \in a .. m :
          v \in ToSet(G[<<i, j>>]) /\ v \in ToSet(G[<<a, b>>]) => i = a /\ j = b
    BY <2>1
  <2>3. \A i \in 1 .. m : \A j \in i .. m : IsSequence(G[<<i, j>>]) /\ Once(G[<<i, j>>], v)
    BY <1>6
  <2>4. Once(WholeOf(m, G), v)
    BY <1>2, <2>2, <2>3, WholeOnce
  <2>. QED
    BY <1>5, <2>4
<1>. QED
  BY <1>7, <1>8 DEF m

LEMMA NumbersOfKind ==
  ASSUME NEW s \in Seq(Chars), NEW behind
  PROVE  AllOf(NumericSeeds(s, behind), "number")
<1>1. ASSUME NEW v, NEW i, NEW j, NumberProposes(s, behind, i, j, v) PROVE v.entry[1] = "number"
  BY <1>1, NumberIs
<1>. QED
  BY <1>1, NumberMembers DEF AllOf

LEMMA OnomatopoeiaOfKind ==
  ASSUME NEW s \in Seq(Chars), NEW class
  PROVE  AllOf(OnomatopoeiaSeeds(s, class), "onomatopoeia")
<1>. DEFINE m == Len(s)
            At(i, j) ==
              LET half == (j - i + 1) \div 2
                  status == Traversal(s, i)[j] IN
              IF (j - i + 1) % 2 = 1 \/ half \notin Patterns(s, i, class) \/ status = "Ok" THEN <<>>
              ELSE <<Seed(<<"onomatopoeia", class,
                            IF status = "NoNode" THEN "notPrefix" ELSE "prefix">>, i, j)>>
            G == [p \in Spans(m) |-> At(p[1], p[2])]
<1>1. OnomatopoeiaSeeds(s, class) =
        FlattenSeq([i \in 1 .. m |-> FlattenSeq([k \in 1 .. m + 1 - i |-> At(i, i + k - 1)])])
  BY DEF OnomatopoeiaSeeds, Collect
<1>2. m \in Nat
  OBVIOUS
<1>3. ASSUME NEW i, NEW j PROVE SeedsOfKind(At(i, j), "onomatopoeia")
  <2>. DEFINE e == <<"onomatopoeia", class,
                     IF Traversal(s, i)[j] = "NoNode" THEN "notPrefix" ELSE "prefix">>
  <2>1. At(i, j) \in {<<>>, <<Seed(e, i, j)>>} /\ e[1] = "onomatopoeia"
    OBVIOUS
  <2>. HIDE DEF At, e
  <2>. QED
    BY <2>1, OneOfKind
<1>. HIDE DEF At
<1>4. \A i \in 1 .. m : \A j \in i .. m : G[<<i, j>>] = At(i, j)
  BY <1>2, SpanOf
<1>5. OnomatopoeiaSeeds(s, class) = WholeOf(m, G)
  <2>1. \A i \in 1 .. m : \A k \in 1 .. m + 1 - i : G[<<i, i + k - 1>>] = At(i, i + k - 1)
    BY <1>2, <1>4, SpanInside
  <2>. HIDE DEF G, m
  <2>. QED
    BY <1>1, <2>1 DEF WholeOf
<1>. HIDE DEF G, m
<1>6. \A i \in 1 .. m : \A j \in i .. m : SeedsOfKind(G[<<i, j>>], "onomatopoeia")
  BY <1>3, <1>4
<1>. QED
  BY <1>2, <1>5, <1>6, WholeOfKind

-----------------------------------------------------------------------------
(* Which other spellings the normaliser finds *)

Reasons == {{}, {"DELETE", "DELETE_PROLONG"}, {"DELETE", "DELETE_HASTSUON"}, {"DELETE", "DELETE_SMALLKANA"}}

\* Why a character may be dropped.
LEMMA DeletionsAre ==
  ASSUME NEW s \in Seq(Chars), NEW k \in 0 .. Len(s)
  PROVE  Deletions(s)[k] \in Reasons
<1>. DEFINE m == Len(s)
            Why(x, pre) == CASE IsRemovableProlong(s, x, pre) -> {"DELETE", "DELETE_PROLONG"}
                             [] CheckRemovableHatsuon(s, x, pre) -> {"DELETE", "DELETE_HASTSUON"}
                             [] CheckRemovableYouon(s, x, pre) -> {"DELETE", "DELETE_SMALLKANA"}
                             [] OTHER -> {}
            At(x, before) == IF x = 0 \/ ~Has(s[x], DOUBLE) THEN {} ELSE Why(x, before # {})
            G == [p \in (1 .. m) \X Reasons |-> At(p[1], p[2])]
            Eq(f) == f = [x \in 0 .. m |->
                            IF x = 0 \/ ~Has(s[x], DOUBLE) THEN {}
                            ELSE LET pre == f[x - 1] # {}
                                 IN CASE IsRemovableProlong(s, x, pre) -> {"DELETE", "DELETE_PROLONG"}
                                      [] CheckRemovableHatsuon(s, x, pre) -> {"DELETE", "DELETE_HASTSUON"}
                                      [] CheckRemovableYouon(s, x, pre) -> {"DELETE", "DELETE_SMALLKANA"}
                                      [] OTHER -> {}]
<1>1. m \in Nat
  OBVIOUS
<1>2. \A x, pre : Why(x, pre) \in Reasons
  BY DEF Reasons
<1>3. Deletions(s) = CHOOSE f : Eq(f)
  BY DEF Deletions
<1>4. \A f : Eq(f) <=> f = [x \in 0 .. m |-> At(x, f[x - 1])]
  OBVIOUS
<1>. HIDE DEF Why, Eq
<1>5. {} \in Reasons /\ \A x, before : At(x, before) \in Reasons
  BY <1>2 DEF Reasons
<1>. HIDE DEF At
<1>6. G \in [(1 .. m) \X Reasons -> Reasons]
  BY <1>5
<1>7. PICK g \in [0 .. m -> Reasons] : IsRecursive(g, m, {}, G)
  <2>. HIDE DEF G, m
  <2>. QED
    BY <1>1, <1>5, <1>6, RecursionExists
<1>8. g = [x \in 0 .. m |-> At(x, g[x - 1])]
  <2>1. g = [x \in 0 .. m |-> IF x = 0 THEN {} ELSE G[<<x, g[x - 1]>>]]
    BY <1>7 DEF IsRecursive
  <2>2. ASSUME NEW x \in 0 .. m
        PROVE  (IF x = 0 THEN {} ELSE G[<<x, g[x - 1]>>]) = At(x, g[x - 1])
    <3>1. CASE x = 0
      BY <3>1 DEF At
    <3>2. CASE x # 0
      <4>1. x \in 1 .. m /\ x - 1 \in 0 .. m
        BY <1>1, <3>2
      <4>2. <<x, g[x - 1]>> \in (1 .. m) \X Reasons
        <5>. HIDE DEF m, G
        <5>. QED
          BY <1>7, <4>1
      <4>. HIDE DEF m
      <4>. QED
        BY <3>2, <4>2
    <3>. QED
      BY <3>1, <3>2
  <2>. HIDE DEF G, m
  <2>. QED
    BY <2>1, <2>2
<1>9. Eq(g)
  <2>. HIDE DEF G, m
  <2>. QED
    BY <1>4, <1>8
<1>. DEFINE f == CHOOSE x : Eq(x)
<1>10. Eq(f)
  BY <1>9
<1>11. Deletions(s) = f
  BY <1>3
<1>. HIDE DEF f, G
<1>12. f = [x \in 0 .. m |-> At(x, f[x - 1])]
  BY <1>4, <1>10
<1>. DEFINE h == [x \in 0 .. m |-> At(x, f[x - 1])]
<1>13. h[k] \in Reasons
  BY <1>5
<1>. HIDE DEF h
<1>. QED
  BY <1>11, <1>12, <1>13 DEF h

\* What may be read for a character, and with which flags.
ChangesOf(s, k) == {Change(s[k], {})} \cup Substitutes(s, k)
FlagNames == {"REPLACE", "REPLACE_PROLONG", "REPLACE_EROW_WITH_E", "REPLACE_SMALLKANA",
              "DELETE", "DELETE_PROLONG", "DELETE_HASTSUON", "DELETE_SMALLKANA"}
LEMMA ChangesAre ==
  ASSUME NEW s \in Seq(Chars), NEW k \in 1 .. Len(s), NEW c \in ChangesOf(s, k)
  PROVE  c.char \in Chars /\ c.flags \in SUBSET FlagNames
<1>1. s[k] \in Chars
  OBVIOUS
<1>2. /\ \A x \in DOMAIN Prolonged : Prolonged[x] \in Chars
      /\ \A x \in DOMAIN ProlongedErow : ProlongedErow[x] \in Chars
      /\ \A x \in DOMAIN Enlarged : Enlarged[x] \in Chars
  BY NormalizedAssumption DEF Chars
<1>3. /\ {} \in SUBSET FlagNames /\ {"REPLACE", "REPLACE_PROLONG"} \in SUBSET FlagNames
      /\ {"REPLACE", "REPLACE_PROLONG", "REPLACE_EROW_WITH_E"} \in SUBSET FlagNames
      /\ {"REPLACE", "REPLACE_SMALLKANA"} \in SUBSET FlagNames
  BY DEF FlagNames
<1>4. \A x, flags : Change(x, flags).char = x /\ Change(x, flags).flags = flags
  BY DEF Change
<1>5. CASE c = Change(s[k], {})
  BY <1>1, <1>3, <1>4, <1>5
<1>6. CASE c \in Substitutes(s, k)
  <2>1. CASE IsChoon(s, k) /\ s[k - 1] \in DOMAIN Prolonged
    <3>1. \/ c = Change(Prolonged[s[k - 1]], {"REPLACE", "REPLACE_PROLONG"})
          \/ \E x \in DOMAIN ProlongedErow :
               c = Change(ProlongedErow[x], {"REPLACE", "REPLACE_PROLONG", "REPLACE_EROW_WITH_E"})
      BY <1>6, <2>1 DEF Substitutes
    <3>. QED
      BY <1>2, <1>3, <1>4, <2>1, <3>1
  <2>2. CASE ~(IsChoon(s, k) /\ s[k - 1] \in DOMAIN Prolonged)
    <3>1. \E x \in DOMAIN Enlarged : c = Change(Enlarged[x], {"REPLACE", "REPLACE_SMALLKANA"})
      BY <1>6, <2>2 DEF Substitutes
    <3>. QED
      BY <1>2, <1>3, <1>4, <3>1
  <2>. QED
    BY <2>1, <2>2
<1>. QED
  BY <1>5, <1>6 DEF ChangesOf

\* The spellings of a part of a text, and those of the part with the character
\* at k behind it.
LAST == {"DELETE_LAST"}
Respelled == {r \in Seq(Chars) \X SUBSET (FlagNames \cup LAST) : r[2] # {} => r[2] \ LAST # {}}
Kept(r, c) == <<Append(r[1], c.char), (r[2] \cup c.flags) \ LAST>>
Left(r, why) == <<r[1], r[2] \cup why \cup LAST>>
Grown(s, k, R) ==
  {Kept(p[1], p[2]) : p \in R \X ChangesOf(s, k)}
  \cup {Left(r, Deletions(s)[k]) : r \in {x \in R : Deletions(s)[k] # {}}}

LEMMA ReasonsAreFlags == \A why \in Reasons : why \subseteq FlagNames /\ why \cap LAST = {} /\ (why = {} \/ why \ LAST # {})
<1>1. /\ {"DELETE", "DELETE_PROLONG"} \subseteq FlagNames /\ {"DELETE", "DELETE_HASTSUON"} \subseteq FlagNames
      /\ {"DELETE", "DELETE_SMALLKANA"} \subseteq FlagNames
  BY DEF FlagNames
<1>2. /\ {"DELETE", "DELETE_PROLONG"} \cap LAST = {} /\ {"DELETE", "DELETE_HASTSUON"} \cap LAST = {}
      /\ {"DELETE", "DELETE_SMALLKANA"} \cap LAST = {}
  BY DEF LAST
<1>3. \A why \in Reasons : why \subseteq FlagNames /\ why \cap LAST = {}
  BY <1>1, <1>2 DEF Reasons
<1>. QED
  BY <1>3

LEMMA FlagsAreNotLast == FlagNames \cap LAST = {}
BY DEF FlagNames, LAST

LEMMA KeptIs ==
  ASSUME NEW s \in Seq(Chars), NEW k \in 1 .. Len(s), NEW r \in Respelled, NEW c \in ChangesOf(s, k)
  PROVE  Kept(r, c) \in Respelled /\ Kept(r, c)[1] = Append(r[1], c.char) /\ Kept(r, c)[2] = (r[2] \cup c.flags) \ LAST
<1>1. c.char \in Chars /\ c.flags \in SUBSET FlagNames
  BY ChangesAre
<1>2. r[1] \in Seq(Chars) /\ r[2] \in SUBSET (FlagNames \cup LAST)
  BY DEF Respelled
<1>. DEFINE a == Append(r[1], c.char)
            b == (r[2] \cup c.flags) \ LAST
<1>3. a \in Seq(Chars) /\ b \in SUBSET (FlagNames \cup LAST) /\ b \ LAST = b
  BY <1>1, <1>2
<1>4. Kept(r, c) = <<a, b>>
  BY DEF Kept
<1>. HIDE DEF a, b
<1>5. <<a, b>> \in Respelled /\ <<a, b>>[1] = a /\ <<a, b>>[2] = b
  BY <1>3 DEF Respelled
<1>. QED
  BY <1>4, <1>5 DEF a, b

LEMMA LeftIs ==
  ASSUME NEW r \in Respelled, NEW why \in Reasons \ {{}}
  PROVE  Left(r, why) \in Respelled /\ Left(r, why)[1] = r[1] /\ Left(r, why)[2] = r[2] \cup why \cup LAST
<1>1. why \subseteq FlagNames /\ why \ LAST # {}
  BY ReasonsAreFlags
<1>2. r[1] \in Seq(Chars) /\ r[2] \in SUBSET (FlagNames \cup LAST)
  BY DEF Respelled
<1>. DEFINE b == r[2] \cup why \cup LAST
<1>3. b \in SUBSET (FlagNames \cup LAST) /\ b \ LAST # {}
  BY <1>1, <1>2
<1>4. Left(r, why) = <<r[1], b>>
  BY DEF Left
<1>. HIDE DEF b
<1>5. <<r[1], b>> \in Respelled /\ <<r[1], b>>[1] = r[1] /\ <<r[1], b>>[2] = b
  BY <1>2, <1>3 DEF Respelled
<1>. QED
  BY <1>4, <1>5 DEF b

LEMMA GrownIs ==
  ASSUME NEW s \in Seq(Chars), NEW k \in 1 .. Len(s), NEW R \in SUBSET Respelled
  PROVE  Grown(s, k, R) \in SUBSET Respelled
<1>1. \A r \in R : \A c \in ChangesOf(s, k) : Kept(r, c) \in Respelled
  BY KeptIs
<1>2. ASSUME NEW r \in R, Deletions(s)[k] # {} PROVE Left(r, Deletions(s)[k]) \in Respelled
  <2>1. k \in 0 .. Len(s)
    OBVIOUS
  <2>2. Deletions(s)[k] \in Reasons \ {{}}
    BY <1>2, <2>1, DeletionsAre
  <2>. QED
    BY <2>2, LeftIs
<1>. QED
  BY <1>1, <1>2 DEF Grown

\* The state of the traversals that has come to a spelling, if the trie
\* has words that begin with it.
StateFor(r) ==
  [at |-> Spelling(r[1]), status |-> IF Spelling(r[1]) \in Leaves THEN "Ok" ELSE "NoLeaf",
   flags |-> r[2] \ LAST, dropped |-> LAST \subseteq r[2]]
StatesFor(R) == {StateFor(r) : r \in {x \in R : Spelling(x[1]) \in Trie}}

LEMMA WalkTells ==
  ASSUME NEW w \in Seq(Chars), Spelling(w) \in Trie, NEW state, state.at = Spelling(w), NEW c, c.char \in Chars
  PROVE  IF Spelling(Append(w, c.char)) \in Trie
         THEN Walk(state, c) = [at |-> Spelling(Append(w, c.char)),
                                status |-> IF Spelling(Append(w, c.char)) \in Leaves THEN "Ok" ELSE "NoLeaf",
                                flags |-> state.flags \cup c.flags, dropped |-> FALSE]
         ELSE Walk(state, c).status = "NoNode"
<1>. DEFINE at == Spelling(w)
            x == c.char
            next == Spelling(Append(w, x))
<1>1. next = at \o Bytes[x]
  BY SpellingGrows
<1>2. /\ next \in Trie => Step(at, x) = [at |-> next, status |-> IF next \in Leaves THEN "Ok" ELSE "NoLeaf"]
      /\ next \notin Trie => Step(at, x).status = "NoNode"
  <2>1. at \in Trie /\ x \in Chars
    OBVIOUS
  <2>. HIDE DEF at, x, next
  <2>. QED
    BY <1>1, <2>1, StepTells
<1>3. Walk(state, c) = [at |-> Step(at, x).at, status |-> Step(at, x).status,
                        flags |-> state.flags \cup c.flags, dropped |-> FALSE]
  BY DEF Walk
<1>. HIDE DEF at, x, next
<1>4. CASE next \in Trie
  <2>1. Step(at, x).at = next /\ Step(at, x).status = IF next \in Leaves THEN "Ok" ELSE "NoLeaf"
    BY <1>2, <1>4
  <2>2. Walk(state, c) = [at |-> next, status |-> IF next \in Leaves THEN "Ok" ELSE "NoLeaf",
                          flags |-> state.flags \cup c.flags, dropped |-> FALSE]
    BY <1>3, <2>1
  <2>. QED
    BY <1>4, <2>2 DEF next, x
<1>5. CASE next \notin Trie
  BY <1>2, <1>3, <1>5 DEF next, x
<1>. QED
  BY <1>4, <1>5

LEMMA StateIs ==
  ASSUME NEW r
  PROVE  /\ StateFor(r).at = Spelling(r[1]) /\ StateFor(r).flags = r[2] \ LAST
         /\ StateFor(r).dropped <=> LAST \subseteq r[2]
         /\ StateFor(r).status = IF Spelling(r[1]) \in Leaves THEN "Ok" ELSE "NoLeaf"
BY DEF StateFor

LEMMA KeptWalks ==
  ASSUME NEW s \in Seq(Chars), NEW k \in 1 .. Len(s), NEW r \in Respelled, Spelling(r[1]) \in Trie,
         NEW c \in ChangesOf(s, k)
  PROVE  IF Spelling(Kept(r, c)[1]) \in Trie THEN Walk(StateFor(r), c) = StateFor(Kept(r, c))
         ELSE Walk(StateFor(r), c).status = "NoNode"
<1>. DEFINE w == r[1]
            v == Append(w, c.char)
            x == Kept(r, c)
<1>1. w \in Seq(Chars) /\ c.char \in Chars /\ c.flags \subseteq FlagNames
  BY ChangesAre DEF Respelled
<1>2. x[1] = v /\ x[2] = (r[2] \cup c.flags) \ LAST
  BY KeptIs
<1>3. /\ Spelling(v) \in Trie =>
           Walk(StateFor(r), c) = [at |-> Spelling(v), status |-> IF Spelling(v) \in Leaves THEN "Ok" ELSE "NoLeaf",
                                   flags |-> StateFor(r).flags \cup c.flags, dropped |-> FALSE]
      /\ Spelling(v) \notin Trie => Walk(StateFor(r), c).status = "NoNode"
  BY <1>1, StateIs, WalkTells
<1>4. StateFor(r).flags \cup c.flags = x[2] \ LAST /\ ~(LAST \subseteq x[2])
  <2>1. c.flags \cap LAST = {}
    BY <1>1, FlagsAreNotLast
  <2>2. LAST # {}
    BY DEF LAST
  <2>. HIDE DEF x
  <2>. QED
    BY <1>2, <2>1, <2>2, StateIs
<1>5. Spelling(v) \in Trie =>
        StateFor(x) = [at |-> Spelling(v), status |-> IF Spelling(v) \in Leaves THEN "Ok" ELSE "NoLeaf",
                       flags |-> StateFor(r).flags \cup c.flags, dropped |-> FALSE]
  <2>1. StateFor(x) = [at |-> Spelling(x[1]), status |-> IF Spelling(x[1]) \in Leaves THEN "Ok" ELSE "NoLeaf",
                       flags |-> x[2] \ LAST, dropped |-> LAST \subseteq x[2]]
    BY DEF StateFor
  <2>2. (LAST \subseteq x[2]) = FALSE
    BY <1>4
  <2>. HIDE DEF x, v
  <2>. QED
    BY <1>2, <1>4, <2>1, <2>2
<1>. HIDE DEF v, x
<1>. QED
  BY <1>2, <1>3, <1>5 DEF x

LEMMA LeftStays ==
  ASSUME NEW r \in Respelled, NEW why \in Reasons \ {{}}
  PROVE  Dropped(StateFor(r), why) = StateFor(Left(r, why)) /\ Dropped(StateFor(r), why).status # "NoNode"
<1>. DEFINE x == Left(r, why)
            status == IF Spelling(r[1]) \in Leaves THEN "Ok" ELSE "NoLeaf"
<1>1. x[1] = r[1] /\ x[2] = r[2] \cup why \cup LAST
  BY LeftIs
<1>2. Dropped(StateFor(r), why) =
        [at |-> Spelling(r[1]), status |-> status, flags |-> (r[2] \ LAST) \cup why, dropped |-> TRUE]
  <2>. DEFINE at == Spelling(r[1])
              flags == r[2] \ LAST
              dropped == LAST \subseteq r[2]
  <2>1. StateFor(r) = [at |-> at, status |-> status, flags |-> flags, dropped |-> dropped]
    BY DEF StateFor
  <2>. HIDE DEF at, status, flags, dropped
  <2>2. Dropped(StateFor(r), why) = [at |-> at, status |-> status, flags |-> flags \cup why, dropped |-> TRUE]
    <3>1. PICK yes : yes = TRUE
      OBVIOUS
    <3>2. Dropped(StateFor(r), why) = [StateFor(r) EXCEPT !.flags = StateFor(r).flags \cup why, !.dropped = TRUE]
      BY DEF Dropped
    <3>3. Dropped(StateFor(r), why) = [StateFor(r) EXCEPT !.flags = StateFor(r).flags \cup why, !.dropped = yes]
      BY <3>1, <3>2
    <3>4. StateFor(r).flags = flags
      BY <2>1
    <3>5. [[at |-> at, status |-> status, flags |-> flags, dropped |-> dropped]
             EXCEPT !.flags = flags \cup why, !.dropped = yes]
          = [at |-> at, status |-> status, flags |-> flags \cup why, dropped |-> yes]
      <4>. DEFINE f == flags \cup why
                  st == [at |-> at, status |-> status, flags |-> flags, dropped |-> dropped]
                  half == [st EXCEPT !.flags = f]
                  other == [at |-> at, status |-> status, flags |-> f, dropped |-> dropped]
      <4>. HIDE DEF f
      <4>1. half = other
        OBVIOUS
      <4>2. [other EXCEPT !.dropped = yes] = [at |-> at, status |-> status, flags |-> f, dropped |-> yes]
        OBVIOUS
      <4>3. [st EXCEPT !.flags = f, !.dropped = yes] = [half EXCEPT !.dropped = yes]
        <5>. HIDE DEF st
        <5>. QED
          OBVIOUS
      <4>. QED
        BY <4>1, <4>2, <4>3 DEF f
    <3>6. Dropped(StateFor(r), why) = [at |-> at, status |-> status, flags |-> flags \cup why, dropped |-> yes]
      BY <2>1, <3>3, <3>4, <3>5
    <3>. QED
      BY <3>1, <3>6
  <2>. QED
    BY <2>2 DEF at, flags
<1>3. x[2] \ LAST = (r[2] \ LAST) \cup why /\ (LAST \subseteq x[2]) = TRUE
  <2>1. why \cap LAST = {}
    BY ReasonsAreFlags
  <2>. HIDE DEF x
  <2>. QED
    BY <1>1, <2>1
<1>4. StateFor(x) = [at |-> Spelling(x[1]), status |-> IF Spelling(x[1]) \in Leaves THEN "Ok" ELSE "NoLeaf",
                     flags |-> x[2] \ LAST, dropped |-> LAST \subseteq x[2]]
  BY DEF StateFor
<1>5. status # "NoNode"
  OBVIOUS
<1>. HIDE DEF x
<1>6. StateFor(x) = [at |-> Spelling(r[1]), status |-> status, flags |-> (r[2] \ LAST) \cup why, dropped |-> TRUE]
  BY <1>1, <1>3, <1>4
<1>. HIDE DEF status
<1>7. Dropped(StateFor(r), why).status = status
  BY <1>2
<1>. QED
  BY <1>2, <1>5, <1>6, <1>7 DEF x

LEMMA TryWalkIs ==
  ASSUME NEW s, NEW k, NEW state, NEW st
  PROVE  st \in TryWalk(s, k, state) <=>
           /\ st.status # "NoNode"
           /\ \/ \E c \in ChangesOf(s, k) : st = Walk(state, c)
              \/ Deletions(s)[k] # {} /\ st = Dropped(state, Deletions(s)[k])
<1>. DEFINE flags == Deletions(s)[k]
            walked == {Walk(state, c) : c \in {Change(s[k], {})} \cup Substitutes(s, k)}
            left == IF flags = {} THEN {} ELSE {Dropped(state, flags)}
<1>1. TryWalk(s, k, state) = {x \in walked \cup left : x.status # "NoNode"}
  BY DEF TryWalk
<1>2. st \in walked <=> \E c \in ChangesOf(s, k) : st = Walk(state, c)
  BY DEF ChangesOf
<1>3. st \in left <=> flags # {} /\ st = Dropped(state, flags)
  OBVIOUS
<1>. HIDE DEF walked, left
<1>. QED
  BY <1>1, <1>2, <1>3

\* The states after one more character are those of the spellings with it.
LEMMA NextStates ==
  ASSUME NEW s \in Seq(Chars), NEW k \in 1 .. Len(s), NEW R \in SUBSET Respelled
  PROVE  UNION {TryWalk(s, k, state) : state \in StatesFor(R)} = StatesFor(Grown(s, k, R))
<1>. DEFINE why == Deletions(s)[k]
            U == UNION {TryWalk(s, k, state) : state \in StatesFor(R)}
<1>1. why \in Reasons
  <2>1. k \in 0 .. Len(s)
    OBVIOUS
  <2>. QED
    BY <2>1, DeletionsAre
<1>2. \A q : q \in Grown(s, k, R) <=>
        \E r \in R : (\E c \in ChangesOf(s, k) : q = Kept(r, c)) \/ (why # {} /\ q = Left(r, why))
  <2>1. ASSUME NEW q, NEW p \in R \X ChangesOf(s, k), q = Kept(p[1], p[2])
        PROVE  \E r \in R : \E c \in ChangesOf(s, k) : q = Kept(r, c)
    <3>1. p[1] \in R /\ p[2] \in ChangesOf(s, k)
      OBVIOUS
    <3>. QED
      BY <2>1, <3>1
  <2>2. ASSUME NEW q, NEW r \in R, NEW c \in ChangesOf(s, k), q = Kept(r, c)
        PROVE  \E p \in R \X ChangesOf(s, k) : q = Kept(p[1], p[2])
    <3>. DEFINE p == <<r, c>>
    <3>1. p \in R \X ChangesOf(s, k) /\ p[1] = r /\ p[2] = c
      OBVIOUS
    <3>2. q = Kept(p[1], p[2])
      BY <2>2, <3>1
    <3>. HIDE DEF p
    <3>. QED
      BY <3>1, <3>2
  <2>3. \A q : (\E p \in R \X ChangesOf(s, k) : q = Kept(p[1], p[2])) <=>
               \E r \in R : \E c \in ChangesOf(s, k) : q = Kept(r, c)
    BY <2>1, <2>2
  <2>4. \A q : q \in Grown(s, k, R) <=>
                 \/ \E p \in R \X ChangesOf(s, k) : q = Kept(p[1], p[2])
                 \/ \E r \in R : why # {} /\ q = Left(r, why)
    BY DEF Grown
  <2>. QED
    BY <2>3, <2>4
<1>3. \A st : st \in StatesFor(R) <=> \E r \in R : Spelling(r[1]) \in Trie /\ st = StateFor(r)
  BY DEF StatesFor
<1>4. \A st : st \in StatesFor(Grown(s, k, R)) <=>
                \E q \in Grown(s, k, R) : Spelling(q[1]) \in Trie /\ st = StateFor(q)
  BY DEF StatesFor
<1>. HIDE DEF why
<1>5. ASSUME NEW st \in U PROVE st \in StatesFor(Grown(s, k, R))
  <2>1. PICK r \in R : Spelling(r[1]) \in Trie /\ st \in TryWalk(s, k, StateFor(r))
    BY <1>3
  <2>2. /\ st.status # "NoNode"
        /\ \/ \E c \in ChangesOf(s, k) : st = Walk(StateFor(r), c)
           \/ why # {} /\ st = Dropped(StateFor(r), why)
    BY <2>1, TryWalkIs DEF why
  <2>3. CASE \E c \in ChangesOf(s, k) : st = Walk(StateFor(r), c)
    <3>1. PICK c \in ChangesOf(s, k) : st = Walk(StateFor(r), c)
      BY <2>3
    <3>2. Spelling(Kept(r, c)[1]) \in Trie /\ st = StateFor(Kept(r, c))
      BY <2>1, <2>2, <3>1, KeptWalks
    <3>3. Kept(r, c) \in Grown(s, k, R)
      BY <1>2
    <3>. QED
      BY <1>4, <3>2, <3>3
  <2>4. CASE why # {} /\ st = Dropped(StateFor(r), why)
    <3>1. r \in Respelled /\ why \in Reasons \ {{}}
      BY <1>1, <2>4
    <3>2. st = StateFor(Left(r, why)) /\ Left(r, why)[1] = r[1]
      BY <2>4, <3>1, LeftStays, LeftIs
    <3>3. Left(r, why) \in Grown(s, k, R)
      BY <1>2, <2>4
    <3>. QED
      BY <1>4, <2>1, <3>2, <3>3
  <2>. QED
    BY <2>2, <2>3, <2>4
<1>6. ASSUME NEW st \in StatesFor(Grown(s, k, R)) PROVE st \in U
  <2>1. PICK q \in Grown(s, k, R) : Spelling(q[1]) \in Trie /\ st = StateFor(q)
    BY <1>4
  <2>2. PICK r \in R : (\E c \in ChangesOf(s, k) : q = Kept(r, c)) \/ (why # {} /\ q = Left(r, why))
    BY <1>2
  <2>3. r \in Respelled /\ r[1] \in Seq(Chars)
    BY DEF Respelled
  <2>4. st.status # "NoNode"
    BY <2>1, StateIs
  <2>5. Spelling(r[1]) \in Trie /\ st \in TryWalk(s, k, StateFor(r))
    <3>1. CASE \E c \in ChangesOf(s, k) : q = Kept(r, c)
      <4>1. PICK c \in ChangesOf(s, k) : q = Kept(r, c)
        BY <3>1
      <4>2. q[1] = Append(r[1], c.char) /\ c.char \in Chars
        BY <2>3, <4>1, KeptIs, ChangesAre
      <4>3. Spelling(r[1]) \in Trie
        BY <2>1, <2>3, <4>2, LostForGood
      <4>4. Walk(StateFor(r), c) = st
        BY <2>1, <2>3, <4>1, <4>3, KeptWalks
      <4>. QED
        BY <2>4, <4>3, <4>4, TryWalkIs
    <3>2. CASE why # {} /\ q = Left(r, why)
      <4>1. why \in Reasons \ {{}}
        BY <1>1, <3>2
      <4>2. q[1] = r[1] /\ st = Dropped(StateFor(r), why)
        BY <2>1, <2>3, <3>2, <4>1, LeftIs, LeftStays
      <4>. QED
        BY <2>1, <2>4, <3>2, <4>2, TryWalkIs DEF why
    <3>. QED
      BY <2>2, <3>1, <3>2
  <2>6. StateFor(r) \in StatesFor(R)
    BY <1>3, <2>5
  <2>. QED
    BY <2>5, <2>6
<1>. HIDE DEF U
<1>7. U = StatesFor(Grown(s, k, R))
  BY <1>5, <1>6
<1>. QED
  BY <1>7 DEF U

\* A recursion over a part of the integers has a function.
IsRecursiveFrom(f, i, j, c, G) == f = [k \in i .. j |-> IF k = i THEN c ELSE G[<<k, f[k - 1]>>]]
LEMMA RecursionFrom ==
  ASSUME NEW i \in Int, NEW j \in Int, i <= j, NEW V, NEW c \in V, NEW G \in [(i + 1 .. j) \X V -> V]
  PROVE  \E f \in [i .. j -> V] : IsRecursiveFrom(f, i, j, c, G)
<1>. DEFINE m == j - i
            F == [p \in (1 .. m) \X V |-> G[<<i + p[1], p[2]>>]]
<1>1. m \in Nat
  OBVIOUS
<1>2. F \in [(1 .. m) \X V -> V]
  <2>1. ASSUME NEW p \in (1 .. m) \X V PROVE G[<<i + p[1], p[2]>>] \in V
    <3>1. p[1] \in 1 .. m /\ p[2] \in V
      OBVIOUS
    <3>2. i + p[1] \in i + 1 .. j
      BY <3>1
    <3>3. <<i + p[1], p[2]>> \in (i + 1 .. j) \X V
      BY <3>1, <3>2
    <3>. QED
      BY <3>3
  <2>. HIDE DEF m
  <2>. QED
    BY <2>1
<1>3. PICK g \in [0 .. m -> V] : IsRecursive(g, m, c, F)
  <2>. HIDE DEF F, m
  <2>. QED
    BY <1>1, <1>2, RecursionExists
<1>4. \A k \in 0 .. m : g[k] = IF k = 0 THEN c ELSE G[<<i + k, g[k - 1]>>]
  <2>1. ASSUME NEW k \in 0 .. m, k # 0 PROVE F[<<k, g[k - 1]>>] = G[<<i + k, g[k - 1]>>]
    <3>1. k \in 1 .. m /\ k - 1 \in 0 .. m
      BY <1>1, <2>1
    <3>2. <<k, g[k - 1]>> \in (1 .. m) \X V
      <4>. HIDE DEF m, F
      <4>. QED
        BY <1>3, <3>1
    <3>. HIDE DEF m
    <3>. QED
      BY <3>2
  <2>2. g = [k \in 0 .. m |-> IF k = 0 THEN c ELSE F[<<k, g[k - 1]>>]]
    BY <1>3 DEF IsRecursive
  <2>. HIDE DEF F, m
  <2>. QED
    BY <2>1, <2>2
<1>. DEFINE h == [k \in i .. j |-> g[k - i]]
<1>5. ASSUME NEW k \in i .. j
      PROVE  h[k] \in V /\ h[k] = IF k = i THEN c ELSE G[<<k, h[k - 1]>>]
  <2>1. k - i \in 0 .. m /\ (k = i <=> k - i = 0) /\ i + (k - i) = k /\ h[k] = g[k - i]
    OBVIOUS
  <2>2. k # i => k - 1 \in i .. j /\ (k - 1) - i = (k - i) - 1
    OBVIOUS
  <2>3. k # i => h[k - 1] = g[(k - i) - 1]
    BY <2>2
  <2>. HIDE DEF h, m, F
  <2>. QED
    BY <1>3, <1>4, <2>1, <2>3
<1>. DEFINE y == [k \in i .. j |-> IF k = i THEN c ELSE G[<<k, h[k - 1]>>]]
<1>6. h = y
  <2>1. DOMAIN h = i .. j /\ DOMAIN y = i .. j /\ h = [k \in i .. j |-> h[k]]
    OBVIOUS
  <2>2. \A k \in i .. j : y[k] = IF k = i THEN c ELSE G[<<k, h[k - 1]>>]
    OBVIOUS
  <2>3. \A k \in i .. j : h[k] = y[k]
    BY <1>5, <2>2
  <2>4. y = [k \in i .. j |-> y[k]]
    OBVIOUS
  <2>. HIDE DEF h, y
  <2>. QED
    BY <2>1, <2>3, <2>4
<1>7. h \in [i .. j -> V]
  <2>1. h = [k \in i .. j |-> h[k]]
    OBVIOUS
  <2>. HIDE DEF h
  <2>. QED
    BY <1>5, <2>1
<1>8. IsRecursiveFrom(h, i, j, c, G)
  BY <1>6 DEF IsRecursiveFrom
<1>. HIDE DEF h
<1>. QED
  BY <1>7, <1>8

First(s, i) == {<<<<s[i]>>, {}>>}
Grows(f, s, i, j) ==
  /\ f[i] = First(s, i)
  /\ \A k \in i + 1 .. j : f[k] = Grown(s, k, f[k - 1])

LEMMA FirstIs ==
  ASSUME NEW s \in Seq(Chars), NEW i \in 1 .. Len(s)
  PROVE  First(s, i) \in SUBSET Respelled
<1>. DEFINE w == <<s[i]>>
            e == {}
<1>1. w \in Seq(Chars) /\ e \in SUBSET (FlagNames \cup LAST) /\ e = {}
  OBVIOUS
<1>2. First(s, i) = {<<w, e>>}
  BY DEF First
<1>. HIDE DEF w, e
<1>3. <<w, e>> \in Respelled
  <2>1. <<w, e>>[2] = {}
    BY <1>1
  <2>. QED
    BY <1>1, <2>1 DEF Respelled
<1>. QED
  BY <1>2, <1>3

LEMMA SpellingsGrow ==
  ASSUME NEW s \in Seq(Chars), NEW i \in 1 .. Len(s), NEW j \in i .. Len(s)
  PROVE  \E f : /\ Grows(f, s, i, j) /\ Spellings(s, i, j) = f[j]
                /\ \A k \in i .. j : f[k] \in SUBSET Respelled
<1>. DEFINE V == SUBSET Respelled
            Raw(k, R) == {<<Append(r[1], c.char), (r[2] \cup c.flags) \ {"DELETE_LAST"}>> :
                            r \in R, c \in {Change(s[k], {})} \cup Substitutes(s, k)}
                         \cup {<<r[1], r[2] \cup Deletions(s)[k] \cup {"DELETE_LAST"}>> :
                                 r \in {x \in R : Deletions(s)[k] # {}}}
            Eq(f) == f = [k \in i .. j |-> IF k = i THEN {<<<<s[i]>>, {}>>} ELSE Raw(k, f[k - 1])]
            G == [p \in (i + 1 .. j) \X V |-> Grown(s, p[1], p[2])]
<1>1. /\ i \in Int /\ j \in Int /\ i <= j /\ \A k \in i + 1 .. j : k \in 1 .. Len(s)
      /\ \A k \in i .. j : k = i \/ k \in i + 1 .. j
      /\ i \in i .. j /\ j \in i .. j /\ \A k \in i + 1 .. j : k \in i .. j /\ k - 1 \in i .. j /\ k # i
  OBVIOUS
<1>2. Spellings(s, i, j) = (CHOOSE f : Eq(f))[j]
  BY DEF Spellings
<1>3. \A k, R : Raw(k, R) = Grown(s, k, R)
  <2>. TAKE k, R
  <2>. DEFINE A == {<<Append(r[1], c.char), (r[2] \cup c.flags) \ {"DELETE_LAST"}>> :
                      r \in R, c \in {Change(s[k], {})} \cup Substitutes(s, k)}
              B == {Kept(p[1], p[2]) : p \in R \X ChangesOf(s, k)}
              D == {<<r[1], r[2] \cup Deletions(s)[k] \cup {"DELETE_LAST"}>> :
                      r \in {x \in R : Deletions(s)[k] # {}}}
              E == {Left(r, Deletions(s)[k]) : r \in {x \in R : Deletions(s)[k] # {}}}
  <2>1. ASSUME NEW q \in A PROVE q \in B
    <3>1. PICK r \in R, c \in ChangesOf(s, k) : q = Kept(r, c)
      BY DEF Kept, LAST, ChangesOf
    <3>. DEFINE p == <<r, c>>
    <3>2. p \in R \X ChangesOf(s, k) /\ p[1] = r /\ p[2] = c
      OBVIOUS
    <3>3. q = Kept(p[1], p[2])
      BY <3>1, <3>2
    <3>. HIDE DEF p
    <3>. QED
      BY <3>2, <3>3
  <2>2. ASSUME NEW q \in B PROVE q \in A
    <3>1. PICK p \in R \X ChangesOf(s, k) : q = Kept(p[1], p[2])
      OBVIOUS
    <3>2. p[1] \in R /\ p[2] \in {Change(s[k], {})} \cup Substitutes(s, k)
      BY DEF ChangesOf
    <3>3. q = <<Append(p[1][1], p[2].char), (p[1][2] \cup p[2].flags) \ {"DELETE_LAST"}>>
      BY <3>1 DEF Kept, LAST
    <3>. QED
      BY <3>2, <3>3
  <2>3. D = E
    BY DEF Left, LAST
  <2>4. Raw(k, R) = A \cup D /\ Grown(s, k, R) = B \cup E
    BY DEF Grown
  <2>. HIDE DEF A, B, D, E, Raw
  <2>. QED
    BY <2>1, <2>2, <2>3, <2>4
<1>. HIDE DEF Raw
<1>4. G \in [(i + 1 .. j) \X V -> V]
  <2>1. ASSUME NEW p \in (i + 1 .. j) \X V PROVE Grown(s, p[1], p[2]) \in V
    <3>1. p[1] \in i + 1 .. j /\ p[2] \in V
      OBVIOUS
    <3>2. p[1] \in 1 .. Len(s)
      BY <1>1, <3>1
    <3>. QED
      BY <3>1, <3>2, GrownIs
  <2>. HIDE DEF V
  <2>. QED
    BY <2>1
<1>5. First(s, i) \in V
  BY FirstIs
<1>. HIDE DEF V
<1>6. PICK g \in [i .. j -> V] : IsRecursiveFrom(g, i, j, First(s, i), G)
  <2>. HIDE DEF G
  <2>. QED
    BY <1>1, <1>4, <1>5, RecursionFrom
<1>7. Eq(g)
  <2>1. ASSUME NEW k \in i .. j
        PROVE  (IF k = i THEN First(s, i) ELSE G[<<k, g[k - 1]>>])
               = IF k = i THEN {<<<<s[i]>>, {}>>} ELSE Raw(k, g[k - 1])
    <3>1. CASE k = i
      BY <3>1 DEF First
    <3>2. CASE k # i
      <4>1. k \in i + 1 .. j
        BY <1>1, <3>2
      <4>2. <<k, g[k - 1]>> \in (i + 1 .. j) \X V
        <5>1. k - 1 \in i .. j
          BY <1>1, <4>1
        <5>2. g[k - 1] \in V
          BY <1>6, <5>1
        <5>. QED
          BY <4>1, <5>2
      <4>3. G[<<k, g[k - 1]>>] = Grown(s, k, g[k - 1])
        BY <4>2
      <4>. HIDE DEF G
      <4>. QED
        BY <1>3, <3>2, <4>3
    <3>. QED
      BY <3>1, <3>2
  <2>. HIDE DEF G
  <2>. QED
    BY <1>6, <2>1 DEF IsRecursiveFrom
<1>. DEFINE f == CHOOSE x : Eq(x)
<1>8. Eq(f)
  <2>. HIDE DEF G
  <2>. QED
    BY <1>7
<1>9. Spellings(s, i, j) = f[j]
  BY <1>2
<1>. HIDE DEF f, G
<1>10. \A k \in i .. j : f[k] = IF k = i THEN {<<<<s[i]>>, {}>>} ELSE Raw(k, f[k - 1])
  BY <1>8
<1>11. Grows(f, s, i, j)
  <2>1. f[i] = First(s, i)
    BY <1>1, <1>10 DEF First
  <2>2. ASSUME NEW k \in i + 1 .. j PROVE f[k] = Grown(s, k, f[k - 1])
    BY <1>1, <1>3, <1>10
  <2>. QED
    BY <2>1, <2>2 DEF Grows
<1>12. \A k \in i .. j : f[k] \in V
  <2>. DEFINE H == {k \in Int : f[k] \in V}
  <2>1. i \in H
    BY <1>1, <1>5, <1>11 DEF Grows
  <2>2. ASSUME NEW k \in i .. j - 1, k \in H PROVE k + 1 \in H
    <3>1. k + 1 \in i + 1 .. j /\ (k + 1) - 1 = k /\ k + 1 \in Int
      BY <1>1
    <3>2. k + 1 \in 1 .. Len(s)
      BY <1>1, <3>1
    <3>3. f[k + 1] = Grown(s, k + 1, f[k])
      BY <1>11, <3>1 DEF Grows
    <3>4. Grown(s, k + 1, f[k]) \in V
      BY <2>2, <3>2, GrownIs DEF V
    <3>. QED
      BY <3>1, <3>3, <3>4
  <2>. HIDE DEF H
  <2>3. \A k \in i .. j : k \in H
    BY <1>1, <2>1, <2>2, InductionTo
  <2>. QED
    BY <2>3 DEF H
<1>. QED
  BY <1>9, <1>11, <1>12 DEF V

FirstState(s, i) == Walk([at |-> <<>>, flags |-> {}], Change(s[i], {}))

\* The first character is only tried as it is.
LEMMA FirstStates ==
  ASSUME NEW s \in Seq(Chars), NEW i \in 1 .. Len(s)
  PROVE  {FirstState(s, i)} \ {st \in {FirstState(s, i)} : st.status = "NoNode"} = StatesFor(First(s, i))
<1>. DEFINE x == s[i]
            state == [at |-> <<>>, flags |-> {}]
            c == Change(x, {})
            w == <<x>>
            e == {}
            r == <<w, e>>
            first == FirstState(s, i)
            status == IF Spelling(w) \in Leaves THEN "Ok" ELSE "NoLeaf"
<1>1. x \in Chars /\ w = Append(<<>>, x) /\ <<>> \in Seq(Chars) /\ c.char = x /\ c.flags = {}
      /\ state.at = <<>> /\ state.flags = {}
  BY DEF Change
<1>2. Spelling(<<>>) = <<>> /\ <<>> \in Trie
  BY SpellingOfNone, TrieIsBytes
<1>3. first = Walk(state, c)
  BY DEF FirstState
<1>4. r[1] = w /\ r[2] = e /\ First(s, i) = {r}
  BY DEF First
<1>. HIDE DEF state, c, first, w, r, e
<1>5. /\ Spelling(w) \in Trie => first = [at |-> Spelling(w), status |-> status,
                                          flags |-> state.flags \cup c.flags, dropped |-> FALSE]
      /\ Spelling(w) \notin Trie => first.status = "NoNode"
  <2>1. c.char \in Chars /\ Spelling(<<>>) \in Trie /\ state.at = Spelling(<<>>) /\ w = Append(<<>>, c.char)
    BY <1>1, <1>2
  <2>. HIDE DEF x
  <2>. QED
    BY <1>1, <1>3, <2>1, WalkTells
<1>6. StateFor(r) = [at |-> Spelling(w), status |-> status, flags |-> state.flags \cup c.flags, dropped |-> FALSE]
  <2>1. StateFor(r) = [at |-> Spelling(r[1]), status |-> IF Spelling(r[1]) \in Leaves THEN "Ok" ELSE "NoLeaf",
                       flags |-> r[2] \ LAST, dropped |-> LAST \subseteq r[2]]
    BY DEF StateFor
  <2>2. r[2] \ LAST = state.flags \cup c.flags
    BY <1>1, <1>4 DEF e
  <2>3. (LAST \subseteq r[2]) = FALSE
    BY <1>4 DEF LAST, e
  <2>. QED
    BY <1>4, <2>1, <2>2, <2>3
<1>7. status # "NoNode"
  OBVIOUS
<1>8. StatesFor(First(s, i)) = IF Spelling(w) \in Trie THEN {StateFor(r)} ELSE {}
  <2>1. \A q : q \in First(s, i) <=> q = r
    BY <1>4
  <2>. QED
    BY <1>4, <2>1 DEF StatesFor
<1>. HIDE DEF status
<1>9. CASE Spelling(w) \in Trie
  <2>1. first = StateFor(r)
    BY <1>5, <1>6, <1>9
  <2>2. first.status # "NoNode"
    BY <1>5, <1>7, <1>9
  <2>. QED
    BY <1>8, <1>9, <2>1, <2>2 DEF first
<1>10. CASE Spelling(w) \notin Trie
  BY <1>5, <1>8, <1>10 DEF first
<1>. QED
  BY <1>9, <1>10

\* The traversals have come to the spellings that words begin with, and
\* their states tell how.
LEMMA StatesAre ==
  ASSUME NEW s \in Seq(Chars), NEW i \in 1 .. Len(s), NEW j \in i .. Len(s)
  PROVE  States(s, i, j) = StatesFor(Spellings(s, i, j)) /\ Spellings(s, i, j) \in SUBSET Respelled
<1>1. PICK f : /\ Grows(f, s, i, j) /\ Spellings(s, i, j) = f[j]
               /\ \A k \in i .. j : f[k] \in SUBSET Respelled
  BY SpellingsGrow
<1>. DEFINE first == FirstState(s, i)
            base == {first} \ {st \in {first} : st.status = "NoNode"}
            More(k, R) == UNION {TryWalk(s, k, state) : state \in R}
            Eq(a) == a = [k \in i .. j |-> IF k = i THEN base ELSE More(k, a[k - 1])]
            h == [k \in i .. j |-> StatesFor(f[k])]
<1>2. /\ i \in Int /\ j \in Int /\ i <= j /\ i \in i .. j /\ j \in i .. j
      /\ \A k \in i + 1 .. j : k \in 1 .. Len(s) /\ k \in i .. j /\ k - 1 \in i .. j /\ k # i
      /\ \A k \in i .. j : k = i \/ k \in i + 1 .. j
  OBVIOUS
<1>3. States(s, i, j) = (CHOOSE a : Eq(a))[j]
  BY DEF States, FirstState
<1>4. base = StatesFor(f[i])
  BY <1>1, FirstStates DEF Grows
<1>5. \A k \in i + 1 .. j : More(k, StatesFor(f[k - 1])) = StatesFor(f[k])
  <2>1. ASSUME NEW k \in i + 1 .. j PROVE More(k, StatesFor(f[k - 1])) = StatesFor(f[k])
    <3>1. k \in 1 .. Len(s) /\ f[k - 1] \in SUBSET Respelled /\ f[k] = Grown(s, k, f[k - 1])
      BY <1>1, <1>2 DEF Grows
    <3>. QED
      BY <3>1, NextStates
  <2>. QED
    BY <2>1
<1>. HIDE DEF base, More
<1>6. Eq(h)
  <2>1. \A k \in i .. j : StatesFor(f[k]) = IF k = i THEN base ELSE More(k, StatesFor(f[k - 1]))
    BY <1>2, <1>4, <1>5
  <2>2. ASSUME NEW k \in i .. j PROVE StatesFor(f[k]) = IF k = i THEN base ELSE More(k, h[k - 1])
    <3>1. k # i => k - 1 \in i .. j
      BY <1>2
    <3>2. k # i => h[k - 1] = StatesFor(f[k - 1])
      BY <3>1
    <3>. HIDE DEF h
    <3>. QED
      BY <2>1, <3>2
  <2>. QED
    BY <2>2
<1>. DEFINE a == CHOOSE x : Eq(x)
<1>7. Eq(a)
  <2>. HIDE DEF h
  <2>. QED
    BY <1>6
<1>8. States(s, i, j) = a[j]
  BY <1>3
<1>. HIDE DEF a
<1>9. \A k \in i .. j : a[k] = IF k = i THEN base ELSE More(k, a[k - 1])
  BY <1>7
<1>. DEFINE H == {k \in Int : a[k] = StatesFor(f[k])}
<1>10. i \in H
  BY <1>2, <1>4, <1>9
<1>11. ASSUME NEW k \in i .. j - 1, k \in H PROVE k + 1 \in H
  <2>1. k + 1 \in i + 1 .. j /\ (k + 1) - 1 = k /\ k + 1 \in Int
    BY <1>2
  <2>2. a[k + 1] = More(k + 1, a[k])
    BY <1>2, <1>9, <2>1
  <2>3. a[k] = StatesFor(f[k])
    BY <1>11
  <2>4. More(k + 1, StatesFor(f[k])) = StatesFor(f[k + 1])
    BY <1>5, <2>1
  <2>. QED
    BY <2>1, <2>2, <2>3, <2>4
<1>12. a[j] = StatesFor(f[j])
  <2>. HIDE DEF H
  <2>1. \A k \in i .. j : k \in H
    BY <1>2, <1>10, <1>11, InductionTo
  <2>. QED
    BY <1>2, <2>1 DEF H
<1>. QED
  BY <1>1, <1>2, <1>8, <1>12

Ways(s, i, j, w) == {r[2] : r \in {x \in Spellings(s, i, j) : x[1] = w /\ x[2] # {}}}

\* A part of one character has no other spelling.
LEMMA OneIsItself ==
  ASSUME NEW s \in Seq(Chars), NEW i \in 1 .. Len(s), NEW w
  PROVE  Ways(s, i, i, w) = {}
<1>1. i \in i .. Len(s) /\ i \in i .. i
  OBVIOUS
<1>2. Spellings(s, i, i) = First(s, i)
  BY <1>1, SpellingsGrow DEF Grows
<1>3. \A r \in First(s, i) : r[2] = {}
  BY DEF First
<1>. QED
  BY <1>2, <1>3 DEF Ways

\* A word is found if it is another spelling, and its flags are the ways to it.
LEMMA FoundTells ==
  ASSUME NEW s \in Seq(Chars), NEW i \in 1 .. Len(s), NEW j \in i .. Len(s), NEW w \in DOMAIN Dictionary
  PROVE  /\ (\E st \in Found(s, i, j) : st.at = Spelling(w)) <=> Ways(s, i, j, w) # {}
         /\ {FlagsOf(st) : st \in {x \in Found(s, i, j) : x.at = Spelling(w)}} = Ways(s, i, j, w)
<1>. DEFINE here == {x \in Found(s, i, j) : x.at = Spelling(w)}
            flags == {FlagsOf(st) : st \in here}
            R == Spellings(s, i, j)
<1>1. States(s, i, j) = StatesFor(R) /\ R \in SUBSET Respelled
  BY StatesAre
<1>2. w \in Seq(Chars) /\ Spelling(w) \in Leaves /\ Spelling(w) \in Trie
  <2>1. w \in Seq(Chars)
    BY DictionaryAssumption DEF Chars
  <2>2. IsPrefix(w, w)
    BY <2>1 DEF IsPrefix
  <2>. QED
    BY <2>1, <2>2, LeafTells, NodeTells
<1>. HIDE DEF R
<1>3. ASSUME NEW r \in R, Spelling(r[1]) = Spelling(w) PROVE r[1] = w
  <2>1. r[1] \in Seq(Chars)
    BY <1>1 DEF Respelled
  <2>. QED
    BY <1>2, <1>3, <2>1, SameSpelling
<1>4. ASSUME NEW r \in R PROVE FlagsOf(StateFor(r)) = r[2] /\ (r[2] # {} => StateFor(r).flags # {})
  <2>1. r[2] # {} => r[2] \ LAST # {}
    BY <1>1 DEF Respelled
  <2>2. FlagsOf(StateFor(r)) = (r[2] \ LAST) \cup (IF LAST \subseteq r[2] THEN LAST ELSE {})
    BY StateIs DEF FlagsOf, LAST
  <2>3. (r[2] \ LAST) \cup (IF LAST \subseteq r[2] THEN LAST ELSE {}) = r[2]
    BY DEF LAST
  <2>. QED
    BY <2>1, <2>2, <2>3, StateIs
<1>5. ASSUME NEW st \in here PROVE FlagsOf(st) \in Ways(s, i, j, w)
  <2>1. st \in StatesFor(R) /\ st.flags # {} /\ st.at = Spelling(w)
    BY <1>1 DEF Found
  <2>2. PICK r \in R : st = StateFor(r)
    BY <2>1 DEF StatesFor
  <2>3. r[1] = w /\ FlagsOf(st) = r[2] /\ r[2] # {}
    BY <1>3, <1>4, <2>1, <2>2, StateIs
  <2>. QED
    BY <2>3 DEF Ways, R
<1>6. ASSUME NEW v \in Ways(s, i, j, w) PROVE \E st \in here : FlagsOf(st) = v
  <2>1. PICK r \in R : r[1] = w /\ r[2] # {} /\ v = r[2]
    BY DEF Ways, R
  <2>2. StateFor(r) \in States(s, i, j) /\ StateFor(r).at = Spelling(w) /\ StateFor(r).status = "Ok"
    BY <1>1, <1>2, <2>1, StateIs DEF StatesFor
  <2>3. j > i
    <3>1. j # i
      BY <1>6, OneIsItself
    <3>. QED
      BY <3>1
  <2>4. StateFor(r) \in here /\ FlagsOf(StateFor(r)) = v
    BY <1>4, <2>1, <2>2, <2>3 DEF Found
  <2>. QED
    BY <2>4
<1>7. flags = Ways(s, i, j, w)
  BY <1>5, <1>6
<1>8. (\E st \in Found(s, i, j) : st.at = Spelling(w)) <=> here # {}
  OBVIOUS
<1>9. here # {} <=> flags # {}
  OBVIOUS
<1>. HIDE DEF here
<1>. QED
  BY <1>7, <1>8, <1>9 DEF here

\* A finite set as a sequence has each of its members once.
LEMMA SetInSequence ==
  ASSUME NEW S, IsFiniteSet(S)
  PROVE  /\ SetToSeq(S) \in Seq(S) /\ ToSet(SetToSeq(S)) = S
         /\ \A k, l \in DOMAIN SetToSeq(S) : SetToSeq(S)[k] = SetToSeq(S)[l] => k = l
<1>. DEFINE q == SetToSeq(S)
            c == Cardinality(S)
<1>1. c \in Nat /\ ExistsBijection(1 .. c, S)
  BY FS_CardinalityType
<1>2. \E f \in [1 .. c -> S] : IsInjective(f)
  BY <1>1 DEF ExistsBijection, Bijection, Injection
<1>3. q \in [1 .. c -> S] /\ IsInjective(q)
  BY <1>2 DEF SetToSeq
<1>. HIDE DEF q, c
<1>4. q \in Injection(1 .. c, S)
  BY <1>3 DEF Injection, IsInjective
<1>5. Cardinality(1 .. c) = c
  BY <1>1, FS_Interval
<1>6. q \in Surjection(1 .. c, S)
  BY <1>4, <1>5, FS_Injection DEF c
<1>7. q \in Seq(S)
  BY <1>1, <1>3
<1>8. ToSet(q) = S
  BY <1>3, <1>6 DEF Surjection, ToSet
<1>. QED
  BY <1>3, <1>7, <1>8 DEF IsInjective, q

\* What the normaliser proposes for a part of a text: every entry of the words
\* it is another spelling of.
Respelling(w, e, ways, i, j) == Seed(<<"normalized", w, e, ways>>, i, j)
LEMMA RespellingIs ==
  /\ \A w, e, ways, i, j : LET v == Respelling(w, e, ways, i, j) IN
       v.entry[1] = "normalized" /\ v.entry[2] = w /\ v.entry[3] = e /\ v.entry[4] = ways
  /\ \A w, e, ways, i, j : LET v == Respelling(w, e, ways, i, j) IN v.from = i - 1 /\ v.to = j
<1>1. ASSUME NEW w, NEW e, NEW ways, NEW i, NEW j
      PROVE  LET v == Respelling(w, e, ways, i, j) IN
               /\ v.entry[1] = "normalized" /\ v.entry[2] = w /\ v.entry[3] = e /\ v.entry[4] = ways
               /\ v.from = i - 1 /\ v.to = j
  <2>. DEFINE q == <<"normalized", w, e, ways>>
  <2>1. q[1] = "normalized" /\ q[2] = w /\ q[3] = e /\ q[4] = ways
    OBVIOUS
  <2>2. Respelling(w, e, ways, i, j) = Seed(q, i, j)
    BY DEF Respelling
  <2>. HIDE DEF q
  <2>. QED
    BY <2>1, <2>2, KindOfSeed
<1>. QED
  BY <1>1

NormalizedProposes(s, i, j, v) ==
  \E w \in DOMAIN Dictionary : /\ Ways(s, i, j, w) # {}
                               /\ \E e \in 1 .. Dictionary[w] : v = Respelling(w, e, Ways(s, i, j, w), i, j)

LEMMA ProposedThere ==
  ASSUME NEW s, NEW i, NEW j, NEW v, NormalizedProposes(s, i, j, v)
  PROVE  v.entry[1] = "normalized" /\ v.from = i - 1 /\ v.to = j
<1>1. PICK w, e : v = Respelling(w, e, Ways(s, i, j, w), i, j)
  BY DEF NormalizedProposes
<1>. DEFINE x == Respelling(w, e, Ways(s, i, j, w), i, j)
<1>2. x.entry[1] = "normalized" /\ x.from = i - 1 /\ x.to = j
  BY RespellingIs
<1>. HIDE DEF x
<1>. QED
  BY <1>1, <1>2 DEF x

\* The entries of a word are proposed once each.
RespellingsOf(w, ways, i, j) == [e \in 1 .. Dictionary[w] |-> Respelling(w, e, ways, i, j)]
LEMMA EntriesOfWord ==
  ASSUME NEW w \in DOMAIN Dictionary, NEW ways, NEW i, NEW j
  PROVE  /\ IsSequence(RespellingsOf(w, ways, i, j)) /\ \A v : Once(RespellingsOf(w, ways, i, j), v)
         /\ \A v : v \in ToSet(RespellingsOf(w, ways, i, j)) <=>
                      \E e \in 1 .. Dictionary[w] : v = Respelling(w, e, ways, i, j)
<1>. DEFINE q == RespellingsOf(w, ways, i, j)
<1>1. PICK l \in Nat : l = Dictionary[w]
  BY DictionaryAssumption
<1>. DEFINE S == {Respelling(w, e, ways, i, j) : e \in 1 .. l}
<1>2. q \in Seq(S) /\ DOMAIN q = 1 .. l /\ \A e \in 1 .. l : q[e] = Respelling(w, e, ways, i, j)
  BY <1>1 DEF RespellingsOf
<1>. HIDE DEF q, S
<1>3. IsSequence(q)
  BY <1>2, SequenceOf
<1>4. ASSUME NEW v, NEW a \in DOMAIN q, NEW b \in DOMAIN q, q[a] = v, q[b] = v PROVE a = b
  <2>1. v = Respelling(w, a, ways, i, j) /\ v = Respelling(w, b, ways, i, j)
    BY <1>2, <1>4
  <2>2. Respelling(w, a, ways, i, j).entry[3] = a /\ Respelling(w, b, ways, i, j).entry[3] = b
    BY RespellingIs
  <2>. QED
    BY <2>1, <2>2
<1>5. \A v : Once(q, v)
  BY <1>4 DEF Once
<1>6. \A v : v \in ToSet(q) <=> \E e \in 1 .. l : v = Respelling(w, e, ways, i, j)
  BY <1>2 DEF ToSet
<1>. QED
  BY <1>1, <1>3, <1>5, <1>6 DEF q

NormalizedAt(s, i, j) ==
  LET found == Found(s, i, j)
      words == SetToSeq({w \in DOMAIN Dictionary : \E st \in found : st.at = Spelling(w)})
      ways(w) == {FlagsOf(st) : st \in {x \in found : x.at = Spelling(w)}}
  IN FlattenSeq([k \in DOMAIN words |->
       [e \in 1 .. Dictionary[words[k]] |-> Seed(<<"normalized", words[k], e, ways(words[k])>>, i, j)]])

LEMMA NormalizedThere ==
  ASSUME NEW s \in Seq(Chars), NEW i \in 1 .. Len(s), NEW j \in i .. Len(s)
  PROVE  /\ IsSequence(NormalizedAt(s, i, j)) /\ \A v : Once(NormalizedAt(s, i, j), v)
         /\ \A v : v \in ToSet(NormalizedAt(s, i, j)) <=> NormalizedProposes(s, i, j, v)
<1>. DEFINE S == {w \in DOMAIN Dictionary : \E st \in Found(s, i, j) : st.at = Spelling(w)}
            q == SetToSeq(S)
            flags(w) == {FlagsOf(st) : st \in {x \in Found(s, i, j) : x.at = Spelling(w)}}
            Of(w) == RespellingsOf(w, Ways(s, i, j, w), i, j)
            F == [k \in DOMAIN q |-> Of(q[k])]
<1>1. \A w \in DOMAIN Dictionary : (w \in S <=> Ways(s, i, j, w) # {}) /\ flags(w) = Ways(s, i, j, w)
  BY FoundTells
<1>2. IsFiniteSet(S) /\ S \subseteq DOMAIN Dictionary
  <2>1. S \subseteq DOMAIN Dictionary /\ IsFiniteSet(DOMAIN Dictionary)
    BY DictionaryAssumption
  <2>. HIDE DEF S
  <2>. QED
    BY <2>1, FS_Subset
<1>3. NormalizedAt(s, i, j) =
        FlattenSeq([k \in DOMAIN q |->
          RespellingsOf(q[k], flags(q[k]), i, j)])
  BY DEF NormalizedAt, Respelling, RespellingsOf
<1>. HIDE DEF S, flags
<1>4. q \in Seq(S) /\ ToSet(q) = S /\ \A k, l \in DOMAIN q : q[k] = q[l] => k = l
  BY <1>2, SetInSequence
<1>. HIDE DEF q
<1>5. PICK l \in Nat : DOMAIN q = 1 .. l
  BY <1>4
<1>6. \A k \in 1 .. l : q[k] \in S /\ q[k] \in DOMAIN Dictionary
  BY <1>2, <1>4, <1>5
<1>7. \A w \in S : \E k \in 1 .. l : q[k] = w
  BY <1>4, <1>5 DEF ToSet
<1>8. NormalizedAt(s, i, j) = FlattenSeq(F)
  <2>1. \A k \in 1 .. l : flags(q[k]) = Ways(s, i, j, q[k])
    BY <1>1, <1>6
  <2>2. [k \in DOMAIN q |-> RespellingsOf(q[k], flags(q[k]), i, j)] = F
    BY <1>5, <2>1
  <2>. QED
    BY <1>3, <2>2
<1>9. \A w \in DOMAIN Dictionary :
        /\ IsSequence(Of(w)) /\ \A v : Once(Of(w), v)
        /\ \A v : v \in ToSet(Of(w)) <=> \E e \in 1 .. Dictionary[w] : v = Respelling(w, e, Ways(s, i, j, w), i, j)
  BY EntriesOfWord
<1>. HIDE DEF Of
<1>10. F = [k \in 1 .. l |-> F[k]] /\ \A k \in 1 .. l : F[k] = Of(q[k])
  BY <1>5
<1>. HIDE DEF F
<1>11. \A k \in 1 .. l : IsSequence(F[k]) /\ \A v : Once(F[k], v)
  BY <1>6, <1>9, <1>10
<1>12. \A k \in 1 .. l : \A v : v \in ToSet(F[k]) <=>
         \E e \in 1 .. Dictionary[q[k]] : v = Respelling(q[k], e, Ways(s, i, j, q[k]), i, j)
  BY <1>6, <1>9, <1>10
<1>13. /\ IsSequence(FlattenSeq(F))
       /\ \A v : v \in ToSet(FlattenSeq(F)) <=> \E k \in 1 .. l : v \in ToSet(F[k])
  BY <1>10, <1>11, FlattenOf
<1>14. ASSUME NEW v PROVE Once(FlattenSeq(F), v)
  <2>1. ASSUME NEW k \in 1 .. l, NEW h \in 1 .. l, v \in ToSet(F[k]), v \in ToSet(F[h]) PROVE k = h
    <3>1. PICK e : v = Respelling(q[k], e, Ways(s, i, j, q[k]), i, j)
      BY <1>12, <2>1
    <3>2. PICK d : v = Respelling(q[h], d, Ways(s, i, j, q[h]), i, j)
      BY <1>12, <2>1
    <3>3. /\ Respelling(q[k], e, Ways(s, i, j, q[k]), i, j).entry[2] = q[k]
          /\ Respelling(q[h], d, Ways(s, i, j, q[h]), i, j).entry[2] = q[h]
      BY RespellingIs
    <3>4. q[k] = q[h]
      BY <3>1, <3>2, <3>3
    <3>. QED
      BY <1>4, <1>5, <3>4
  <2>. QED
    BY <1>10, <1>11, <2>1, FlattenOnceOf
<1>15. ASSUME NEW v
       PROVE  (\E k \in 1 .. l : v \in ToSet(F[k])) <=> NormalizedProposes(s, i, j, v)
  <2>1. ASSUME NEW k \in 1 .. l, v \in ToSet(F[k]) PROVE NormalizedProposes(s, i, j, v)
    BY <1>1, <1>6, <1>12, <2>1 DEF NormalizedProposes
  <2>2. ASSUME NormalizedProposes(s, i, j, v) PROVE \E k \in 1 .. l : v \in ToSet(F[k])
    <3>1. PICK w \in DOMAIN Dictionary :
                 /\ Ways(s, i, j, w) # {}
                 /\ \E e \in 1 .. Dictionary[w] : v = Respelling(w, e, Ways(s, i, j, w), i, j)
      BY <2>2 DEF NormalizedProposes
    <3>2. PICK k \in 1 .. l : q[k] = w
      BY <1>1, <1>7, <3>1
    <3>. QED
      BY <1>12, <3>1, <3>2
  <2>. QED
    BY <2>1, <2>2
<1>. QED
  BY <1>8, <1>13, <1>14, <1>15

LEMMA NormalizedMembers ==
  ASSUME NEW s \in Seq(Chars)
  PROVE  /\ \A v : v \in ToSet(NormalizedSeeds(s)) <=>
              \E i \in 1 .. Len(s) : \E j \in i .. Len(s) : NormalizedProposes(s, i, j, v)
         /\ \A v : Once(NormalizedSeeds(s), v)
<1>. DEFINE m == Len(s)
            G == [p \in Spans(m) |-> NormalizedAt(s, p[1], p[2])]
<1>1. NormalizedSeeds(s) =
        FlattenSeq([i \in 1 .. m |-> FlattenSeq([k \in 1 .. m + 1 - i |-> NormalizedAt(s, i, i + k - 1)])])
  BY DEF NormalizedSeeds, Collect, NormalizedAt
<1>2. m \in Nat
  OBVIOUS
<1>3. \A i \in 1 .. m : \A j \in i .. m : G[<<i, j>>] = NormalizedAt(s, i, j)
  BY <1>2, SpanOf
<1>4. NormalizedSeeds(s) = WholeOf(m, G)
  <2>1. \A i \in 1 .. m : \A k \in 1 .. m + 1 - i : G[<<i, i + k - 1>>] = NormalizedAt(s, i, i + k - 1)
    BY <1>2, <1>3, SpanInside
  <2>. HIDE DEF G, m
  <2>. QED
    BY <1>1, <2>1 DEF WholeOf
<1>5. ASSUME NEW i \in 1 .. m, NEW j \in i .. m
      PROVE  /\ IsSequence(G[<<i, j>>]) /\ \A v : Once(G[<<i, j>>], v)
             /\ \A v : v \in ToSet(G[<<i, j>>]) <=> NormalizedProposes(s, i, j, v)
  <2>1. G[<<i, j>>] = NormalizedAt(s, i, j)
    BY <1>3
  <2>. HIDE DEF G
  <2>. QED
    BY <2>1, NormalizedThere
<1>. HIDE DEF G, m
<1>6. ASSUME NEW v
      PROVE  v \in ToSet(NormalizedSeeds(s)) <=>
               \E i \in 1 .. m : \E j \in i .. m : NormalizedProposes(s, i, j, v)
  <2>1. \A y : y \in ToSet(WholeOf(m, G)) <=> \E i \in 1 .. m : \E j \in i .. m : y \in ToSet(G[<<i, j>>])
    BY <1>2, <1>5, WholeMembers
  <2>. QED
    BY <1>4, <1>5, <2>1
<1>7. ASSUME NEW v PROVE Once(NormalizedSeeds(s), v)
  <2>1. ASSUME NEW i \in 1 .. m, NEW a \in 1 .. m, NEW j \in i .. m, NEW b \in a .. m,
               v \in ToSet(G[<<i, j>>]), v \in ToSet(G[<<a, b>>])
        PROVE  i = a /\ j = b
    <3>1. NormalizedProposes(s, i, j, v) /\ NormalizedProposes(s, a, b, v)
      BY <1>5, <2>1
    <3>2. v.from = i - 1 /\ v.to = j /\ v.from = a - 1 /\ v.to = b
      BY <3>1, ProposedThere
    <3>. QED
      BY <1>2, <3>2
  <2>2. \A i, a \in 1 .. m : \A j \in i .. m : \A b \in a .. m :
          v \in ToSet(G[<<i, j>>]) /\ v \in ToSet(G[<<a, b>>]) => i = a /\ j = b
    BY <2>1
  <2>3. \A i \in 1 .. m : \A j \in i .. m : IsSequence(G[<<i, j>>]) /\ Once(G[<<i, j>>], v)
    BY <1>5
  <2>4. Once(WholeOf(m, G), v)
    BY <1>2, <2>2, <2>3, WholeOnce
  <2>. QED
    BY <1>4, <2>4
<1>. QED
  BY <1>6, <1>7 DEF m

LEMMA NormalizedOfKind ==
  ASSUME NEW s \in Seq(Chars)
  PROVE  AllOf(NormalizedSeeds(s), "normalized")
BY NormalizedMembers, ProposedThere DEF AllOf

-----------------------------------------------------------------------------
(* The makers and their kinds *)

LEMMA DicOfKind == ASSUME NEW s \in Seq(Chars) PROVE AllOf(DicSeeds(s), "dic")
<1>1. ASSUME NEW v, NEW w, NEW i, NEW j, DicProposes(w, i, j, v) PROVE v.entry[1] = "dic"
  BY <1>1, KindOfSeed DEF DicProposes
<1>. QED
  BY <1>1, DicMembers DEF AllOf

LEMMA SingleOfKind ==
  ASSUME NEW s \in Seq(Chars), NEW class PROVE AllOf(SingleSeeds(s, class), "single")
<1>1. ASSUME NEW v, NEW i, NEW j, SingleProposes(s, class, i, j, v) PROVE v.entry[1] = "single"
  BY <1>1, KindOfSeed DEF SingleProposes
<1>. QED
  BY <1>1, SingleMembers DEF AllOf

\* Every maker proposes seeds of one kind.
MakerNames == {"dictionary", "symbols", "katakana", "kanji", "alphabet", "digits", "onomatopoeia",
               "normalize", "hiragana", "notImpl"}
KindOf == [dictionary |-> "dic", symbols |-> "single", katakana |-> "chunk", kanji |-> "chunk",
           alphabet |-> "chunk", digits |-> "number", onomatopoeia |-> "onomatopoeia",
           normalize |-> "normalized", hiragana |-> "chunk", notImpl |-> "single"]
LEMMA MakersOfKind ==
  ASSUME NEW s \in Inputs \ Refused, NEW x \in MakerNames, NEW v \in ToSet(Spawned[s][x])
  PROVE  v.entry[1] = KindOf[x]
<1>1. PICK t \in Seq(Chars) : t = s.text
  BY SentenceText
<1>2. v \in ToSet(SeedsOf(s)[x])
  BY MakersAssumption
<1>3. CASE x \in {"katakana", "kanji", "alphabet", "hiragana"}
  <2>1. ASSUME NEW class, NEW y, NEW i, NEW j, ChunkProposes(t, class, i, j, y) PROVE y.entry[1] = "chunk"
    BY <2>1, KindOfSeed DEF ChunkProposes
  <2>2. \A class : AllOf(ChunkingSeeds(t, class), "chunk")
    BY <2>1, ChunkMembers DEF AllOf
  <2>3. \E class : SeedsOf(s)[x] = ChunkingSeeds(t, class)
    BY <1>1, <1>3 DEF SeedsOf
  <2>4. KindOf[x] = "chunk"
    BY <1>3 DEF KindOf
  <2>. QED
    BY <1>2, <2>2, <2>3, <2>4 DEF AllOf
<1>4. CASE x \in {"symbols", "notImpl"}
  <2>1. \E class : SeedsOf(s)[x] = SingleSeeds(t, class)
    BY <1>1, <1>4 DEF SeedsOf
  <2>2. KindOf[x] = "single"
    BY <1>4 DEF KindOf
  <2>. QED
    BY <1>2, <2>1, <2>2, SingleOfKind DEF AllOf
<1>5. CASE x = "dictionary"
  BY <1>1, <1>2, <1>5, DicOfKind DEF SeedsOf, KindOf, AllOf
<1>6. CASE x = "digits"
  BY <1>1, <1>2, <1>6, NumbersOfKind DEF SeedsOf, KindOf, AllOf
<1>7. CASE x = "onomatopoeia"
  BY <1>1, <1>2, <1>7, OnomatopoeiaOfKind DEF SeedsOf, KindOf, AllOf
<1>8. CASE x = "normalize"
  BY <1>1, <1>2, <1>8, NormalizedOfKind DEF SeedsOf, KindOf, AllOf
<1>. QED
  BY <1>3, <1>4, <1>5, <1>6, <1>7, <1>8 DEF MakerNames

\* So only the makers of runs propose seeds of that kind.
LEMMA ChunksOnlyOfRuns ==
  ASSUME NEW s \in Inputs \ Refused, NEW x \in MakerNames, NEW v \in ToSet(Spawned[s][x]), v.entry[1] = "chunk"
  PROVE  \E class : v \in ToSet(ChunkingSeeds(s.text, class))
<1>1. KindOf[x] = "chunk"
  BY MakersOfKind
<1>2. x \in {"katakana", "kanji", "alphabet", "hiragana"}
  BY <1>1 DEF KindOf, MakerNames
<1>3. v \in ToSet(SeedsOf(s)[x])
  BY MakersAssumption
<1>. QED
  BY <1>2, <1>3 DEF SeedsOf

\* The makers of runs in the two stages, and their classes.
Ran(m, st) == m \in {Stage1[i] : i \in DOMAIN Stage1} \/ st = 2
LEMMA RunMakers ==
  ASSUME NEW m \in DOMAIN RunMaker, NEW st \in {1, 2}, Ran(m, st)
  PROVE  /\ \E k \in 1 .. Len(MakersOf(st)) : MakersOf(st)[k] = m
         /\ \A s \in Inputs \ Refused : Spawned[s][m] = ChunkingSeeds(s.text, RunMaker[m])
<1>1. m \in {"katakana", "kanji", "alphabet", "hiragana"}
  BY DEF RunMaker
<1>2. \A s \in Inputs \ Refused : Spawned[s][m] = ChunkingSeeds(s.text, RunMaker[m])
  <2>1. ASSUME NEW s \in Inputs \ Refused PROVE SeedsOf(s)[m] = ChunkingSeeds(s.text, RunMaker[m])
    BY <1>1 DEF SeedsOf, RunMaker
  <2>. QED
    BY <2>1, MakersAssumption
<1>3. \E k \in 1 .. Len(MakersOf(st)) : MakersOf(st)[k] = m
  <2>1. /\ JumandicStage1[3] = "katakana" /\ JumandicStage1[4] = "kanji" /\ JumandicStage1[5] = "alphabet"
        /\ 3 \in 1 .. 8 /\ 4 \in 1 .. 8 /\ 5 \in 1 .. 8 /\ 9 \in 1 .. 10
    BY DEF JumandicStage1
  <2>2. CASE m # "hiragana"
    <3>1. PICK k \in 1 .. 8 : JumandicStage1[k] = m
      BY <1>1, <2>1, <2>2
    <3>2. MakersOf(st)[k] = m /\ k \in 1 .. Len(MakersOf(st))
      <4>1. k \in 1 .. 10
        OBVIOUS
      <4>2. CASE st = 1
        BY <3>1, <4>2, StagesOfJumandic
      <4>3. CASE st = 2
        BY <3>1, <4>1, <4>3, StagesOfJumandic
      <4>. QED
        BY <4>2, <4>3
    <3>. QED
      BY <3>2
  <2>3. CASE m = "hiragana"
    <3>1. \A i \in DOMAIN Stage1 : Stage1[i] # "hiragana"
      BY MakersAssumption DEF JumandicStage1
    <3>2. st = 2
      BY <2>3, <3>1 DEF Ran
    <3>. QED
      BY <2>1, <2>3, <3>2, StagesOfJumandic
  <2>. QED
    BY <2>2, <2>3
<1>. QED
  BY <1>2, <1>3

LEMMA MakersHaveNames ==
  ASSUME NEW st \in {1, 2}
  PROVE  MakersOf(st) \in Seq(Makers) /\ \A k \in 1 .. Len(MakersOf(st)) : MakersOf(st)[k] \in MakerNames
<1>1. \A i \in 1 .. 8 : JumandicStage1[i] \in MakerNames
  BY DEF JumandicStage1, MakerNames
<1>2. \A k \in 1 .. 10 : k \in 1 .. 8 \/ k = 9 \/ k = 10
  OBVIOUS
<1>3. "hiragana" \in MakerNames /\ "notImpl" \in MakerNames
  BY DEF MakerNames
<1>4. CASE st = 1
  BY <1>1, <1>4, StagesOfJumandic, MakersOfStages
<1>5. CASE st = 2
  <2>1. ASSUME NEW k \in 1 .. 10 PROVE MakersOf(2)[k] \in MakerNames
    <3>1. CASE k \in 1 .. 8
      BY <1>1, <3>1, StagesOfJumandic
    <3>2. CASE k = 9 \/ k = 10
      BY <1>3, <3>2, StagesOfJumandic
    <3>. QED
      BY <1>2, <3>1, <3>2
  <2>. QED
    BY <1>5, <2>1, StagesOfJumandic, MakersOfStages
<1>. QED
  BY <1>4, <1>5

\* The seeds of a built lattice are the words of the makers that ran.
LEMMA BuiltSeeds ==
  ASSUME IInv, RowsInv, phase = "built"
  PROVE  /\ input \in Inputs \ Refused /\ stage \in {1, 2}
         /\ \A v : (\E k \in DOMAIN seeds : seeds[k] = v) <=>
                   \E x \in MakerNames : /\ \E k \in 1 .. Len(MakersOf(stage)) : MakersOf(stage)[k] = x
                                         /\ v \in ToSet(Spawned[input][x])
<1>1. /\ phase \in Working /\ todo = <<>> /\ stage \in {1, 2}
      /\ input \in Inputs \ Refused /\ seeds \in Seq(Given(input))
  BY DEF IInv, SeedsInv, RowsInv, Working, Checked
<1>. DEFINE w == SeedsUpTo(stage)
            ms == MakersOf(stage)
<1>2. SameRows(seeds, w) /\ w \in Seq(Given(input)) /\ w = Words(input, ms)
  BY <1>1, AllSpawned, SeedsAreWords
<1>3. ms \in Seq(Makers) /\ \A k \in 1 .. Len(ms) : ms[k] \in MakerNames
  BY <1>1, MakersHaveNames
<1>. HIDE DEF w, ms
<1>4. SameRows(w, seeds)
  BY <1>2 DEF SameRows
<1>5. HaveStarts(Given(input))
  BY <1>1, GivenSeeds
<1>6. Starts(seeds) /\ Starts(w)
  BY <1>1, <1>2, GivenFit
<1>7. Among(seeds, w) /\ Among(w, seeds)
  BY <1>1, <1>2, <1>4, <1>5, <1>6, SameRowsAmong
<1>8. \A v : (\E k \in DOMAIN seeds : seeds[k] = v) <=> v \in ToSet(w)
  BY <1>7 DEF Among, ToSet
<1>9. \A v : v \in ToSet(w) <=> \E k \in 1 .. Len(ms) : v \in ToSet(Spawned[input][ms[k]])
  BY <1>1, <1>2, <1>3, WordsMembers
<1>10. ASSUME NEW v
       PROVE  (\E k \in 1 .. Len(ms) : v \in ToSet(Spawned[input][ms[k]])) <=>
              \E x \in MakerNames : (\E k \in 1 .. Len(ms) : ms[k] = x) /\ v \in ToSet(Spawned[input][x])
  BY <1>3
<1>. QED
  BY <1>1, <1>8, <1>9, <1>10 DEF ms

\* So a run proposed at a place is one the maker of its class proposes there.
LEMMA RunsHere ==
  ASSUME IInv, RowsInv, phase = "built", NEW m \in DOMAIN RunMaker, Ran(m, stage),
         NEW i \in 1 .. n, NEW j \in i .. n
  PROVE  /\ \A k \in DOMAIN seeds :
              (/\ seeds[k].from = i - 1 /\ seeds[k].to = j
               /\ seeds[k].entry[1] = "chunk" /\ seeds[k].entry[2] = RunMaker[m])
              <=> ChunkProposes(text, RunMaker[m], i, j, seeds[k])
         /\ (\E v : ChunkProposes(text, RunMaker[m], i, j, v)) =>
              \E k \in DOMAIN seeds : ChunkProposes(text, RunMaker[m], i, j, seeds[k])
<1>. DEFINE C == RunMaker[m]
<1>1. /\ input \in Inputs \ Refused /\ stage \in {1, 2}
      /\ \A v : (\E k \in DOMAIN seeds : seeds[k] = v) <=>
                \E x \in MakerNames : /\ \E k \in 1 .. Len(MakersOf(stage)) : MakersOf(stage)[k] = x
                                      /\ v \in ToSet(Spawned[input][x])
  BY BuiltSeeds
<1>2. text \in Seq(Chars) /\ n = Len(text) /\ n \in Nat /\ text = input.text
  BY <1>1, SentenceText DEF text, n
<1>3. ASSUME NEW class, NEW a, NEW b, NEW v, ChunkProposes(text, class, a, b, v)
      PROVE  /\ v.from = a - 1 /\ v.to = b
             /\ v.entry[1] = "chunk" /\ v.entry[2] = class
             /\ v.entry[3] = Kind(SubSeq(text, a, b))
  BY <1>3, KindOfSeed DEF ChunkProposes
<1>. HIDE DEF C
<1>4. ASSUME NEW k \in DOMAIN seeds, seeds[k].from = i - 1, seeds[k].to = j,
             seeds[k].entry[1] = "chunk", seeds[k].entry[2] = C
      PROVE  ChunkProposes(text, C, i, j, seeds[k])
  <2>. DEFINE v == seeds[k]
  <2>1. PICK x \in MakerNames : v \in ToSet(Spawned[input][x])
    BY <1>1
  <2>2. PICK class : v \in ToSet(ChunkingSeeds(text, class))
    BY <1>1, <1>2, <1>4, <2>1, ChunksOnlyOfRuns
  <2>. HIDE DEF v
  <2>3. PICK a \in 1 .. Len(text), b \in 1 .. Len(text) : ChunkProposes(text, class, a, b, v)
    <3>1. \E a \in 1 .. Len(text) : \E b \in a .. Len(text) : ChunkProposes(text, class, a, b, v)
      BY <1>2, <2>2, ChunkMembers
    <3>2. PICK a \in 1 .. Len(text) : \E b \in a .. Len(text) : ChunkProposes(text, class, a, b, v)
      BY <3>1
    <3>3. PICK b \in a .. Len(text) : ChunkProposes(text, class, a, b, v)
      BY <3>2
    <3>4. b \in 1 .. Len(text)
      BY <1>2
    <3>. QED
      BY <3>3, <3>4
  <2>4. a - 1 = i - 1 /\ b = j /\ class = C
    BY <1>3, <1>4, <2>3 DEF v
  <2>5. a = i
    BY <1>2, <2>4
  <2>. QED
    BY <2>3, <2>4, <2>5 DEF v
<1>5. ASSUME NEW v, ChunkProposes(text, C, i, j, v)
      PROVE  \E k \in DOMAIN seeds : seeds[k] = v
  <2>1. v \in ToSet(ChunkingSeeds(text, C))
    <3>1. \E a \in 1 .. Len(text) : \E b \in a .. Len(text) : ChunkProposes(text, C, a, b, v)
      BY <1>2, <1>5
    <3>. QED
      BY <1>2, <3>1, ChunkMembers
  <2>2. /\ \E k \in 1 .. Len(MakersOf(stage)) : MakersOf(stage)[k] = m
        /\ Spawned[input][m] = ChunkingSeeds(text, C)
    BY <1>1, <1>2, RunMakers DEF C
  <2>3. m \in MakerNames
    BY DEF RunMaker, MakerNames
  <2>. QED
    BY <1>1, <2>1, <2>2, <2>3
<1>6. \A k \in DOMAIN seeds :
        (/\ seeds[k].from = i - 1 /\ seeds[k].to = j
         /\ seeds[k].entry[1] = "chunk" /\ seeds[k].entry[2] = C)
        <=> ChunkProposes(text, C, i, j, seeds[k])
  BY <1>3, <1>4
<1>7. (\E v : ChunkProposes(text, C, i, j, v)) => \E k \in DOMAIN seeds : ChunkProposes(text, C, i, j, seeds[k])
  BY <1>5
<1>. QED
  BY <1>6, <1>7 DEF C

LEMMA RunsAreUnknown == IInv /\ RowsDone => UnknownRuns
<1>. SUFFICES ASSUME IInv, RowsInv, phase = "built", NEW m \in DOMAIN RunMaker, Ran(m, stage),
                     NEW i \in 1 .. n, NEW j \in i .. n
              PROVE  LET w == SubSeq(text, i, j)
                         here == {k \in DOMAIN seeds : /\ seeds[k].from = i - 1 /\ seeds[k].to = j
                                                      /\ seeds[k].entry[1] = "chunk"
                                                      /\ seeds[k].entry[2] = RunMaker[m]}
                         begins == \E d \in DOMAIN Dictionary : IsPrefix(w, d)
                     IN /\ here # {} <=> /\ \A k \in i .. j : Has(text[k], RunMaker[m])
                                         /\ w \notin DOMAIN Dictionary
                        /\ \A k \in here : seeds[k].entry[3] = "notPrefix" <=> ~begins
  BY DEF RowsDone, UnknownRuns, Ran
<1>. DEFINE w == SubSeq(text, i, j)
            C == RunMaker[m]
            here == {k \in DOMAIN seeds : /\ seeds[k].from = i - 1 /\ seeds[k].to = j
                                          /\ seeds[k].entry[1] = "chunk"
                                          /\ seeds[k].entry[2] = C}
            Run == (\A k \in i .. j : Has(text[k], C)) /\ w \notin DOMAIN Dictionary
<1>1. /\ \A k \in DOMAIN seeds : k \in here <=> ChunkProposes(text, C, i, j, seeds[k])
      /\ (\E v : ChunkProposes(text, C, i, j, v)) => \E k \in DOMAIN seeds : ChunkProposes(text, C, i, j, seeds[k])
  BY RunsHere
<1>2. \A v : ChunkProposes(text, C, i, j, v) <=> Run /\ v = Seed(<<"chunk", C, Kind(w)>>, i, j)
  BY DEF ChunkProposes
<1>3. here \subseteq DOMAIN seeds
  OBVIOUS
<1>. HIDE DEF w, C, here, Run
<1>4. here # {} <=> Run
  BY <1>1, <1>2, <1>3
<1>5. ASSUME NEW k \in here PROVE seeds[k].entry[3] = "notPrefix" <=> ~BeginsWord(w)
  <2>1. seeds[k].entry = <<"chunk", C, Kind(w)>>
    BY <1>1, <1>2, <1>3, KindOfSeed
  <2>. QED
    BY <2>1 DEF Kind
<1>. QED
  BY <1>4, <1>5 DEF w, C, here, Run, BeginsWord

\* Of every class of runs, exactly the runs are proposed that the dictionary
\* does not hold, those no dictionary word begins with marked as such: however
\* many bytes the characters have, the traversal of the trie never mistakes
\* where a character ends.
THEOREM RunsProposed == Spec => []UnknownRuns
<1>1. Init => IInv /\ RowsDone
  BY InitInv, RowsInit DEF RowsDone
<1>2. IInv /\ RowsDone /\ [Next]_vars => (IInv /\ RowsDone)'
  BY StepInv, RowsStep
<1>3. IInv /\ RowsDone => UnknownRuns
  BY RunsAreUnknown
<1>. QED
  BY <1>1, <1>2, <1>3, PTL DEF Spec

-----------------------------------------------------------------------------
(* What the checks of a number find *)

LEMMA LeastIs ==
  ASSUME NEW S, S \subseteq Nat, S # {}
  PROVE  Min(S) \in S /\ \A y \in S : Min(S) <= y
<1>1. \E x \in S : \A y \in S : x =< y
  BY LeastNumber
<1>. QED
  BY <1>1 DEF Min

LEMMA GreatestIs ==
  ASSUME NEW S, NEW b \in Nat, S \subseteq 0 .. b, S # {}
  PROVE  Max(S) \in S /\ \A y \in S : Max(S) >= y
<1>. DEFINE T == {d \in 0 .. b : b - d \in S}
<1>1. T # {} /\ T \subseteq Nat
  <2>1. PICK x \in S : TRUE
    OBVIOUS
  <2>2. b - x \in 0 .. b /\ b - (b - x) = x
    BY <2>1
  <2>. QED
    BY <2>2
<1>2. PICK d \in T : \A e \in T : d <= e
  <2>. HIDE DEF T
  <2>. QED
    BY <1>1, LeastNumber
<1>3. \A y \in S : b - d >= y
  <2>1. ASSUME NEW y \in S PROVE b - d >= y
    <3>1. b - y \in 0 .. b /\ b - (b - y) = y /\ y \in Nat
      OBVIOUS
    <3>2. b - y \in T
      BY <3>1
    <3>3. d <= b - y /\ d \in 0 .. b
      BY <1>2, <3>2
    <3>. HIDE DEF T
    <3>. QED
      BY <3>1, <3>3
  <2>. QED
    BY <2>1
<1>4. \E x \in S : \A y \in S : x >= y
  BY <1>3
<1>. QED
  BY <1>4 DEF Max

LEMMA LongestIs ==
  ASSUME NEW S, NEW b \in Nat, S \subseteq 0 .. b
  PROVE  Longest(S) = 0 \/ Longest(S) \in S
<1>1. {0} \cup S \subseteq 0 .. b /\ {0} \cup S # {}
  OBVIOUS
<1>2. Max({0} \cup S) \in {0} \cup S
  BY <1>1, GreatestIs
<1>. QED
  BY <1>2 DEF Longest

\* A digit, a comma and a decimal point are different characters.
MARKS == NUM_PERIOD \cup {"COMMA"}
LEMMA ClassesDiffer ==
  ASSUME NEW c \in Chars
  PROVE  /\ Has(c, DIGITS) => ~Has(c, NUM_PERIOD) /\ ~Has(c, {"COMMA"})
         /\ Has(c, NUM_PERIOD) => ~Has(c, {"COMMA"})
         /\ Has(c, {"FIGURE"}) => Has(c, DIGITS)
         /\ Has(c, {"FIGURE_DIGIT"}) => Has(c, DIGITS)
         /\ Has(c, MARKS) <=> Has(c, NUM_PERIOD) \/ Has(c, {"COMMA"})
<1>. DEFINE Apart(types) == /\ types \cap DIGITS # {} => types \cap NUM_PERIOD = {} /\ types \cap {"COMMA"} = {}
                            /\ types \cap NUM_PERIOD # {} => types \cap {"COMMA"} = {}
<1>1. \A types \in TypeSets : Apart(types)
  BY DEF TypeSets, DIGITS, NUM_PERIOD
<1>2. Classes[c] \in TypeSets
  BY CharactersAssumption, TypesOfCode DEF Chars
<1>3. Apart(Classes[c])
  BY <1>1, <1>2
<1>. QED
  BY <1>3 DEF Has, DIGITS, NUM_PERIOD, MARKS

\* Where a digit and a figure stands, a unit ends, and no mark stands.
DigitAt(s, k) == k \in 1 .. Len(s) /\ Has(s[k], DIGITS)
FigureAt(s, k) == k \in 1 .. Len(s) /\ Has(s[k], {"FIGURE"})
UnitEndsAt(s, i, k) ==
  \E w \in NumberSuffixes : k - Len(w) >= i /\ SubSeq(s, k - Len(w) + 1, k) = w
PlainFrom(s, k, e) == \A l \in k .. e - 1 : ~Has(s[l], MARKS)
AllPatterns == NumberPrefixes \cup NumberInterfixes \cup NumberSuffixes

\* A pattern that is written in a text holds no mark.
LEMMA PatternIs ==
  ASSUME NEW s \in Seq(Chars), NEW k \in 1 .. Len(s) + 1, NEW w \in AllPatterns, Written(s, k, w)
  PROVE  /\ Len(w) \in Nat \ {0} /\ k + Len(w) \in k + 1 .. Len(s) + 1
         /\ PlainFrom(s, k, k + Len(w))
<1>1. w \in Seq(Chars) \ {<<>>} /\ \A x \in DOMAIN w : ~Has(w[x], MARKS)
  BY NumericAssumption DEF AllPatterns, Chars, MARKS
<1>2. Len(w) \in Nat \ {0} /\ DOMAIN w = 1 .. Len(w) /\ Len(s) \in Nat
  BY <1>1
<1>3. k + Len(w) - 1 <= Len(s) /\ SubSeq(s, k, k + Len(w) - 1) = w
  BY DEF Written
<1>4. ASSUME NEW l \in k .. k + Len(w) - 1 PROVE ~Has(s[l], MARKS)
  <2>1. l - k + 1 \in 1 .. Len(w) /\ k + (l - k + 1) - 1 = l
    BY <1>2
  <2>2. SubSeq(s, k, k + Len(w) - 1)[l - k + 1] = s[l]
    <3>1. k \in 1 .. Len(s) + 1 /\ k + Len(w) - 1 \in k - 1 .. Len(s)
      BY <1>2, <1>3
    <3>2. \A x \in 1 .. ((k + Len(w) - 1) - k) + 1 : SubSeq(s, k, k + Len(w) - 1)[x] = s[k + (x - 1)]
      BY <3>1, SubSeqProperties
    <3>3. l - k + 1 \in 1 .. ((k + Len(w) - 1) - k) + 1 /\ k + ((l - k + 1) - 1) = l
      BY <1>2, <2>1
    <3>. HIDE DEF Written
    <3>4. SubSeq(s, k, k + Len(w) - 1)[l - k + 1] = s[k + ((l - k + 1) - 1)]
      BY <3>2, <3>3
    <3>. QED
      BY <3>3, <3>4
  <2>. QED
    BY <1>1, <1>2, <1>3, <2>1, <2>2
<1>5. PlainFrom(s, k, k + Len(w))
  BY <1>4 DEF PlainFrom
<1>. QED
  BY <1>2, <1>3, <1>5

\* Two stretches without a mark are one.
LEMMA PlainJoins ==
  ASSUME NEW s, NEW k \in Int, NEW d \in Int, NEW e \in Int, PlainFrom(s, k, d), PlainFrom(s, d, e)
  PROVE  PlainFrom(s, k, e)
<1>1. \A l \in k .. e - 1 : l \in k .. d - 1 \/ l \in d .. e - 1
  OBVIOUS
<1>. QED
  BY <1>1 DEF PlainFrom

\* What a unit takes in.
LEMMA SuffixIs ==
  ASSUME NEW s \in Seq(Chars), NEW i \in 1 .. Len(s), NEW k \in i .. Len(s) + 1
  PROVE  LET c == CheckSuffix(s, i, k)
         IN /\ c \in 0 .. Len(s) + 1 - k
            /\ c > 0 => PlainFrom(s, k, k + c) /\ UnitEndsAt(s, i, k + c - 1)
<1>. DEFINE c == CheckSuffix(s, i, k)
            m == Len(s) + 1 - k
            W == {v \in NumberSuffixes : k > i /\ Has(s[k - 1], EXCEPTION) /\ Written(s, k, v)}
            S == {Len(w) : w \in W}
<1>1. k \in 1 .. Len(s) + 1 /\ m \in Nat /\ Len(s) \in Nat
  OBVIOUS
<1>2. ASSUME NEW w \in W
      PROVE  /\ Len(w) \in 0 .. m /\ PlainFrom(s, k, k + Len(w)) /\ UnitEndsAt(s, i, k + Len(w) - 1)
  <2>1. w \in AllPatterns /\ w \in NumberSuffixes /\ k > i /\ Written(s, k, w)
    BY DEF AllPatterns
  <2>. HIDE DEF W
  <2>2. Len(w) \in Nat \ {0} /\ k + Len(w) \in k + 1 .. Len(s) + 1 /\ PlainFrom(s, k, k + Len(w))
    BY <1>1, <2>1, PatternIs
  <2>3. /\ (k + Len(w) - 1) - Len(w) >= i /\ (k + Len(w) - 1) - Len(w) + 1 = k
    BY <1>1, <2>1, <2>2
  <2>4. UnitEndsAt(s, i, k + Len(w) - 1)
    BY <2>1, <2>3 DEF UnitEndsAt, Written
  <2>. QED
    BY <1>1, <2>2, <2>4
<1>3. c = Longest(S)
  BY DEF CheckSuffix
<1>. HIDE DEF W
<1>4. S \subseteq 0 .. m
  BY <1>2
<1>. HIDE DEF S, c, m
<1>5. c = 0 \/ c \in S
  BY <1>1, <1>3, <1>4, LongestIs
<1>6. CASE c = 0
  BY <1>1, <1>6 DEF c, m
<1>7. CASE c \in S
  <2>1. PICK w \in W : c = Len(w)
    BY <1>7 DEF S
  <2>. QED
    BY <1>2, <2>1 DEF c, m
<1>. QED
  BY <1>5, <1>6, <1>7

\* A prefix stands before a digit, or before a unit it takes in.
LEMMA PrefixIs ==
  ASSUME NEW s \in Seq(Chars), NEW i \in 1 .. Len(s), NEW k \in i .. Len(s)
  PROVE  LET c == CheckPrefix(s, i, k)
         IN /\ c \in 0 .. Len(s) + 1 - k
            /\ c > 0 => PlainFrom(s, k, k + c) /\ (DigitAt(s, k + c) \/ UnitEndsAt(s, i, k + c - 1))
<1>. DEFINE c == CheckPrefix(s, i, k)
            m == Len(s) + 1 - k
            unit(w) == CheckSuffix(s, i, k + Len(w))
            W == {v \in NumberPrefixes :
                    /\ Written(s, k, v) /\ k + Len(v) <= Len(s)
                    /\ Has(s[k + Len(v)], {"FIGURE_DIGIT"}) \/ unit(v) > 0}
            S == {Len(w) + unit(w) : w \in W}
            Fine(x) == PlainFrom(s, k, k + x) /\ (DigitAt(s, k + x) \/ UnitEndsAt(s, i, k + x - 1))
<1>1. k \in 1 .. Len(s) + 1 /\ m \in Nat /\ Len(s) \in Nat /\ i \in Nat /\ k \in Nat /\ i <= k
  OBVIOUS
<1>2. ASSUME NEW w \in W PROVE Len(w) + unit(w) \in 0 .. m /\ Fine(Len(w) + unit(w))
  <2>1. /\ w \in AllPatterns /\ Written(s, k, w) /\ k + Len(w) <= Len(s)
        /\ Has(s[k + Len(w)], {"FIGURE_DIGIT"}) \/ unit(w) > 0
    BY DEF AllPatterns
  <2>. HIDE DEF W
  <2>2. Len(w) \in Nat \ {0} /\ k + Len(w) \in k + 1 .. Len(s) + 1 /\ PlainFrom(s, k, k + Len(w))
    BY <1>1, <2>1, PatternIs
  <2>. DEFINE at == k + Len(w)
  <2>3. at \in i .. Len(s) + 1 /\ at \in 1 .. Len(s) /\ at \in Nat
    BY <1>1, <2>1, <2>2
  <2>4. /\ unit(w) \in 0 .. Len(s) + 1 - at
        /\ unit(w) > 0 => PlainFrom(s, at, at + unit(w)) /\ UnitEndsAt(s, i, at + unit(w) - 1)
    BY <2>3, SuffixIs
  <2>. HIDE DEF unit
  <2>5. CASE unit(w) > 0
    <3>1. k + (Len(w) + unit(w)) = at + unit(w) /\ k + (Len(w) + unit(w)) - 1 = at + unit(w) - 1
      BY <1>1, <2>2, <2>4
    <3>2. PlainFrom(s, k, at + unit(w))
      <4>1. at + unit(w) \in Int /\ k \in Int /\ at \in Int
        BY <1>1, <2>3, <2>4
      <4>2. PlainFrom(s, k, at) /\ PlainFrom(s, at, at + unit(w))
        BY <2>2, <2>4, <2>5
      <4>. HIDE DEF at
      <4>. QED
        BY <4>1, <4>2, PlainJoins
    <3>3. Len(w) + unit(w) \in 0 .. m
      BY <1>1, <2>2, <2>3, <2>4
    <3>. QED
      BY <2>4, <2>5, <3>1, <3>2, <3>3
  <2>6. CASE ~(unit(w) > 0)
    <3>1. unit(w) = 0 /\ Len(w) + unit(w) = Len(w)
      BY <2>2, <2>3, <2>4, <2>6
    <3>2. s[at] \in Chars
      BY <2>3
    <3>3. Has(s[at], {"FIGURE_DIGIT"})
      BY <2>1, <2>6
    <3>4. DigitAt(s, at)
      BY <2>3, <3>2, <3>3, ClassesDiffer DEF DigitAt
    <3>5. Len(w) \in 0 .. m
      BY <1>1, <2>1, <2>2
    <3>. QED
      BY <2>2, <3>1, <3>4, <3>5
  <2>. QED
    BY <2>5, <2>6
<1>3. c = Longest(S)
  BY DEF CheckPrefix
<1>. HIDE DEF W, unit, Fine
<1>4. S \subseteq 0 .. m
  BY <1>2
<1>. HIDE DEF S, c, m
<1>5. c = 0 \/ c \in S
  BY <1>1, <1>3, <1>4, LongestIs
<1>6. CASE c = 0
  BY <1>1, <1>6 DEF c, m
<1>7. CASE c \in S
  <2>1. PICK w \in W : c = Len(w) + unit(w)
    BY <1>7 DEF S
  <2>2. c \in 0 .. m /\ Fine(c)
    BY <1>2, <2>1
  <2>. QED
    BY <2>2 DEF c, m, Fine
<1>. QED
  BY <1>5, <1>6, <1>7

\* The sign of a fraction stands before a digit.
LEMMA InterfixIs ==
  ASSUME NEW s \in Seq(Chars), NEW i \in 1 .. Len(s), NEW k \in i .. Len(s)
  PROVE  LET c == CheckInterfix(s, i, k)
         IN /\ c \in 0 .. Len(s) + 1 - k
            /\ c > 0 => PlainFrom(s, k, k + c) /\ DigitAt(s, k + c)
<1>. DEFINE c == CheckInterfix(s, i, k)
            m == Len(s) + 1 - k
            W == {v \in NumberInterfixes :
                    /\ k > i /\ Has(s[k - 1], DIGITS)
                    /\ k + Len(v) <= Len(s) /\ Has(s[k + Len(v)], DIGITS)
                    /\ Written(s, k, v)}
            S == {Len(w) : w \in W}
<1>1. k \in 1 .. Len(s) + 1 /\ m \in Nat /\ Len(s) \in Nat
  OBVIOUS
<1>2. ASSUME NEW w \in W
      PROVE  Len(w) \in 0 .. m /\ PlainFrom(s, k, k + Len(w)) /\ DigitAt(s, k + Len(w))
  <2>1. /\ w \in AllPatterns /\ Written(s, k, w) /\ k + Len(w) <= Len(s) /\ Has(s[k + Len(w)], DIGITS)
    BY DEF AllPatterns
  <2>. HIDE DEF W
  <2>2. Len(w) \in Nat \ {0} /\ k + Len(w) \in k + 1 .. Len(s) + 1 /\ PlainFrom(s, k, k + Len(w))
    BY <1>1, <2>1, PatternIs
  <2>3. k + Len(w) \in 1 .. Len(s) /\ Len(w) \in 0 .. m
    BY <1>1, <2>1, <2>2
  <2>. QED
    BY <2>1, <2>2, <2>3 DEF DigitAt
<1>3. c = Longest(S)
  BY DEF CheckInterfix
<1>. HIDE DEF W
<1>4. S \subseteq 0 .. m
  BY <1>2
<1>. HIDE DEF S, c, m
<1>5. c = 0 \/ c \in S
  BY <1>1, <1>3, <1>4, LongestIs
<1>6. CASE c = 0
  BY <1>1, <1>6 DEF c, m
<1>7. CASE c \in S
  <2>1. PICK w \in W : c = Len(w)
    BY <1>7 DEF S
  <2>. QED
    BY <1>2, <2>1 DEF c, m
<1>. QED
  BY <1>5, <1>6, <1>7

\* A comma stands before three figures and no fourth.
CommaFits(s, k) == (\A m \in 1 .. 3 : FigureAt(s, k + m)) /\ ~FigureAt(s, k + 4)
LEMMA CommaIs ==
  ASSUME NEW s \in Seq(Chars), NEW i \in 1 .. Len(s), NEW k \in i .. Len(s)
  PROVE  LET c == CheckComma(s, i, k)
         IN c = 0 \/ (c = 1 /\ Has(s[k], {"COMMA"}) /\ CommaFits(s, k))
<1>. SUFFICES ASSUME Has(s[k], {"COMMA"}), Max(FiguresFrom(s, k + 1)) = 3
              PROVE  CommaFits(s, k)
  BY DEF CheckComma
<1>. DEFINE F == FiguresFrom(s, k + 1)
            m == Len(s) - k
            Run(x) == \A l \in k + 1 .. k + x : Has(s[l], {"FIGURE"})
<1>1. m \in Nat /\ Len(s) + 1 - (k + 1) = m /\ k \in Nat \ {0} /\ Len(s) = k + m
  OBVIOUS
<1>2. F = {x \in 0 .. m : Run(x)}
  <2>1. \A x \in 0 .. m : (k + 1) + x - 1 = k + x
    BY <1>1
  <2>2. F = {x \in 0 .. Len(s) + 1 - (k + 1) : \A l \in k + 1 .. (k + 1) + x - 1 : Has(s[l], {"FIGURE"})}
    BY DEF FiguresFrom
  <2>. HIDE DEF F, m
  <2>3. F = {x \in 0 .. m : \A l \in k + 1 .. (k + 1) + x - 1 : Has(s[l], {"FIGURE"})}
    BY <1>1, <2>2
  <2>. QED
    BY <2>1, <2>3
<1>. HIDE DEF F, m, Run
<1>3. 0 \in F /\ F \subseteq 0 .. m
  <2>1. Run(0) /\ 0 \in 0 .. m
    BY <1>1 DEF Run
  <2>. QED
    BY <1>2, <2>1
<1>4. 3 \in F /\ \A x \in F : 3 >= x
  <2>1. Max(F) \in F /\ \A y \in F : Max(F) >= y
    BY <1>1, <1>3, GreatestIs
  <2>. QED
    BY <2>1 DEF F
<1>5. 3 \in 0 .. m /\ Run(3)
  BY <1>2, <1>4
<1>6. ASSUME NEW x \in 1 .. 3 PROVE FigureAt(s, k + x)
  <2>1. k + x \in k + 1 .. k + 3 /\ k + x \in 1 .. Len(s)
    BY <1>1, <1>5
  <2>. QED
    BY <1>5, <2>1 DEF Run, FigureAt
<1>7. ~FigureAt(s, k + 4)
  <2>. SUFFICES ASSUME FigureAt(s, k + 4) PROVE FALSE
    OBVIOUS
  <2>1. k + 4 \in 1 .. Len(s) /\ Has(s[k + 4], {"FIGURE"})
    BY DEF FigureAt
  <2>2. 4 \in 0 .. m /\ \A l \in k + 1 .. k + 4 : l \in k + 1 .. k + 3 \/ l = k + 4
    BY <1>1, <2>1
  <2>3. Run(4)
    BY <1>5, <2>1, <2>2 DEF Run
  <2>4. 4 \in F
    BY <1>2, <2>2, <2>3
  <2>. QED
    BY <1>4, <2>4
<1>. QED
  BY <1>6, <1>7 DEF CommaFits

\* A period stands between two digits, if the memory behind the text holds none.
LEMMA PeriodIs ==
  ASSUME NEW s \in Seq(Chars), NEW i \in 1 .. Len(s), NEW k \in i .. Len(s), NEW behind, ~behind
  PROVE  LET c == CheckPeriod(s, i, k, behind)
         IN c = 0 \/ (c = 1 /\ Has(s[k], NUM_PERIOD) /\ DigitAt(s, k - 1) /\ DigitAt(s, k + 1))
<1>. DEFINE Then == /\ k > i /\ Has(s[k], NUM_PERIOD) /\ Has(s[k - 1], DIGITS)
                    /\ k - i + 1 < Len(s)
                    /\ IF k = Len(s) THEN behind ELSE Has(s[k + 1], DIGITS)
<1>1. CheckPeriod(s, i, k, behind) = IF Then THEN 1 ELSE 0
  BY DEF CheckPeriod
<1>2. ASSUME Then PROVE Has(s[k], NUM_PERIOD) /\ DigitAt(s, k - 1) /\ DigitAt(s, k + 1)
  <2>1. k # Len(s) /\ k > i /\ Has(s[k], NUM_PERIOD) /\ Has(s[k - 1], DIGITS) /\ Has(s[k + 1], DIGITS)
    BY <1>2
  <2>2. k - 1 \in 1 .. Len(s) /\ k + 1 \in 1 .. Len(s)
    BY <2>1
  <2>. QED
    BY <2>1, <2>2 DEF DigitAt
<1>. HIDE DEF Then
<1>. QED
  BY <1>1, <1>2

-----------------------------------------------------------------------------
(* How far a number goes *)

\* The first of the checks that finds something tells how a number goes on.
GoesOn(s, i, k, c) ==
  \/ PlainFrom(s, k, k + c) /\ (DigitAt(s, k + c) \/ UnitEndsAt(s, i, k + c - 1))
  \/ c = 1 /\ Has(s[k], {"COMMA"}) /\ CommaFits(s, k)
  \/ c = 1 /\ Has(s[k], NUM_PERIOD) /\ DigitAt(s, k - 1) /\ DigitAt(s, k + 1)

LEMMA MoreIs ==
  ASSUME NEW s \in Seq(Chars), NEW i \in 1 .. Len(s), NEW k \in i .. Len(s), NEW behind, ~behind
  PROVE  LET c == CheckExceptionalChars(s, i, k, behind)
         IN c \in 0 .. Len(s) + 1 - k /\ (c > 0 => GoesOn(s, i, k, c))
<1>. DEFINE c1 == CheckPrefix(s, i, k)
            c2 == CheckInterfix(s, i, k)
            c3 == CheckSuffix(s, i, k)
            c4 == CheckComma(s, i, k)
            c5 == CheckPeriod(s, i, k, behind)
            checks == <<c1, c2, c3, c4, c5>>
            found == {x \in DOMAIN checks : checks[x] > 0}
            c == CheckExceptionalChars(s, i, k, behind)
            Fine(x) == x \in 0 .. Len(s) + 1 - k /\ (x > 0 => GoesOn(s, i, k, x))
<1>1. c = IF found = {} THEN 0 ELSE checks[Min(found)]
  BY DEF CheckExceptionalChars
<1>2. k \in i .. Len(s) + 1 /\ 0 \in 0 .. Len(s) + 1 - k /\ 1 \in 0 .. Len(s) + 1 - k
  OBVIOUS
<1>3. Fine(c1) /\ Fine(c2)
  BY PrefixIs, InterfixIs DEF GoesOn
<1>4. Fine(c3)
  BY <1>2, SuffixIs DEF GoesOn
<1>5. Fine(c4)
  BY <1>2, CommaIs DEF GoesOn
<1>6. Fine(c5)
  BY <1>2, PeriodIs DEF GoesOn
<1>. HIDE DEF c1, c2, c3, c4, c5, Fine
<1>7. DOMAIN checks = 1 .. 5 /\ \A x \in 1 .. 5 : checks[x] \in {c1, c2, c3, c4, c5}
  OBVIOUS
<1>8. found \subseteq Nat
  BY <1>7
<1>. HIDE DEF checks, c
<1>9. CASE found = {}
  <2>1. c = 0
    BY <1>1, <1>9
  <2>. QED
    BY <1>2, <2>1 DEF c
<1>10. CASE found # {}
  <2>1. Min(found) \in found
    BY <1>8, <1>10, LeastIs
  <2>2. c = checks[Min(found)] /\ Min(found) \in 1 .. 5
    BY <1>1, <1>7, <1>10, <2>1
  <2>3. c \in {c1, c2, c3, c4, c5}
    BY <1>7, <2>2
  <2>4. Fine(c)
    BY <1>3, <1>4, <1>5, <1>6, <2>3
  <2>. QED
    BY <2>4 DEF Fine, c
<1>. QED
  BY <1>9, <1>10

\* How far FindLongestNumber goes on at k; 0 if it stops there.
Stride(s, i, k, behind) ==
  IF k > Len(s) \/ k - i > MaxNumericLength THEN 0
  ELSE IF Has(s[k], DIGITS) THEN 1 ELSE CheckExceptionalChars(s, i, k, behind)

LEMMA StrideIs ==
  ASSUME NEW s \in Seq(Chars), NEW i \in 1 .. Len(s), NEW k \in i .. Len(s) + 1, NEW behind, ~behind
  PROVE  Stride(s, i, k, behind) \in 0 .. Len(s) + 1 - k
<1>1. CASE k > Len(s) \/ k - i > MaxNumericLength
  BY <1>1 DEF Stride
<1>2. CASE ~(k > Len(s) \/ k - i > MaxNumericLength)
  <2>1. k \in i .. Len(s) /\ 1 \in 0 .. Len(s) + 1 - k
    BY <1>2
  <2>2. CheckExceptionalChars(s, i, k, behind) \in 0 .. Len(s) + 1 - k
    BY <2>1, MoreIs
  <2>. QED
    BY <1>2, <2>1, <2>2 DEF Stride
<1>. QED
  BY <1>1, <1>2

\* FindLongestNumber takes one stride after the other.
Strides(f, s, i, behind) ==
  \A k \in i .. Len(s) + 1 :
    f[k] = IF Stride(s, i, k, behind) = 0 THEN k ELSE f[k + Stride(s, i, k, behind)]

LEMMA LongestStrides ==
  ASSUME NEW s \in Seq(Chars), NEW i \in 1 .. Len(s), NEW behind, ~behind
  PROVE  \E f : Strides(f, s, i, behind) /\ FindLongestNumber(s, i, behind) = f[i]
<1>. DEFINE L == Len(s)
            m == L + 1 - i
            V == i .. L + 1
            st(k) == Stride(s, i, k, behind)
            G == [p \in Histories(m, V) |->
                    IF st(L + 1 - p[1]) = 0 THEN L + 1 - p[1]
                    ELSE p[2][p[1] - st(L + 1 - p[1])]]
            Eq(g) == g = [k \in i .. L + 1 |->
                            IF k > L \/ k - i > MaxNumericLength THEN k
                            ELSE IF Has(s[k], DIGITS) THEN g[k + 1]
                            ELSE LET more == CheckExceptionalChars(s, i, k, behind)
                                 IN IF more = 0 THEN k ELSE g[k + more]]
            At(g, k) == IF st(k) = 0 THEN k ELSE g[k + st(k)]
<1>1. L \in Nat /\ m \in Nat /\ i \in 1 .. L /\ L + 1 = i + m
  OBVIOUS
<1>2. \A k \in V : st(k) \in 0 .. L + 1 - k
  BY StrideIs
<1>3. \A g : \A k \in V :
        At(g, k) = IF k > L \/ k - i > MaxNumericLength THEN k
                   ELSE IF Has(s[k], DIGITS) THEN g[k + 1]
                   ELSE LET more == CheckExceptionalChars(s, i, k, behind)
                        IN IF more = 0 THEN k ELSE g[k + more]
  BY DEF Stride
<1>4. FindLongestNumber(s, i, behind) = (CHOOSE g : Eq(g))[i]
  BY DEF FindLongestNumber
<1>5. \A g : Eq(g) <=> g = [k \in V |-> At(g, k)]
  BY <1>3
<1>. HIDE DEF Eq, st
<1>6. G \in [Histories(m, V) -> V]
  <2>1. ASSUME NEW p \in Histories(m, V)
        PROVE  (IF st(L + 1 - p[1]) = 0 THEN L + 1 - p[1] ELSE p[2][p[1] - st(L + 1 - p[1])]) \in V
    <3>1. p[1] \in 0 .. m /\ p[2] \in [0 .. p[1] - 1 -> V]
      <4>1. PICK d \in 0 .. m : p \in {d} \X [0 .. d - 1 -> V]
        BY DEF Histories
      <4>. QED
        BY <4>1
    <3>2. L + 1 - p[1] \in V /\ L + 1 - (L + 1 - p[1]) = p[1]
      BY <1>1, <3>1
    <3>3. st(L + 1 - p[1]) \in 0 .. p[1]
      BY <1>2, <3>2
    <3>4. st(L + 1 - p[1]) # 0 => p[1] - st(L + 1 - p[1]) \in 0 .. p[1] - 1
      BY <3>1, <3>3
    <3>. HIDE DEF L, m, V
    <3>. QED
      BY <3>1, <3>2, <3>4
  <2>. HIDE DEF L, m, V
  <2>. QED
    BY <2>1
<1>7. PICK g \in [0 .. m -> V] : IsCourse(g, m, G)
  <2>. HIDE DEF L, m, V, G
  <2>. QED
    BY <1>1, <1>6, CourseExists
<1>. DEFINE h == [k \in V |-> g[L + 1 - k]]
<1>8. \A d \in 0 .. m : g[d] = IF st(L + 1 - d) = 0 THEN L + 1 - d ELSE g[d - st(L + 1 - d)]
  <2>. SUFFICES ASSUME NEW d \in 0 .. m
                PROVE  g[d] = IF st(L + 1 - d) = 0 THEN L + 1 - d ELSE g[d - st(L + 1 - d)]
    OBVIOUS
  <2>1. g[d] = G[<<d, ValuesBefore(g, d)>>]
    <3>. DEFINE r == [k \in 0 .. m |-> G[<<k, ValuesBefore(g, k)>>]]
    <3>1. g = r
      BY <1>7 DEF IsCourse
    <3>2. r[d] = G[<<d, ValuesBefore(g, d)>>]
      <4>. HIDE DEF G
      <4>. QED
        OBVIOUS
    <3>. HIDE DEF r
    <3>. QED
      BY <3>1, <3>2
  <2>2. ValuesBefore(g, d) \in [0 .. d - 1 -> V]
    <3>1. \A j \in 0 .. d - 1 : j \in 0 .. m
      BY <1>1
    <3>2. \A j \in 0 .. d - 1 : g[j] \in V
      BY <1>7, <3>1
    <3>. HIDE DEF V
    <3>. QED
      BY <3>2 DEF ValuesBefore
  <2>3. <<d, ValuesBefore(g, d)>> \in Histories(m, V)
    <3>. HIDE DEF m, V
    <3>. QED
      BY <2>2 DEF Histories
  <2>4. G[<<d, ValuesBefore(g, d)>>] = IF st(L + 1 - d) = 0 THEN L + 1 - d ELSE ValuesBefore(g, d)[d - st(L + 1 - d)]
    <3>. HIDE DEF L, m, V
    <3>. QED
      BY <2>3
  <2>5. L + 1 - d \in V /\ L + 1 - (L + 1 - d) = d
    BY <1>1
  <2>6. st(L + 1 - d) # 0 => d - st(L + 1 - d) \in 0 .. d - 1
    <3>1. st(L + 1 - d) \in 0 .. d
      BY <1>2, <2>5
    <3>. QED
      BY <3>1
  <2>7. st(L + 1 - d) # 0 => ValuesBefore(g, d)[d - st(L + 1 - d)] = g[d - st(L + 1 - d)]
    BY <2>6 DEF ValuesBefore
  <2>. HIDE DEF G, L, m, V
  <2>. QED
    BY <2>1, <2>4, <2>7
<1>9. \A k \in V : h[k] = At(h, k)
  <2>. SUFFICES ASSUME NEW k \in V PROVE h[k] = At(h, k)
    OBVIOUS
  <2>1. L + 1 - k \in 0 .. m /\ L + 1 - (L + 1 - k) = k
    BY <1>1
  <2>2. st(k) \in 0 .. L + 1 - k
    BY <1>2
  <2>3. st(k) # 0 => k + st(k) \in V /\ L + 1 - (k + st(k)) = (L + 1 - k) - st(k)
    BY <1>1, <2>2
  <2>4. h[k] = g[L + 1 - k] /\ (st(k) # 0 => h[k + st(k)] = g[(L + 1 - k) - st(k)])
    BY <2>3
  <2>5. g[L + 1 - k] = IF st(k) = 0 THEN k ELSE g[(L + 1 - k) - st(k)]
    BY <1>8, <2>1
  <2>. HIDE DEF h
  <2>. QED
    BY <2>4, <2>5
<1>10. Eq(h)
  <2>1. h = [k \in V |-> h[k]]
    OBVIOUS
  <2>. HIDE DEF h
  <2>2. h = [k \in V |-> At(h, k)]
    BY <1>9, <2>1
  <2>. HIDE DEF At
  <2>. QED
    BY <1>5, <2>2
<1>. DEFINE f == CHOOSE x : Eq(x)
<1>11. Eq(f)
  <2>. HIDE DEF h
  <2>. QED
    BY <1>10
<1>12. f = [k \in V |-> At(f, k)]
  <2>. HIDE DEF f, At, V
  <2>. QED
    BY <1>5, <1>11
<1>13. FindLongestNumber(s, i, behind) = f[i]
  BY <1>4
<1>. HIDE DEF f
<1>14. Strides(f, s, i, behind)
  <2>. DEFINE r == [k \in V |-> At(f, k)]
  <2>1. \A k \in V : r[k] = At(f, k)
    OBVIOUS
  <2>2. f = r
    BY <1>12
  <2>. HIDE DEF r
  <2>3. \A k \in V : f[k] = At(f, k)
    BY <2>1, <2>2
  <2>. QED
    BY <2>3 DEF Strides, st
<1>. QED
  BY <1>13, <1>14

\* Behind the first character a number goes on after a digit, after a unit, or
\* with a digit.
Fitting(s, i, k) == k > i => DigitAt(s, k - 1) \/ UnitEndsAt(s, i, k - 1) \/ DigitAt(s, k)

\* The marks in a number are where they belong.
MarkFits(s, i, l) ==
  /\ Has(s[l], NUM_PERIOD) => DigitAt(s, l - 1) /\ DigitAt(s, l + 1)
  /\ Has(s[l], {"COMMA"}) => (DigitAt(s, l - 1) \/ UnitEndsAt(s, i, l - 1)) /\ CommaFits(s, l)
MarksFit(s, i, k, e) == \A l \in k .. e - 1 : MarkFits(s, i, l)

LEMMA StrideFits ==
  ASSUME NEW s \in Seq(Chars), NEW i \in 1 .. Len(s), NEW k \in i .. Len(s) + 1, NEW behind, ~behind,
         DigitAt(s, i), Fitting(s, i, k), Stride(s, i, k, behind) > 0
  PROVE  LET e == k + Stride(s, i, k, behind)
         IN MarksFit(s, i, k, e) /\ Fitting(s, i, e)
<1>. DEFINE c == Stride(s, i, k, behind)
            e == k + c
<1>1. c \in 1 .. Len(s) + 1 - k
  <2>1. c \in 0 .. Len(s) + 1 - k /\ c > 0
    BY StrideIs
  <2>. HIDE DEF c
  <2>. QED
    BY <2>1
<1>2. ~(k > Len(s) \/ k - i > MaxNumericLength)
  BY DEF Stride
<1>3. k \in i .. Len(s) /\ k \in 1 .. Len(s) /\ s[k] \in Chars /\ i \in Nat
  BY <1>2
<1>4. CASE Has(s[k], DIGITS)
  <2>1. c = 1
    BY <1>2, <1>4 DEF Stride
  <2>. HIDE DEF c
  <2>2. e = k + 1 /\ e - 1 = k /\ \A l \in k .. e - 1 : l = k
    BY <1>3, <2>1
  <2>3. MarkFits(s, i, k)
    BY <1>3, <1>4, ClassesDiffer DEF MarkFits
  <2>4. DigitAt(s, k)
    BY <1>3, <1>4 DEF DigitAt
  <2>. QED
    BY <2>2, <2>3, <2>4 DEF MarksFit, Fitting, c
<1>5. CASE ~Has(s[k], DIGITS)
  <2>1. c = CheckExceptionalChars(s, i, k, behind)
    BY <1>2, <1>5 DEF Stride
  <2>2. GoesOn(s, i, k, c)
    <3>1. LET x == CheckExceptionalChars(s, i, k, behind) IN x > 0 => GoesOn(s, i, k, x)
      BY <1>3, MoreIs
    <3>. HIDE DEF c
    <3>. QED
      BY <1>1, <2>1, <3>1
  <2>. HIDE DEF c
  <2>3. k > i /\ (DigitAt(s, k - 1) \/ UnitEndsAt(s, i, k - 1))
    <3>1. k # i
      BY <1>5 DEF DigitAt
    <3>2. ~DigitAt(s, k)
      BY <1>5 DEF DigitAt
    <3>. QED
      BY <1>3, <3>1, <3>2 DEF Fitting
  <2>4. CASE PlainFrom(s, k, k + c) /\ (DigitAt(s, k + c) \/ UnitEndsAt(s, i, k + c - 1))
    <3>1. ASSUME NEW l \in k .. e - 1 PROVE MarkFits(s, i, l)
      <4>1. ~Has(s[l], MARKS)
        BY <2>4 DEF PlainFrom
      <4>2. l \in 1 .. Len(s)
        BY <1>1, <1>3
      <4>3. s[l] \in Chars
        BY <4>2
      <4>4. ~Has(s[l], NUM_PERIOD) /\ ~Has(s[l], {"COMMA"})
        BY <4>1, <4>3, ClassesDiffer
      <4>. QED
        BY <4>4 DEF MarkFits
    <3>2. MarksFit(s, i, k, k + c)
      BY <3>1 DEF MarksFit
    <3>3. Fitting(s, i, k + c)
      <4>. DEFINE x == k + c
      <4>1. DigitAt(s, x) \/ UnitEndsAt(s, i, x - 1)
        <5>1. k + c - 1 = (k + c) - 1
          BY <1>1, <1>3
        <5>. QED
          BY <2>4, <5>1
      <4>. HIDE DEF x
      <4>2. Fitting(s, i, x)
        BY <4>1 DEF Fitting
      <4>. QED
        BY <4>2 DEF x
    <3>. HIDE DEF MarksFit, Fitting
    <3>. QED
      BY <3>2, <3>3 DEF c
  <2>5. CASE c = 1 /\ Has(s[k], {"COMMA"}) /\ CommaFits(s, k)
    <3>1. e = k + 1 /\ e - 1 = k /\ \A l \in k .. e - 1 : l = k
      BY <1>3, <2>5
    <3>2. MarkFits(s, i, k)
      <4>1. ~Has(s[k], NUM_PERIOD)
        BY <1>3, <2>5, ClassesDiffer
      <4>. QED
        BY <2>3, <2>5, <4>1 DEF MarkFits
    <3>3. DigitAt(s, k + 1)
      <4>1. FigureAt(s, k + 1)
        BY <2>5 DEF CommaFits
      <4>2. k + 1 \in 1 .. Len(s) /\ Has(s[k + 1], {"FIGURE"})
        BY <4>1 DEF FigureAt
      <4>3. s[k + 1] \in Chars
        BY <4>2
      <4>. QED
        BY <4>2, <4>3, ClassesDiffer DEF DigitAt
    <3>. QED
      BY <3>1, <3>2, <3>3 DEF MarksFit, Fitting, c
  <2>6. CASE c = 1 /\ Has(s[k], NUM_PERIOD) /\ DigitAt(s, k - 1) /\ DigitAt(s, k + 1)
    <3>1. e = k + 1 /\ e - 1 = k /\ \A l \in k .. e - 1 : l = k
      BY <1>3, <2>6
    <3>2. MarkFits(s, i, k)
      <4>1. ~Has(s[k], {"COMMA"})
        BY <1>3, <2>6, ClassesDiffer
      <4>. QED
        BY <2>6, <4>1 DEF MarkFits
    <3>. QED
      BY <2>6, <3>1, <3>2 DEF MarksFit, Fitting, c
  <2>. HIDE DEF MarksFit, Fitting
  <2>. QED
    BY <2>2, <2>4, <2>5, <2>6 DEF GoesOn
<1>. QED
  BY <1>4, <1>5

\* So the number that starts with a digit is as long as it can be.
LEMMA LongestIsWhole ==
  ASSUME NEW s \in Seq(Chars), NEW i \in 1 .. Len(s), NEW behind, ~behind, DigitAt(s, i)
  PROVE  LET e == FindLongestNumber(s, i, behind)
         IN /\ e \in i + 1 .. Len(s) + 1
            /\ MarksFit(s, i, i, e)
            /\ DigitAt(s, e) => e - i > MaxNumericLength
<1>. DEFINE L == Len(s)
            m == L + 1 - i
            V == i .. L + 1
            st(k) == Stride(s, i, k, behind)
<1>1. L \in Nat /\ m \in Nat /\ i \in 1 .. L /\ L + 1 = i + m
  OBVIOUS
<1>2. PICK f : Strides(f, s, i, behind) /\ FindLongestNumber(s, i, behind) = f[i]
  BY LongestStrides
<1>3. \A k \in V : f[k] = IF st(k) = 0 THEN k ELSE f[k + st(k)]
  BY <1>2 DEF Strides
<1>4. \A k \in V : st(k) \in 0 .. L + 1 - k
  BY StrideIs
<1>5. \A k \in V : Fitting(s, i, k) /\ st(k) > 0 => MarksFit(s, i, k, k + st(k)) /\ Fitting(s, i, k + st(k))
  BY StrideFits
<1>6. \A k \in V : st(k) = 0 => (DigitAt(s, k) => k - i > MaxNumericLength)
  <2>. SUFFICES ASSUME NEW k \in V, st(k) = 0, DigitAt(s, k) PROVE k - i > MaxNumericLength
    OBVIOUS
  <2>1. ~(k > Len(s)) /\ Has(s[k], DIGITS)
    BY DEF DigitAt
  <2>. QED
    BY <2>1 DEF Stride
<1>7. st(i) = 1
  <2>1. ~(i > Len(s)) /\ ~(i - i > MaxNumericLength) /\ Has(s[i], DIGITS)
    BY NumericAssumption DEF DigitAt
  <2>. QED
    BY <2>1 DEF Stride
<1>. HIDE DEF st
<1>. DEFINE Good(k) == Fitting(s, i, k) =>
              /\ f[k] \in k .. L + 1 /\ MarksFit(s, i, k, f[k])
              /\ DigitAt(s, f[k]) => f[k] - i > MaxNumericLength
            H == {d \in 0 .. m : Good(L + 1 - d)}
<1>8. ASSUME NEW d \in 0 .. m, \A b \in 0 .. d - 1 : b \in H PROVE d \in H
  <2>. DEFINE k == L + 1 - d
  <2>1. k \in V /\ L + 1 - k = d /\ k \in Nat
    BY <1>1
  <2>2. st(k) \in 0 .. d
    BY <1>4, <2>1
  <2>3. ASSUME Fitting(s, i, k)
        PROVE  /\ f[k] \in k .. L + 1 /\ MarksFit(s, i, k, f[k])
               /\ DigitAt(s, f[k]) => f[k] - i > MaxNumericLength
    <3>1. CASE st(k) = 0
      <4>1. f[k] = k
        BY <1>3, <2>1, <3>1
      <4>2. k \in k .. L + 1 /\ k .. k - 1 = {}
        BY <1>1, <2>1
      <4>. HIDE DEF k
      <4>. QED
        BY <1>6, <2>1, <3>1, <4>1, <4>2 DEF MarksFit
    <3>2. CASE st(k) # 0
      <4>. DEFINE x == k + st(k)
      <4>1. st(k) \in 1 .. d /\ x \in V /\ x > k /\ x \in Nat /\ L + 1 - (d - st(k)) = x /\ d - st(k) \in 0 .. d - 1
        BY <1>1, <2>1, <2>2, <3>2
      <4>2. MarksFit(s, i, k, x) /\ Fitting(s, i, x) /\ f[k] = f[x]
        BY <1>3, <1>5, <2>1, <2>3, <3>2, <4>1
      <4>3. Good(x)
        BY <1>8, <4>1
      <4>. HIDE DEF x
      <4>4. f[x] \in x .. L + 1 /\ MarksFit(s, i, x, f[x]) /\ (DigitAt(s, f[x]) => f[x] - i > MaxNumericLength)
        BY <4>2, <4>3
      <4>5. f[x] \in k .. L + 1 /\ \A l \in k .. f[x] - 1 : l \in k .. x - 1 \/ l \in x .. f[x] - 1
        BY <2>1, <4>1, <4>4
      <4>6. MarksFit(s, i, k, f[x])
        BY <4>2, <4>4, <4>5 DEF MarksFit
      <4>. HIDE DEF k
      <4>. QED
        BY <4>2, <4>4, <4>5, <4>6
    <3>. QED
      BY <3>1, <3>2
  <2>. HIDE DEF k
  <2>4. Good(k)
    BY <2>3
  <2>. HIDE DEF Good
  <2>. QED
    BY <2>4 DEF k
<1>9. \A d \in 0 .. m : d \in H
  <2>1. \A d \in 0 .. m : (\A b \in 0 .. d - 1 : b \in H) => d \in H
    <3>. HIDE DEF H
    <3>. QED
      BY <1>8
  <2>2. m \in Int
    BY <1>1
  <2>. HIDE DEF H, m
  <2>. QED
    BY <2>1, <2>2, CourseInduction
<1>10. Good(i) /\ Good(i + 1)
  <2>1. m \in 0 .. m /\ L + 1 - m = i /\ m - 1 \in 0 .. m /\ L + 1 - (m - 1) = i + 1
    BY <1>1
  <2>2. m \in H /\ m - 1 \in H
    <3>. HIDE DEF H, m
    <3>. QED
      BY <1>9, <2>1
  <2>. HIDE DEF Good, L, m
  <2>. QED
    BY <2>1, <2>2
<1>12. f[i] = f[i + 1] /\ f[i + 1] \in i + 1 .. L + 1
  <2>1. i \in V /\ i + 1 > i /\ (i + 1) - 1 = i
    BY <1>1
  <2>2. Fitting(s, i, i + 1)
    BY <2>1 DEF Fitting
  <2>. QED
    BY <1>3, <1>7, <1>10, <2>1, <2>2
<1>13. Fitting(s, i, i)
  BY DEF Fitting
<1>. QED
  BY <1>2, <1>10, <1>12, <1>13

-----------------------------------------------------------------------------
(* The numbers of a built lattice *)

\* Sequences whose words start alike hold a word equally often.
LEMMA SameRowsOnce ==
  ASSUME NEW S, NEW s \in Seq(S), NEW t \in Seq(S), SameRows(s, t), NEW v, Once(t, v)
  PROVE  Once(s, v)
<1>. SUFFICES ASSUME NEW a \in DOMAIN s, NEW b \in DOMAIN s, s[a] = v, s[b] = v PROVE a = b
  BY DEF Once
<1>. DEFINE at == v.from
            P == FromSet(s, at)
            Q == FromSet(t, at)
            row == StartingAt(s, at)
<1>1. a \in P /\ b \in P /\ a \in 1 .. Len(s) /\ b \in 1 .. Len(s) /\ Len(s) \in Nat /\ Len(t) \in Nat
  BY DEF FromSet
<1>2. row = StartingAt(t, at)
  BY DEF SameRows
<1>3. Selected(row, s, P, Len(s)) /\ Selected(row, t, Q, Len(t))
  BY <1>2, StartingAtSelects
<1>. HIDE DEF at, P, Q, row
<1>4. ASSUME NEW c \in 1 .. Len(s), c \in P, s[c] = v
      PROVE  \E j \in 1 .. Len(t) : j \in Q /\ CountIn(Q, j) = CountIn(P, c) /\ t[j] = v
  <2>. DEFINE k == CountIn(P, c)
  <2>1. k \in 1 .. CountIn(P, Len(s)) /\ row[k] = v
    BY <1>1, <1>3, <1>4, CountOfMember DEF Selected
  <2>. HIDE DEF k
  <2>2. k \in 1 .. CountIn(Q, Len(t))
    BY <1>3, <2>1 DEF Selected
  <2>3. PICK j \in 1 .. Len(t) : j \in Q /\ CountIn(Q, j) = k
    BY <1>1, <2>2, CountOnto DEF Numbered
  <2>4. row[k] = t[j]
    BY <1>3, <2>3 DEF Selected
  <2>. QED
    BY <2>1, <2>3, <2>4 DEF k
<1>5. PICK c \in 1 .. Len(t) : CountIn(Q, c) = CountIn(P, a) /\ t[c] = v
  BY <1>1, <1>4
<1>6. PICK d \in 1 .. Len(t) : CountIn(Q, d) = CountIn(P, b) /\ t[d] = v
  BY <1>1, <1>4
<1>7. c = d
  <2>1. DOMAIN t = 1 .. Len(t)
    OBVIOUS
  <2>. QED
    BY <1>5, <1>6, <2>1 DEF Once
<1>8. CountIn(P, a) = CountIn(P, b)
  BY <1>5, <1>6, <1>7
<1>. QED
  BY <1>1, <1>8, CountIsInjective

\* What one of several makers proposes once, and no other, they propose once.
LEMMA WordsOnce ==
  ASSUME NEW s \in Inputs \ Refused, NEW ms \in Seq(Makers), NEW v,
         \A i \in 1 .. Len(ms) : Once(Spawned[s][ms[i]], v),
         \A i, j \in 1 .. Len(ms) :
           v \in ToSet(Spawned[s][ms[i]]) /\ v \in ToSet(Spawned[s][ms[j]]) => i = j
  PROVE  Once(Words(s, ms), v)
<1>1. PICK f : Appends(f, s, ms) /\ ValuesIn(f, Len(ms), Seq(Given(s))) /\ Words(s, ms) = f[Len(ms)]
  BY WordsAppend
<1>2. Len(ms) \in Nat /\ \A i \in 1 .. Len(ms) : ms[i] \in Makers
  OBVIOUS
<1>. DEFINE Met(k) == v \in ToSet(f[k]) => \E l \in 1 .. k : v \in ToSet(Spawned[s][ms[l]])
            H == {k \in Nat : Once(f[k], v) /\ Met(k)}
<1>3. 0 \in H
  <2>1. f[0] = <<>> /\ DOMAIN <<>> = {} /\ ToSet(<<>>) = {}
    BY <1>1, MembersOfNone DEF Appends
  <2>2. Once(f[0], v) /\ v \notin ToSet(f[0])
    BY <2>1 DEF Once
  <2>. QED
    BY <2>2
<1>4. ASSUME NEW k \in 0 .. Len(ms) - 1, k \in H PROVE k + 1 \in H
  <2>1. /\ k \in 0 .. Len(ms) /\ k + 1 \in 1 .. Len(ms) /\ (k + 1) - 1 = k /\ k + 1 \in Nat
        /\ k + 1 \in 1 .. k + 1 /\ \A l \in 1 .. k : l \in 1 .. Len(ms) /\ l \in 1 .. k + 1 /\ l # k + 1
    BY <1>2
  <2>2. /\ f[k + 1] = f[k] \o Spawned[s][ms[k + 1]]
        /\ f[k] \in Seq(Given(s)) /\ Spawned[s][ms[k + 1]] \in Seq(Given(s))
    BY <1>1, <1>2, <2>1, GivenSeeds DEF Appends, ValuesIn
  <2>3. \A x : x \in ToSet(f[k + 1]) <=> x \in ToSet(f[k]) \/ x \in ToSet(Spawned[s][ms[k + 1]])
    BY <2>2, ConcatMembers
  <2>4. Met(k + 1)
    BY <1>4, <2>1, <2>3
  <2>5. v \notin ToSet(f[k]) \/ v \notin ToSet(Spawned[s][ms[k + 1]])
    BY <1>4, <2>1
  <2>6. Once(f[k + 1], v)
    BY <1>4, <2>1, <2>2, <2>5, OnceConcat
  <2>. HIDE DEF Met
  <2>. QED
    BY <2>1, <2>4, <2>6
<1>5. Len(ms) \in H
  <2>1. 0 \in Int /\ Len(ms) \in Int /\ Len(ms) \in 0 .. Len(ms)
    BY <1>2
  <2>. HIDE DEF H
  <2>2. \A k \in 0 .. Len(ms) : k \in H
    BY <1>3, <1>4, <2>1, InductionTo
  <2>. QED
    BY <2>1, <2>2
<1>. QED
  BY <1>1, <1>5

\* A maker of the first stage works once in either.
LEMMA MakerOnce ==
  ASSUME NEW st \in {1, 2}, NEW c \in 1 .. 8
  PROVE  /\ c \in 1 .. Len(MakersOf(st))
         /\ \A k \in 1 .. Len(MakersOf(st)) : MakersOf(st)[k] = JumandicStage1[c] <=> k = c
<1>1. \A k \in 1 .. 8 : JumandicStage1[k] = JumandicStage1[c] <=> k = c
  BY DEF JumandicStage1
<1>2. \A k \in 1 .. 10 : k \in 1 .. 8 \/ k = 9 \/ k = 10
  OBVIOUS
<1>3. "hiragana" # JumandicStage1[c] /\ "notImpl" # JumandicStage1[c]
  BY DEF JumandicStage1
<1>4. CASE st = 1
  BY <1>1, <1>4, StagesOfJumandic
<1>5. CASE st = 2
  <2>1. ASSUME NEW k \in 1 .. 10 PROVE MakersOf(2)[k] = JumandicStage1[c] <=> k = c
    <3>1. CASE k \in 1 .. 8
      BY <1>1, <3>1, StagesOfJumandic
    <3>2. CASE k = 9 \/ k = 10
      BY <1>3, <3>2, StagesOfJumandic
    <3>. QED
      BY <1>2, <3>1, <3>2
  <2>2. 1 .. Len(MakersOf(2)) = 1 .. 10 /\ c \in 1 .. 10
    <3>1. 1 .. Len(MakersOf(2)) = 1 .. 10
      BY StagesOfJumandic, Zenon
    <3>2. c \in 1 .. 10
      OBVIOUS
    <3>. QED
      BY <3>1, <3>2
  <2>3. c \in 1 .. Len(MakersOf(2)) /\ \A k \in 1 .. Len(MakersOf(2)) : MakersOf(2)[k] = JumandicStage1[c] <=> k = c
    BY <2>1, <2>2
  <2>. QED
    BY <1>5, <2>3
<1>. QED
  BY <1>4, <1>5

\* So what only one of them proposes is in a built lattice if it does, and once
\* if it proposes it once.
LEMMA BuiltByOne ==
  ASSUME IInv, RowsInv, phase = "built", NEW c \in 1 .. 8, JumandicStage1[c] \in MakerNames, NEW v,
         \A x \in MakerNames : v.entry[1] = KindOf[x] <=> x = JumandicStage1[c],
         Once(Spawned[input][JumandicStage1[c]], v)
  PROVE  /\ (\E k \in DOMAIN seeds : seeds[k] = v) <=> v \in ToSet(Spawned[input][JumandicStage1[c]])
         /\ Once(seeds, v)
<1>. DEFINE name == JumandicStage1[c]
            mine == Spawned[input][name]
            ms == MakersOf(stage)
<1>1. /\ input \in Inputs \ Refused /\ stage \in {1, 2}
      /\ (\E k \in DOMAIN seeds : seeds[k] = v) <=>
           \E x \in MakerNames : /\ \E k \in 1 .. Len(ms) : ms[k] = x
                                 /\ v \in ToSet(Spawned[input][x])
  BY BuiltSeeds
<1>2. \A x \in MakerNames : v \in ToSet(Spawned[input][x]) => x = name
  BY <1>1, MakersOfKind
<1>3. /\ c \in 1 .. Len(ms) /\ \A k \in 1 .. Len(ms) : ms[k] = name <=> k = c
      /\ ms \in Seq(Makers) /\ \A k \in 1 .. Len(ms) : ms[k] \in MakerNames
  BY <1>1, MakerOnce, MakersHaveNames
<1>4. name \in MakerNames /\ Once(mine, v)
  OBVIOUS
<1>. HIDE DEF ms, name
<1>5. (\E k \in DOMAIN seeds : seeds[k] = v) <=> v \in ToSet(mine)
  <2>1. ASSUME NEW k \in DOMAIN seeds, seeds[k] = v PROVE v \in ToSet(mine)
    <3>1. PICK x \in MakerNames : v \in ToSet(Spawned[input][x])
      BY <1>1, <2>1
    <3>. QED
      BY <1>2, <3>1
  <2>2. ASSUME v \in ToSet(mine) PROVE \E k \in DOMAIN seeds : seeds[k] = v
    <3>1. \E k \in 1 .. Len(ms) : ms[k] = name
      BY <1>3
    <3>. QED
      BY <1>1, <1>4, <2>2, <3>1
  <2>. QED
    BY <2>1, <2>2
<1>6. ASSUME NEW k \in 1 .. Len(ms), v \in ToSet(Spawned[input][ms[k]]) PROVE k = c
  BY <1>2, <1>3, <1>6
<1>7. ASSUME NEW k \in 1 .. Len(ms) PROVE Once(Spawned[input][ms[k]], v)
  <2>1. CASE k = c
    BY <1>3, <1>4, <2>1
  <2>2. CASE k # c
    <3>1. v \notin ToSet(Spawned[input][ms[k]])
      BY <1>6, <2>2
    <3>. QED
      BY <3>1 DEF Once, ToSet
  <2>. QED
    BY <2>1, <2>2
<1>8. Once(Words(input, ms), v)
  <2>1. \A k, l \in 1 .. Len(ms) :
          v \in ToSet(Spawned[input][ms[k]]) /\ v \in ToSet(Spawned[input][ms[l]]) => k = l
    BY <1>6
  <2>. QED
    BY <1>1, <1>3, <1>7, <2>1, WordsOnce
<1>9. Once(seeds, v)
  <2>1. phase \in Working /\ todo = <<>> /\ seeds \in Seq(Given(input))
    BY DEF IInv, SeedsInv, RowsInv, Working, Checked
  <2>2. /\ SameRows(seeds, SeedsUpTo(stage)) /\ SeedsUpTo(stage) \in Seq(Given(input))
        /\ SeedsUpTo(stage) = Words(input, ms)
    BY <2>1, AllSpawned, SeedsAreWords DEF ms
  <2>. QED
    BY <1>8, <2>1, <2>2, SameRowsOnce
<1>. QED
  BY <1>5, <1>9 DEF name

\* The numbers of a built lattice are those its maker proposes, each once.
LEMMA BuiltNumbers ==
  ASSUME IInv, RowsInv, phase = "built", NEW v, v.entry[1] = "number"
  PROVE  /\ (\E k \in DOMAIN seeds : seeds[k] = v) <=>
              \E i \in 1 .. Len(text) : \E j \in i .. Len(text) : NumberProposes(text, input.behind, i, j, v)
         /\ Once(seeds, v)
<1>1. input \in Inputs \ Refused
  BY BuiltSeeds
<1>2. text \in Seq(Chars) /\ text = input.text
  BY <1>1, SentenceText DEF text
<1>3. JumandicStage1[6] = "digits" /\ "digits" \in MakerNames
  BY DEF JumandicStage1, MakerNames
<1>4. \A x \in MakerNames : KindOf[x] = "number" <=> x = "digits"
  BY DEF KindOf, MakerNames
<1>5. Spawned[input]["digits"] = NumericSeeds(text, input.behind)
  <2>1. SeedsOf(input)["digits"] = NumericSeeds(input.text, input.behind)
    BY DEF SeedsOf
  <2>. QED
    BY <1>1, <1>2, <2>1, MakersAssumption
<1>6. /\ v \in ToSet(NumericSeeds(text, input.behind)) <=>
           \E i \in 1 .. Len(text) : \E j \in i .. Len(text) : NumberProposes(text, input.behind, i, j, v)
      /\ Once(NumericSeeds(text, input.behind), v)
  BY <1>2, NumberMembers
<1>. QED
  BY <1>3, <1>4, <1>5, <1>6, BuiltByOne

LEMMA NumbersWhole == IInv /\ RowsDone => NumbersAreWhole
<1>. SUFFICES ASSUME IInv, RowsInv, phase = "built", ~input.behind, NEW i \in 1 .. n, IsDigit(i)
              PROVE  LET numbers == {k \in DOMAIN seeds : seeds[k].entry[1] = "number" /\ seeds[k].from = i - 1}
                     IN /\ numbers = {} => \E j \in i .. n : SubSeq(text, i, j) \in Figures
                        /\ \A k \in numbers :
                             LET j == seeds[k].to IN
                             /\ numbers = {k}
                             /\ IsDigit(j + 1) \/ Has(text[j], NUM_PERIOD \cup {"COMMA"}) =>
                                  j - i >= MaxNumericLength
                             /\ \A l \in i .. j :
                                  /\ Has(text[l], NUM_PERIOD) => IsDigit(l - 1) /\ IsDigit(l + 1)
                                  /\ Has(text[l], {"COMMA"}) =>
                                       /\ IsDigit(l - 1) \/ UnitEnds(i, l - 1)
                                       /\ \A m \in 1 .. 3 : IsFigure(l + m)
                                       /\ ~IsFigure(l + 4)
  BY DEF RowsDone, NumbersAreWhole
<1>. DEFINE here == {k \in DOMAIN seeds : seeds[k].entry[1] = "number" /\ seeds[k].from = i - 1}
            behind == input.behind
            e == FindLongestNumber(text, i, behind)
            j == e - 1
            x == Seed(<<"number", Kind(SubSeq(text, i, j))>>, i, j)
<1>1. text \in Seq(Chars) /\ n = Len(text) /\ n \in Nat
  <2>1. input \in Inputs \ Refused
    BY BuiltSeeds
  <2>. QED
    BY <2>1, SentenceText DEF text, n
<1>2. /\ \A k : IsDigit(k) <=> DigitAt(text, k)
      /\ \A k : IsFigure(k) <=> FigureAt(text, k)
      /\ \A k : UnitEnds(i, k) <=> UnitEndsAt(text, i, k)
  BY <1>1 DEF IsDigit, DigitAt, IsFigure, FigureAt, UnitEnds, UnitEndsAt
<1>3. e \in i + 1 .. n + 1 /\ MarksFit(text, i, i, e) /\ (DigitAt(text, e) => e - i > MaxNumericLength)
  <2>1. i \in 1 .. Len(text) /\ DigitAt(text, i)
    BY <1>1, <1>2
  <2>. QED
    BY <1>1, <2>1, LongestIsWhole
<1>. HIDE DEF e
<1>4. j \in i .. n /\ j + 1 = e /\ e - 1 = j /\ j \in Int
  BY <1>1, <1>3
<1>5. x.entry = <<"number", Kind(SubSeq(text, i, j))>> /\ x.entry[1] = "number" /\ x.from = i - 1 /\ x.to = j
  BY KindOfSeed
<1>6. ASSUME NEW k \in here PROVE seeds[k] = x
  <2>. DEFINE v == seeds[k]
  <2>1. v.entry[1] = "number" /\ v.from = i - 1 /\ k \in DOMAIN seeds
    OBVIOUS
  <2>. HIDE DEF v
  <2>2. PICK a \in 1 .. n : \E b \in a .. n : NumberProposes(text, behind, a, b, v)
    <3>1. \E y \in DOMAIN seeds : seeds[y] = v
      BY <2>1 DEF v
    <3>. QED
      BY <1>1, <2>1, <3>1, BuiltNumbers
  <2>3. PICK b \in a .. n : NumberProposes(text, behind, a, b, v)
    BY <2>2
  <2>4. v.from = a - 1
    BY <2>3, NumberIs
  <2>5. a = i
    BY <1>1, <2>1, <2>4
  <2>6. b + 1 = e
    BY <2>3, <2>5 DEF NumberProposes, e
  <2>7. b = j
    BY <1>1, <1>3, <2>6
  <2>. QED
    BY <2>3, <2>5, <2>7 DEF NumberProposes, v
<1>. HIDE DEF x
<1>7. ASSUME here = {} PROVE \E y \in i .. n : SubSeq(text, i, y) \in Figures
  <2>. SUFFICES ASSUME SubSeq(text, i, j) \notin Figures PROVE FALSE
    BY <1>4
  <2>1. NumberProposes(text, behind, i, j, x)
    BY <1>4 DEF NumberProposes, e, x
  <2>2. \E k \in DOMAIN seeds : seeds[k] = x
    BY <1>1, <1>4, <1>5, <2>1, BuiltNumbers
  <2>. QED
    BY <1>5, <1>7, <2>2
<1>8. ASSUME NEW k \in here PROVE here = {k} /\ seeds[k].to = j
  <2>1. Once(seeds, x)
    BY <1>5, BuiltNumbers
  <2>2. \A y \in here : y = k
    BY <1>6, <2>1 DEF Once
  <2>. QED
    BY <1>5, <1>6, <2>2
<1>9. ASSUME NEW l \in i .. j
      PROVE  /\ Has(text[l], NUM_PERIOD) => IsDigit(l - 1) /\ IsDigit(l + 1)
             /\ Has(text[l], {"COMMA"}) =>
                  /\ IsDigit(l - 1) \/ UnitEnds(i, l - 1)
                  /\ \A m \in 1 .. 3 : IsFigure(l + m)
                  /\ ~IsFigure(l + 4)
  <2>1. MarkFits(text, i, l)
    BY <1>3, <1>4 DEF MarksFit
  <2>. QED
    BY <1>2, <2>1 DEF MarkFits, CommaFits
<1>10. ASSUME IsDigit(j + 1) \/ Has(text[j], NUM_PERIOD \cup {"COMMA"}) PROVE j - i >= MaxNumericLength
  <2>1. j \in i .. j /\ text[j] \in Chars
    BY <1>1, <1>4
  <2>3. IsFigure(j + 1) => IsDigit(j + 1)
    <3>1. ASSUME IsFigure(j + 1) PROVE IsDigit(j + 1)
      <4>1. j + 1 \in 1 .. n /\ Has(text[j + 1], {"FIGURE"})
        BY <3>1 DEF IsFigure
      <4>2. text[j + 1] \in Chars
        BY <1>1, <4>1
      <4>. QED
        BY <4>1, <4>2, ClassesDiffer DEF IsDigit
    <3>. QED
      BY <3>1
  <2>4. IsDigit(j + 1)
    <3>1. Has(text[j], {"COMMA"}) => IsDigit(j + 1)
      BY <1>9, <2>1, <2>3
    <3>2. Has(text[j], NUM_PERIOD) => IsDigit(j + 1)
      BY <1>9, <2>1
    <3>3. Has(text[j], MARKS) => Has(text[j], NUM_PERIOD) \/ Has(text[j], {"COMMA"})
      BY <2>1, ClassesDiffer
    <3>. QED
      BY <1>10, <3>1, <3>2, <3>3 DEF MARKS
  <2>5. e - i > MaxNumericLength /\ MaxNumericLength \in Nat
    BY <1>2, <1>3, <1>4, <2>4, NumericAssumption
  <2>6. e \in Int /\ i \in Int
    BY <1>1, <1>3
  <2>. QED
    BY <2>5, <2>6
<1>. HIDE DEF j, here
<1>. QED
  <2>1. ASSUME NEW k \in here
        PROVE LET y == seeds[k].to IN
                /\ here = {k}
                /\ IsDigit(y + 1) \/ Has(text[y], NUM_PERIOD \cup {"COMMA"}) => y - i >= MaxNumericLength
                /\ \A l \in i .. y :
                     /\ Has(text[l], NUM_PERIOD) => IsDigit(l - 1) /\ IsDigit(l + 1)
                     /\ Has(text[l], {"COMMA"}) =>
                          /\ IsDigit(l - 1) \/ UnitEnds(i, l - 1)
                          /\ \A m \in 1 .. 3 : IsFigure(l + m)
                          /\ ~IsFigure(l + 4)
    BY <1>8, <1>9, <1>10
  <2>. QED
    BY <1>7, <2>1 DEF here

\* Wherever a digit stands that is no word of the dictionary with what follows,
\* one number is proposed, and it is whole: the makers of the two stages and
\* the sorting of their words never make it two, all digits behind it belong
\* to it unless its length is at its limit, and a comma or a decimal point is
\* only where the code lets it stand.
THEOREM NumbersTakenWhole == Spec => []NumbersAreWhole
<1>1. Init => IInv /\ RowsDone
  BY InitInv, RowsInit DEF RowsDone
<1>2. IInv /\ RowsDone /\ [Next]_vars => (IInv /\ RowsDone)'
  BY StepInv, RowsStep
<1>3. IInv /\ RowsDone => NumbersAreWhole
  BY NumbersWhole
<1>. QED
  BY <1>1, <1>2, <1>3, PTL DEF Spec
-----------------------------------------------------------------------------
(* The other spellings of a built lattice *)

\* The other spellings in a built lattice are those the normaliser proposes,
\* each once.
LEMMA BuiltNormalized ==
  ASSUME IInv, RowsInv, phase = "built", NEW v, v.entry[1] = "normalized"
  PROVE  /\ (\E k \in DOMAIN seeds : seeds[k] = v) <=>
              \E i \in 1 .. Len(text) : \E j \in i .. Len(text) : NormalizedProposes(text, i, j, v)
         /\ Once(seeds, v)
<1>1. input \in Inputs \ Refused
  BY BuiltSeeds
<1>2. text \in Seq(Chars) /\ text = input.text
  BY <1>1, SentenceText DEF text
<1>3. JumandicStage1[8] = "normalize" /\ "normalize" \in MakerNames
  BY DEF JumandicStage1, MakerNames
<1>4. \A x \in MakerNames : KindOf[x] = "normalized" <=> x = "normalize"
  BY DEF KindOf, MakerNames
<1>5. Spawned[input]["normalize"] = NormalizedSeeds(text)
  <2>1. SeedsOf(input)["normalize"] = NormalizedSeeds(input.text)
    BY DEF SeedsOf
  <2>. QED
    BY <1>1, <1>2, <2>1, MakersAssumption
<1>6. /\ v \in ToSet(NormalizedSeeds(text)) <=>
           \E i \in 1 .. Len(text) : \E j \in i .. Len(text) : NormalizedProposes(text, i, j, v)
      /\ Once(NormalizedSeeds(text), v)
  BY <1>2, NormalizedMembers
<1>. QED
  BY <1>3, <1>4, <1>5, <1>6, BuiltByOne

LEMMA NormalizedWhole == IInv /\ RowsDone => NormalizedAreRespellings
<1>. SUFFICES ASSUME IInv, RowsInv, phase = "built", NEW i \in 1 .. n, NEW j \in i .. n,
                     NEW w \in DOMAIN Dictionary, NEW e \in 1 .. Dictionary[w]
              PROVE  LET here == {k \in Proposed(i, j) : /\ seeds[k].entry[1] = "normalized"
                                                         /\ seeds[k].entry[2] = w /\ seeds[k].entry[3] = e}
                     IN IF Ways(text, i, j, w) = {} THEN here = {}
                        ELSE \E k \in here : here = {k} /\ seeds[k].entry[4] = Ways(text, i, j, w)
  BY DEF RowsDone, NormalizedAreRespellings, Ways
<1>. DEFINE ways == Ways(text, i, j, w)
            here == {k \in Proposed(i, j) : /\ seeds[k].entry[1] = "normalized"
                                            /\ seeds[k].entry[2] = w /\ seeds[k].entry[3] = e}
            x == Respelling(w, e, ways, i, j)
<1>1. text \in Seq(Chars) /\ n = Len(text) /\ n \in Nat
  <2>1. input \in Inputs \ Refused
    BY BuiltSeeds
  <2>. QED
    BY <2>1, SentenceText DEF text, n
<1>2. /\ x.entry[1] = "normalized" /\ x.entry[2] = w /\ x.entry[3] = e /\ x.entry[4] = ways
      /\ x.from = i - 1 /\ x.to = j
  BY RespellingIs
<1>3. ASSUME NEW k \in here PROVE ways # {} /\ seeds[k] = x
  <2>. DEFINE v == seeds[k]
  <2>1. /\ k \in DOMAIN seeds /\ v.from = i - 1 /\ v.to = j
        /\ v.entry[1] = "normalized" /\ v.entry[2] = w /\ v.entry[3] = e
    BY DEF Proposed
  <2>. HIDE DEF v
  <2>2. PICK a \in 1 .. n : \E b \in a .. n : NormalizedProposes(text, a, b, v)
    <3>1. \E y \in DOMAIN seeds : seeds[y] = v
      BY <2>1 DEF v
    <3>. QED
      BY <1>1, <2>1, <3>1, BuiltNormalized
  <2>3. PICK b \in a .. n : NormalizedProposes(text, a, b, v)
    BY <2>2
  <2>4. v.from = a - 1 /\ v.to = b
    BY <2>3, ProposedThere
  <2>5. a = i /\ b = j
    BY <1>1, <2>1, <2>4
  <2>6. PICK y \in DOMAIN Dictionary :
               /\ Ways(text, i, j, y) # {}
               /\ \E d \in 1 .. Dictionary[y] : v = Respelling(y, d, Ways(text, i, j, y), i, j)
    BY <2>3, <2>5 DEF NormalizedProposes
  <2>7. PICK d \in 1 .. Dictionary[y] : v = Respelling(y, d, Ways(text, i, j, y), i, j)
    BY <2>6
  <2>8. /\ Respelling(y, d, Ways(text, i, j, y), i, j).entry[2] = y
        /\ Respelling(y, d, Ways(text, i, j, y), i, j).entry[3] = d
    BY RespellingIs
  <2>9. y = w /\ d = e
    BY <2>1, <2>7, <2>8
  <2>. QED
    BY <2>6, <2>7, <2>9 DEF v
<1>4. ASSUME ways # {} PROVE \E k \in here : here = {k} /\ seeds[k].entry[4] = ways
  <2>. HIDE DEF x
  <2>1. NormalizedProposes(text, i, j, x)
    <3>1. Ways(text, i, j, w) # {} /\ x = Respelling(w, e, Ways(text, i, j, w), i, j)
      BY <1>4 DEF x
    <3>. QED
      BY <3>1 DEF NormalizedProposes
  <2>2. (\E k \in DOMAIN seeds : seeds[k] = x) /\ Once(seeds, x)
    BY <1>1, <1>2, <2>1, BuiltNormalized
  <2>3. PICK k \in DOMAIN seeds : seeds[k] = x
    BY <2>2
  <2>4. k \in here
    BY <1>2, <2>3 DEF Proposed
  <2>5. \A y \in here : y = k
    <3>1. \A y \in here : y \in DOMAIN seeds /\ seeds[y] = x
      BY <1>3 DEF Proposed
    <3>. HIDE DEF here
    <3>. QED
      BY <2>2, <2>3, <3>1 DEF Once
  <2>. HIDE DEF here, ways
  <2>. QED
    BY <1>2, <2>3, <2>4, <2>5
<1>5. CASE ways = {}
  <2>1. here = {}
    <3>. HIDE DEF here
    <3>. QED
      BY <1>3, <1>5
  <2>. HIDE DEF x
  <2>. QED
    BY <1>5, <2>1
<1>6. CASE ways # {}
  <2>. HIDE DEF x
  <2>. QED
    BY <1>4, <1>6
<1>. QED
  BY <1>5, <1>6

\* The dictionary words proposed for a part of a sentence as other spellings
\* of it are exactly those that changing its characters can reach: traversals
\* that meet, part and keep their states lose no word and invent none, and the
\* flags a seed carries are those of the ways to the word.
THEOREM RespellingsProposed == Spec => []NormalizedAreRespellings
<1>1. Init => IInv /\ RowsDone
  BY InitInv, RowsInit DEF RowsDone
<1>2. IInv /\ RowsDone /\ [Next]_vars => (IInv /\ RowsDone)'
  BY StepInv, RowsStep
<1>3. IInv /\ RowsDone => NormalizedAreRespellings
  BY NormalizedWhole
<1>. QED
  BY <1>1, <1>2, <1>3, PTL DEF Spec
===============================================================================
