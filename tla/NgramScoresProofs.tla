-------------------------- MODULE NgramScoresProofs --------------------------
(***************************************************************************)
(* Proofs about NgramScores, for all lattices, specifications of features  *)
(* and sizes of beams: every connection that is ranked has been scored,    *)
(* the settings of the library keep all writes inside the buffers, the     *)
(* rows of nodes hold what their patterns mean, no loop over features      *)
(* reads an index that was not written, and connections are scored with    *)
(* the weights of their own features and ranked by their totals.           *)
(***************************************************************************)
EXTENDS NgramScores, CommonLemmas, TLAPS

-----------------------------------------------------------------------------
(* Numbering a finite set along an order *)

\* R orders S strictly and compares any two of its elements.
Orders(R, S) ==
  /\ \A x \in S : <<x, x>> \notin R
  /\ \A x, y, z \in S : <<x, y>> \in R /\ <<y, z>> \in R => <<x, z>> \in R
  /\ \A x, y \in S : x # y => <<x, y>> \in R \/ <<y, x>> \in R

Below(R, S, x) == {y \in S : <<y, x>> \in R}
Height(R, S, x) == Cardinality(Below(R, S, x)) + 1

LEMMA HeightGrows ==
  ASSUME NEW S, IsFiniteSet(S), NEW R, Orders(R, S)
  PROVE  /\ \A x \in S : Height(R, S, x) \in 1 .. Cardinality(S)
         /\ \A x, y \in S : <<x, y>> \in R => Height(R, S, x) < Height(R, S, y)
<1>1. ASSUME NEW x \in S
      PROVE  /\ IsFiniteSet(Below(R, S, x)) /\ Cardinality(Below(R, S, x)) \in Nat
             /\ Cardinality(Below(R, S, x)) < Cardinality(S) /\ Cardinality(S) \in Nat
  <2>1. Below(R, S, x) \in SUBSET S /\ Below(R, S, x) # S
    BY DEF Below, Orders
  <2>2. /\ IsFiniteSet(Below(R, S, x)) /\ Cardinality(Below(R, S, x)) <= Cardinality(S)
        /\ Cardinality(Below(R, S, x)) # Cardinality(S)
    BY <2>1, FS_Subset
  <2>3. Cardinality(Below(R, S, x)) \in Nat /\ Cardinality(S) \in Nat
    BY <2>2, FS_CardinalityType
  <2>. QED
    BY <2>2, <2>3
<1>2. ASSUME NEW x \in S, NEW y \in S, <<x, y>> \in R
      PROVE  Cardinality(Below(R, S, x)) < Cardinality(Below(R, S, y))
  <2>1. Below(R, S, x) \in SUBSET Below(R, S, y) /\ Below(R, S, x) # Below(R, S, y)
    BY <1>2 DEF Below, Orders
  <2>2. /\ Cardinality(Below(R, S, x)) <= Cardinality(Below(R, S, y))
        /\ Cardinality(Below(R, S, x)) # Cardinality(Below(R, S, y))
    BY <1>1, <2>1, FS_Subset
  <2>. QED
    BY <1>1, <2>2
<1>. QED
  BY <1>1, <1>2 DEF Height

\* Each number up to the size of the set is the height of one element.
LEMMA HeightsOnto ==
  ASSUME NEW S, IsFiniteSet(S), NEW R, Orders(R, S), NEW k \in 1 .. Cardinality(S)
  PROVE  \E x \in S : Height(R, S, x) = k
<1>. DEFINE f == [x \in S |-> Height(R, S, x)]
            m == Cardinality(S)
<1>1. m \in Nat
  BY FS_CardinalityType
<1>2. f \in [S -> 1 .. m]
  BY HeightGrows
<1>3. ASSUME NEW x \in S, NEW y \in S, x # y PROVE f[x] # f[y]
  <2>1. Height(R, S, x) < Height(R, S, y) \/ Height(R, S, y) < Height(R, S, x)
    BY <1>3, HeightGrows DEF Orders
  <2>2. Height(R, S, x) \in Int /\ Height(R, S, y) \in Int
    BY HeightGrows
  <2>. QED
    BY <2>1, <2>2
<1>4. f \in Injection(S, 1 .. m)
  BY <1>2, <1>3 DEF Injection, IsInjective
<1>5. IsFiniteSet(1 .. m) /\ Cardinality(1 .. m) = m
  <2>1. 1 \in Int /\ m \in Int
    BY <1>1
  <2>2. IsFiniteSet(1 .. m) /\ Cardinality(1 .. m) = IF 1 > m THEN 0 ELSE m - 1 + 1
    BY <2>1, FS_Interval
  <2>. QED
    BY <1>1, <2>2
<1>6. f \in Surjection(S, 1 .. m)
  <2>. HIDE DEF f
  <2>. QED
    BY <1>4, <1>5, FS_Injection
<1>. QED
  BY <1>6 DEF Surjection

\* What is numbered: for each number the one element with that many below it.
LEMMA Numbering ==
  ASSUME NEW S, IsFiniteSet(S), NEW R, Orders(R, S), NEW q, DOMAIN q = 1 .. Cardinality(S),
         \A k \in 1 .. Cardinality(S) : q[k] = CHOOSE x \in S : Cardinality(Below(R, S, x)) = k - 1
  PROVE  /\ \A k \in 1 .. Cardinality(S) : q[k] \in S /\ Height(R, S, q[k]) = k
         /\ \A x \in S : Height(R, S, x) \in 1 .. Cardinality(S) /\ q[Height(R, S, x)] = x
<1>1. ASSUME NEW k \in 1 .. Cardinality(S)
      PROVE  q[k] \in S /\ Height(R, S, q[k]) = k
  <2>1. PICK y \in S : Height(R, S, y) = k
    BY HeightsOnto
  <2>2. \A x \in S : Cardinality(Below(R, S, x)) = k - 1 <=> Height(R, S, x) = k
    <3>1. \A x \in S : Cardinality(Below(R, S, x)) \in Int
      <4>1. ASSUME NEW x \in S PROVE Cardinality(Below(R, S, x)) \in Int
        <5>1. Below(R, S, x) \in SUBSET S
          BY DEF Below
        <5>2. IsFiniteSet(Below(R, S, x))
          BY <5>1, FS_Subset
        <5>. QED
          BY <5>2, FS_CardinalityType
      <4>. QED
        BY <4>1
    <3>. QED
      BY <3>1 DEF Height
  <2>3. \E x \in S : Cardinality(Below(R, S, x)) = k - 1
    BY <2>1, <2>2
  <2>4. q[k] \in S /\ Cardinality(Below(R, S, q[k])) = k - 1
    BY <2>3
  <2>. QED
    BY <2>2, <2>4
<1>2. ASSUME NEW x \in S
      PROVE  Height(R, S, x) \in 1 .. Cardinality(S) /\ q[Height(R, S, x)] = x
  <2>1. PICK k \in 1 .. Cardinality(S) : k = Height(R, S, x)
    BY HeightGrows
  <2>2. q[k] \in S /\ Height(R, S, q[k]) = k
    BY <1>1
  <2>3. q[k] # x => Height(R, S, q[k]) < Height(R, S, x) \/ Height(R, S, x) < Height(R, S, q[k])
    BY <2>2, HeightGrows DEF Orders
  <2>. QED
    BY <2>1, <2>2, <2>3
<1>. QED
  BY <1>1, <1>2

\* Less than, on a set of numbers.
Less(S) == {p \in S \X S : p[1] < p[2]}

LEMMA InOrderNumbers ==
  ASSUME NEW S, IsFiniteSet(S), S \subseteq Int
  PROVE  /\ Cardinality(S) \in Nat /\ DOMAIN InOrder(S) = 1 .. Cardinality(S)
         /\ \A k \in DOMAIN InOrder(S) : InOrder(S)[k] \in S
         /\ \A x \in S : \E k \in DOMAIN InOrder(S) : InOrder(S)[k] = x
         /\ \A j, k \in DOMAIN InOrder(S) : j < k => InOrder(S)[j] < InOrder(S)[k]
<1>. DEFINE R == Less(S)
            q == InOrder(S)
            m == Cardinality(S)
<1>1. Orders(R, S)
  BY DEF Orders, Less
<1>2. m \in Nat /\ DOMAIN q = 1 .. m
  BY FS_CardinalityType DEF InOrder
<1>3. \A x \in S : Below(R, S, x) = {j \in S : j < x}
  BY DEF Below, Less
<1>4. \A k \in 1 .. m : q[k] = CHOOSE x \in S : Cardinality(Below(R, S, x)) = k - 1
  <2>1. ASSUME NEW k \in 1 .. m
        PROVE  q[k] = CHOOSE x \in S : Cardinality(Below(R, S, x)) = k - 1
    <3>1. q[k] = CHOOSE x \in S : Cardinality({j \in S : j < x}) = k - 1
      BY DEF InOrder
    <3>2. \A x \in S : Cardinality({j \in S : j < x}) = k - 1
                         <=> Cardinality(Below(R, S, x)) = k - 1
      BY <1>3
    <3>. HIDE DEF R, q, m
    <3>. QED
      BY <3>1, <3>2
  <2>. QED
    BY <2>1
<1>. HIDE DEF R, q, m
<1>5. /\ \A k \in 1 .. m : q[k] \in S /\ Height(R, S, q[k]) = k
      /\ \A x \in S : Height(R, S, x) \in 1 .. m /\ q[Height(R, S, x)] = x
  BY <1>1, <1>2, <1>4, Numbering DEF m
<1>6. ASSUME NEW j \in 1 .. m, NEW k \in 1 .. m, j < k PROVE q[j] < q[k]
  <2>1. q[j] \in S /\ q[k] \in S /\ q[j] \in Int /\ q[k] \in Int
    BY <1>5
  <2>2. q[k] < q[j] => <<q[k], q[j]>> \in R
    BY <2>1 DEF R, Less
  <2>3. q[k] < q[j] => k < j
    BY <1>1, <1>5, <2>1, <2>2, HeightGrows
  <2>4. q[k] = q[j] => k = j
    BY <1>5
  <2>. QED
    BY <1>2, <1>6, <2>1, <2>3, <2>4
<1>. QED
  BY <1>2, <1>5, <1>6 DEF q, m

LEMMA DistinctMembers ==
  ASSUME NEW C, NEW seq \in Seq(C)
  PROVE  /\ IsFiniteSet(DOMAIN Distinct(seq)) /\ DOMAIN Distinct(seq) \subseteq Nat
         /\ \A i \in DOMAIN Distinct(seq) : \E j \in DOMAIN seq : Distinct(seq)[i] = seq[j]
<1>. DEFINE F == {i \in DOMAIN seq : \A j \in 1 .. i - 1 : seq[j] # seq[i]}
<1>1. DOMAIN seq = 1 .. Len(seq) /\ Len(seq) \in Nat
  OBVIOUS
<1>2. F \subseteq Int /\ IsFiniteSet(F) /\ F \subseteq DOMAIN seq
  <2>1. IsFiniteSet(DOMAIN seq) /\ F \in SUBSET (DOMAIN seq)
    BY <1>1, IntervalFinite
  <2>2. IsFiniteSet(F)
    BY <2>1, FS_Subset
  <2>. QED
    BY <1>1, <2>2
<1>. HIDE DEF F
<1>3. /\ Cardinality(F) \in Nat /\ DOMAIN InOrder(F) = 1 .. Cardinality(F)
      /\ \A k \in DOMAIN InOrder(F) : InOrder(F)[k] \in F
  BY <1>2, InOrderNumbers
<1>4. Distinct(seq) = [k \in DOMAIN InOrder(F) |-> seq[InOrder(F)[k]]]
  BY DEF Distinct, F
<1>5. IsFiniteSet(1 .. Cardinality(F))
  BY <1>3, IntervalFinite
<1>6. DOMAIN Distinct(seq) = 1 .. Cardinality(F)
  BY <1>3, <1>4
<1>7. \A i \in 1 .. Cardinality(F) : Distinct(seq)[i] = seq[InOrder(F)[i]] /\ InOrder(F)[i] \in F
  BY <1>3, <1>4
<1>8. 1 .. Cardinality(F) \subseteq Nat
  BY <1>3
<1>. QED
  BY <1>2, <1>5, <1>6, <1>7, <1>8

-----------------------------------------------------------------------------
(* The patterns of a specification *)

\* The n-grams of a specification are sequences of patterns.
LEMMA NgramsOfCombos ==
  ASSUME NEW s \in ToSet(Specs)
  PROVE  /\ s.ngrams \in Seq(Seq(UNION {ToSet(s.ngrams[i]) : i \in DOMAIN s.ngrams}))
         /\ \A i \in DOMAIN s.ngrams : Len(s.ngrams[i]) \in 1 .. 3
<1>. DEFINE q == s.ngrams
            C == UNION {ToSet(q[i]) : i \in DOMAIN q}
            N == {f.name : f \in ToSet(s.features)}
<1>1. q \in Seq(Seq(Seq(N))) /\ \A i \in DOMAIN q : Len(q[i]) \in 1 .. 3
  BY SpecsAssumption
<1>. HIDE DEF N
<1>2. ASSUME NEW i \in DOMAIN q PROVE q[i] \in Seq(C)
  <2>1. q[i] \in Seq(Seq(N))
    BY <1>1
  <2>2. \A k \in 1 .. Len(q[i]) : q[i][k] \in C
    BY <2>1 DEF ToSet
  <2>. HIDE DEF C, q
  <2>. QED
    BY <2>1, <2>2
<1>3. q \in Seq(Seq(C))
  <2>. HIDE DEF C, q
  <2>. QED
    BY <1>1, <1>2
<1>. QED
  BY <1>1, <1>3

\* The patterns of its n-grams are finitely many, have different numbers, and
\* each is used by n-grams of one to three patterns.
LEMMA CombosUsed ==
  ASSUME NEW s \in ToSet(Specs)
  PROVE  /\ IsFiniteSet(ToSet(Combos(s)))
         /\ \A c \in ToSet(Combos(s)) :
              /\ Number(Combos(s), c) \in Nat /\ Combos(s)[Number(Combos(s), c)] = c
              /\ Usage(s, c) # {} /\ Usage(s, c) \subseteq 1 .. 3
<1>. DEFINE q == s.ngrams
            C == UNION {ToSet(q[i]) : i \in DOMAIN q}
            f == FlattenSeq(q)
            d == Combos(s)
<1>1. q \in Seq(Seq(C)) /\ \A i \in DOMAIN q : Len(q[i]) \in 1 .. 3
  BY NgramsOfCombos
<1>. HIDE DEF C
<1>2. /\ f \in Seq(C)
      /\ \A i \in DOMAIN f : \E k \in DOMAIN q : \E j \in DOMAIN q[k] : f[i] = q[k][j]
  <2>. HIDE DEF q
  <2>. QED
    BY <1>1, FlattenFrom
<1>3. /\ IsFiniteSet(DOMAIN d) /\ DOMAIN d \subseteq Nat
      /\ \A i \in DOMAIN d : \E j \in DOMAIN f : d[i] = f[j]
  <2>1. d = Distinct(f)
    BY DEF Combos
  <2>. HIDE DEF f, d
  <2>. QED
    BY <1>2, <2>1, DistinctMembers
<1>4. IsFiniteSet(ToSet(d))
  <2>. DEFINE g == [i \in DOMAIN d |-> d[i]]
  <2>1. g \in Surjection(DOMAIN d, ToSet(d))
    <3>. HIDE DEF d
    <3>. QED
      BY DEF Surjection, ToSet
  <2>. HIDE DEF g, d
  <2>. QED
    BY <1>3, <2>1, FS_Surjection
<1>5. ASSUME NEW c \in ToSet(d)
      PROVE  Number(d, c) \in Nat /\ d[Number(d, c)] = c
  <2>. HIDE DEF d
  <2>1. \E i \in DOMAIN d : d[i] = c
    BY DEF ToSet
  <2>2. Number(d, c) \in DOMAIN d /\ d[Number(d, c)] = c
    BY <2>1 DEF Number
  <2>. QED
    BY <1>3, <2>2
<1>6. ASSUME NEW c \in ToSet(d)
      PROVE  Usage(s, c) # {} /\ Usage(s, c) \subseteq 1 .. 3
  <2>1. PICK i \in DOMAIN d : d[i] = c
    BY DEF ToSet
  <2>2. PICK k \in DOMAIN q : \E j \in DOMAIN q[k] : c = q[k][j]
    <3>. HIDE DEF d, f, q
    <3>. QED
      BY <1>2, <1>3, <2>1
  <2>3. q[k] \in Seq(C)
    BY <1>1
  <2>4. DOMAIN q[k] = 1 .. Len(q[k])
    BY <2>3
  <2>5. Contains(q[k], c)
    BY <2>2, <2>4 DEF Contains
  <2>. QED
    BY <1>1, <2>5 DEF Usage
<1>. QED
  BY <1>4, <1>5, <1>6

\* The order of groupPatternFeatures.
Earlier(s, c, d) ==
  LET x == ScoreForUsage(Usage(s, c))
      y == ScoreForUsage(Usage(s, d))
  IN x < y \/ (x = y /\ Number(Combos(s), c) < Number(Combos(s), d))
EarlierIn(s) == {p \in ToSet(Combos(s)) \X ToSet(Combos(s)) : Earlier(s, p[1], p[2])}

LEMMA UsageScores ==
  ASSUME NEW u
  PROVE  /\ ScoreForUsage(u) \in Nat
         /\ u \subseteq 1 .. 3 /\ u # {} /\ u # {1} => ScoreForUsage(u) < ScoreForUsage({1})
<1>1. ScoreForUsage({1}) = 100
  BY DEF ScoreForUsage
<1>2. ScoreForUsage(u) \in {1, 10, 49, 50, 51, 100, 1000}
  BY DEF ScoreForUsage
<1>3. ASSUME u \subseteq 1 .. 3, u # {}, u # {1}
      PROVE  ScoreForUsage(u) \in {1, 10, 49, 50, 51}
  <2>1. \A x : x \in u => x \in {1, 2, 3}
    BY <1>3
  <2>2. CASE 2 \in u /\ 3 \in u
    <3>1. u # {3} /\ u # {1, 3} /\ {2, 3} \subseteq u
      BY <2>2
    <3>. QED
      BY <3>1, <2>2 DEF ScoreForUsage
  <2>3. CASE 3 \in u /\ 2 \notin u
    <3>1. u = {3} \/ u = {1, 3}
      BY <2>1, <2>3
    <3>. QED
      BY <3>1 DEF ScoreForUsage
  <2>4. CASE 2 \in u /\ 3 \notin u
    <3>1. u = {2} \/ u = {1, 2}
      BY <2>1, <2>4
    <3>2. ~({2, 3} \subseteq u) /\ u # {3} /\ u # {1, 3}
      BY <2>4
    <3>. QED
      BY <3>1, <3>2 DEF ScoreForUsage
  <2>5. CASE 2 \notin u /\ 3 \notin u
    BY <1>3, <2>1, <2>5
  <2>. QED
    BY <2>2, <2>3, <2>4, <2>5
<1>. QED
  BY <1>1, <1>2, <1>3

\* groupPatternFeatures numbers every pattern, those that only unigrams use
\* behind all others.
OnlyUnigrams(s) == {c \in ToSet(Combos(s)) : Usage(s, c) = {1}}

LEMMA UnigramPatternsLast ==
  ASSUME NEW s \in ToSet(Specs)
  PROVE  LET m == Cardinality(ToSet(Combos(s)))
         IN /\ m \in Nat /\ DOMAIN Grouped(s) = 1 .. m
            /\ ToSet(Grouped(s)) = ToSet(Combos(s))
            /\ Cardinality(OnlyUnigrams(s)) \in 0 .. m
            /\ \A p \in 1 .. m : Usage(s, Grouped(s)[p]) # {1} => p <= m - Cardinality(OnlyUnigrams(s))
            /\ \A j, k \in 1 .. m : Grouped(s)[j] = Grouped(s)[k] => j = k
<1>. DEFINE S == ToSet(Combos(s))
            R == EarlierIn(s)
            m == Cardinality(S)
            q == Grouped(s)
            U == OnlyUnigrams(s)
<1>1. IsFiniteSet(S) /\ m \in Nat /\ U \in SUBSET S
  BY CombosUsed, FS_CardinalityType DEF OnlyUnigrams
<1>2. Orders(R, S)
  <2>1. \A c \in S : Number(Combos(s), c) \in Int /\ ScoreForUsage(Usage(s, c)) \in Int
    BY CombosUsed, UsageScores
  <2>2. \A c, d \in S : Number(Combos(s), c) = Number(Combos(s), d) => c = d
    BY CombosUsed
  <2>3. \A c, d \in S : <<c, d>> \in R <=> Earlier(s, c, d)
    BY DEF EarlierIn
  <2>. HIDE DEF S, R
  <2>. QED
    BY <2>1, <2>2, <2>3 DEF Orders, Earlier
<1>3. \A x \in S : Below(R, S, x) = {d \in S : Earlier(s, d, x)}
  BY DEF Below, EarlierIn
<1>4. DOMAIN q = 1 .. m /\
      \A k \in 1 .. m : q[k] = CHOOSE x \in S : Cardinality({d \in S : Earlier(s, d, x)}) = k - 1
  BY DEF Grouped, Earlier
<1>5. \A k \in 1 .. m : q[k] = CHOOSE x \in S : Cardinality(Below(R, S, x)) = k - 1
  <2>1. ASSUME NEW k \in 1 .. m
        PROVE  q[k] = CHOOSE x \in S : Cardinality(Below(R, S, x)) = k - 1
    <3>1. \A x \in S : Cardinality({d \in S : Earlier(s, d, x)}) = k - 1
                         <=> Cardinality(Below(R, S, x)) = k - 1
      BY <1>3
    <3>. HIDE DEF R, q, m, S
    <3>. QED
      BY <1>4, <3>1
  <2>. QED
    BY <2>1
<1>6. /\ \A k \in 1 .. m : q[k] \in S /\ Height(R, S, q[k]) = k
      /\ \A x \in S : Height(R, S, x) \in 1 .. m /\ q[Height(R, S, x)] = x
  <2>. HIDE DEF R, q, S
  <2>. QED
    BY <1>1, <1>2, <1>4, <1>5, Numbering
<1>7. ToSet(q) = S
  <2>. HIDE DEF R, q, S, m
  <2>. QED
    BY <1>4, <1>6 DEF ToSet
<1>8. Cardinality(U) \in Nat /\ Cardinality(U) <= m
  BY <1>1, FS_Subset, FS_CardinalityType
<1>9. ASSUME NEW p \in 1 .. m, Usage(s, q[p]) # {1} PROVE p <= m - Cardinality(U)
  <2>. DEFINE c == q[p]
              B == Below(R, S, c)
  <2>1. c \in S /\ Cardinality(B) + 1 = p
    BY <1>6 DEF Height
  <2>2. c \notin U /\ ScoreForUsage(Usage(s, c)) < ScoreForUsage({1})
    BY <1>9, <2>1, CombosUsed, UsageScores DEF OnlyUnigrams
  <2>3. \A d \in U : ~Earlier(s, d, c)
    <3>1. ASSUME NEW d \in U PROVE ~Earlier(s, d, c)
      <4>1. Usage(s, d) = {1}
        BY DEF OnlyUnigrams
      <4>2. ScoreForUsage(Usage(s, c)) \in Nat /\ ScoreForUsage({1}) \in Nat
        BY UsageScores
      <4>. HIDE DEF c
      <4>. QED
        BY <2>2, <4>1, <4>2 DEF Earlier
    <3>. QED
      BY <3>1
  <2>4. B \subseteq S \ U /\ c \notin B
    <3>1. \A d \in B : d \in S /\ Earlier(s, d, c)
      BY <1>3, <2>1
    <3>2. c \notin B
      BY <1>2, <2>1 DEF Orders, Below
    <3>. QED
      BY <2>3, <3>1, <3>2
  <2>5. IsFiniteSet(S \ U) /\ Cardinality(S \ U) = m - Cardinality(U)
    <3>1. S \cap U = U
      BY <1>1
    <3>. HIDE DEF S, U
    <3>. QED
      BY <1>1, <3>1, FS_Difference
  <2>6. B \cup {c} \in SUBSET (S \ U)
    BY <2>1, <2>2, <2>4
  <2>7. IsFiniteSet(B) /\ Cardinality(B \cup {c}) = Cardinality(B) + 1
    <3>1. B \in SUBSET S
      BY DEF Below
    <3>2. IsFiniteSet(B)
      BY <1>1, <3>1, FS_Subset
    <3>. HIDE DEF B, c
    <3>. QED
      BY <2>4, <3>2, FS_AddElement
  <2>8. Cardinality(B \cup {c}) <= Cardinality(S \ U)
    BY <2>5, <2>6, FS_Subset
  <2>. QED
    BY <1>1, <1>8, <2>1, <2>5, <2>7, <2>8
<1>10. \A j, k \in 1 .. m : q[j] = q[k] => j = k
  <2>. HIDE DEF R, q, S, m
  <2>. QED
    BY <1>6
<1>. QED
  BY <1>1, <1>4, <1>7, <1>8, <1>9, <1>10

-----------------------------------------------------------------------------
(* The rows of patterns *)

\* The settings of a sentence come from the constants.
Config ==
  /\ lat \in Lattices
  /\ \E s \in ToSet(Specs) : compiled = Compile(s)
  /\ cfg.gbeam \in Nat /\ cfg.check \in Nat

LEMMA FunctionLength ==
  ASSUME NEW q, NEW m \in Nat, DOMAIN q = 1 .. m, q = [p \in 1 .. m |-> q[p]]
  PROVE  Len(q) = m
<1>. DEFINE S == {q[p] : p \in 1 .. m}
<1>1. q \in [1 .. m -> S]
  OBVIOUS
<1>. HIDE DEF S
<1>2. q \in Seq(S)
  BY <1>1
<1>. QED
  BY <1>1, <1>2

\* Generated code stores no pattern behind the row it has room for.
LEMMA NothingBehindRow == Config => ~BehindRow
<1>. SUFFICES ASSUME Config, NEW p \in Patterns(compiled), Stores(p)
              PROVE  ~(p > NumFeaturePatterns(compiled, Static, cfg.storeAll))
  BY DEF BehindRow
<1>1. PICK s \in ToSet(Specs) : compiled = Compile(s)
  BY DEF Config
<1>. DEFINE m == Cardinality(ToSet(Combos(s)))
            u == Cardinality(OnlyUnigrams(s))
            q == Grouped(s)
<1>2. /\ m \in Nat /\ DOMAIN q = 1 .. m /\ ToSet(q) = ToSet(Combos(s)) /\ u \in 0 .. m
      /\ \A k \in 1 .. m : Usage(s, q[k]) # {1} => k <= m - u
  BY UnigramPatternsLast
<1>3. /\ DOMAIN compiled.patterns = DOMAIN q
      /\ compiled.patterns = [k \in DOMAIN q |-> compiled.patterns[k]]
      /\ \A k \in DOMAIN q : compiled.patterns[k].usage = Usage(s, q[k])
  BY <1>1 DEF Compile, Compiled
<1>4. compiled.numUniOnlyPats = u
  <2>1. compiled.numUniOnlyPats = Cardinality({c \in ToSet(q) : Usage(s, c) = {1}})
    BY <1>1 DEF Compile, Compiled
  <2>. QED
    BY <1>2, <2>1 DEF OnlyUnigrams
<1>. HIDE DEF m, u, q
<1>5. Len(compiled.patterns) = m
  BY <1>2, <1>3, FunctionLength
<1>6. p \in 1 .. m
  BY <1>2, <1>3 DEF Patterns
<1>7. CASE Static /\ ~cfg.storeAll
  <2>1. Usage(s, q[p]) # {1}
    BY <1>2, <1>3, <1>6, <1>7 DEF Stores, UniOnly
  <2>2. NumFeaturePatterns(compiled, Static, cfg.storeAll) = m - u
    BY <1>4, <1>5, <1>7 DEF NumFeaturePatterns
  <2>. QED
    BY <1>2, <1>6, <2>1, <2>2
<1>8. CASE ~(Static /\ ~cfg.storeAll)
  <2>1. NumFeaturePatterns(compiled, Static, cfg.storeAll) = m
    BY <1>5, <1>8 DEF NumFeaturePatterns
  <2>. QED
    BY <1>2, <1>6, <2>1
<1>. QED
  BY <1>7, <1>8

-----------------------------------------------------------------------------
(* The nodes of a boundary *)

LEMMA PairsCount ==
  ASSUME NEW x, NEW k \in Nat
  PROVE  Cardinality({<<x, i>> : i \in 1 .. k}) = k
<1>. DEFINE T == {<<x, i>> : i \in 1 .. k}
            f == [i \in 1 .. k |-> <<x, i>>]
<1>1. f \in Surjection(1 .. k, T) /\ f \in Injection(1 .. k, T)
  BY DEF Surjection, Injection, IsInjective
<1>2. IsFiniteSet(1 .. k) /\ Cardinality(1 .. k) = k
  <2>1. 1 \in Int /\ k \in Int
    OBVIOUS
  <2>2. IsFiniteSet(1 .. k) /\ Cardinality(1 .. k) = IF 1 > k THEN 0 ELSE k - 1 + 1
    BY <2>1, FS_Interval
  <2>. QED
    BY <2>2
<1>. HIDE DEF T, f
<1>3. Cardinality(T) = k
  BY <1>1, <1>2, FS_Surjection
<1>. QED
  BY <1>3 DEF T

LEMMA RowIsInterval ==
  ASSUME NEW l, IsLattice(l), NEW b \in 2 .. l.n + 2
  PROVE  \E k \in Nat : RowOf(l, b) = {<<b, i>> : i \in 1 .. k}
<1>1. l.n \in Nat /\ Bos0[1] = 0 /\ Bos1[1] = 1 /\ EosOf(l) = <<l.n + 2, 1>> /\ b \in Int
  BY DEF IsLattice, Bos0, Bos1, EosOf
<1>2. CASE b = l.n + 2
  <2>1. \A v \in WordsOf(l) : v[1] # b
    BY <1>1, <1>2 DEF WordsOf, IsLattice
  <2>2. RowOf(l, b) = {<<b, 1>>}
    BY <1>1, <1>2, <2>1 DEF RowOf, NodesOf
  <2>3. {<<b, 1>>} = {<<b, i>> : i \in 1 .. 1}
    OBVIOUS
  <2>. QED
    BY <2>2, <2>3
<1>3. CASE b # l.n + 2
  <2>1. b \in DOMAIN l.nodes /\ l.nodes[b] \in Seq(b + 1 .. l.n + 2)
    BY <1>1, <1>3 DEF IsLattice
  <2>2. PICK k \in Nat : DOMAIN l.nodes[b] = 1 .. k
    BY <2>1
  <2>3. \A v \in NodesOf(l) : v[1] = b => v \in WordsOf(l)
    BY <1>1, <1>3 DEF NodesOf
  <2>4. \A v \in WordsOf(l) : v[1] = b <=> v \in {<<b, i>> : i \in DOMAIN l.nodes[b]}
    <3>1. ASSUME NEW v \in WordsOf(l), v[1] = b PROVE v \in {<<b, i>> : i \in DOMAIN l.nodes[b]}
      <4>1. PICK c \in DOMAIN l.nodes : v \in {<<c, i>> : i \in DOMAIN l.nodes[c]}
        BY DEF WordsOf
      <4>. QED
        BY <3>1, <4>1
    <3>2. \A v \in {<<b, i>> : i \in DOMAIN l.nodes[b]} : v[1] = b
      OBVIOUS
    <3>. QED
      BY <3>1, <3>2
  <2>5. {<<b, i>> : i \in DOMAIN l.nodes[b]} \subseteq WordsOf(l) /\ WordsOf(l) \subseteq NodesOf(l)
    BY <2>1 DEF WordsOf, NodesOf
  <2>6. RowOf(l, b) = {<<b, i>> : i \in DOMAIN l.nodes[b]}
    BY <2>3, <2>4, <2>5 DEF RowOf
  <2>. QED
    BY <2>2, <2>6
<1>. QED
  BY <1>2, <1>3

\* Row lists the nodes that start at a boundary.
LEMMA RowLists ==
  ASSUME NEW b, IsLattice(lat)
  PROVE  /\ ToSet(Row(b)) \subseteq {<<b, i>> : i \in Nat}
         /\ Len(Row(b)) \in Nat /\ DOMAIN Row(b) = 1 .. Len(Row(b))
         /\ b \in 2 .. lat.n + 2 => ToSet(Row(b)) = RowOf(lat, b)
<1>1. IsFiniteSet(RowOf(lat, b)) /\ Cardinality(RowOf(lat, b)) \in Nat
  <2>1. RowOf(lat, b) \in SUBSET NodesOf(lat)
    BY DEF RowOf
  <2>2. IsFiniteSet(RowOf(lat, b))
    BY <2>1, NodesFinite, FS_Subset
  <2>. QED
    BY <2>2, FS_CardinalityType
<1>. DEFINE m == Cardinality(RowOf(lat, b))
<1>2. Row(b) = [i \in 1 .. m |-> <<b, i>>]
  BY DEF Row
<1>. HIDE DEF m
<1>3. DOMAIN Row(b) = 1 .. m /\ Row(b) = [i \in 1 .. m |-> Row(b)[i]]
  BY <1>2
<1>4. Len(Row(b)) = m
  BY <1>1, <1>3, FunctionLength DEF m
<1>5. ToSet(Row(b)) = {<<b, i>> : i \in 1 .. m}
  BY <1>2 DEF ToSet
<1>6. ASSUME b \in 2 .. lat.n + 2 PROVE ToSet(Row(b)) = RowOf(lat, b)
  <2>1. PICK k \in Nat : RowOf(lat, b) = {<<b, i>> : i \in 1 .. k}
    BY <1>6, RowIsInterval
  <2>2. m = k
    BY <2>1, PairsCount DEF m
  <2>. QED
    BY <1>5, <2>1, <2>2
<1>. QED
  BY <1>1, <1>3, <1>4, <1>5, <1>6 DEF m

\* Ends lists the nodes that end at a boundary, each once.
EndingAt(b) == {v \in NodesOf(lat) : EndIn(lat, v) = b}
SoonerIn(S) == {p \in S \X S : p[1][1] < p[2][1] \/ (p[1][1] = p[2][1] /\ p[1][2] < p[2][2])}

LEMMA EndsLists ==
  ASSUME NEW b, IsLattice(lat)
  PROVE  /\ Len(Ends(b)) \in Nat /\ DOMAIN Ends(b) = 1 .. Len(Ends(b))
         /\ ToSet(Ends(b)) = EndingAt(b)
         /\ \A i, j \in DOMAIN Ends(b) : Ends(b)[i] = Ends(b)[j] => i = j
<1>. DEFINE S == EndingAt(b)
            R == SoonerIn(S)
            m == Cardinality(S)
            q == Ends(b)
<1>1. IsFiniteSet(S) /\ m \in Nat
  <2>1. S \in SUBSET NodesOf(lat)
    BY DEF EndingAt
  <2>2. IsFiniteSet(S)
    BY <2>1, NodesFinite, FS_Subset
  <2>. QED
    BY <2>2, FS_CardinalityType
<1>2. Orders(R, S)
  <2>1. \A v \in S : v = <<v[1], v[2]>> /\ v[1] \in Int /\ v[2] \in Int
    <3>1. ASSUME NEW v \in S PROVE v = <<v[1], v[2]>> /\ v[1] \in Int /\ v[2] \in Int
      <4>1. v \in NodesOf(lat) /\ lat.n \in Nat
        BY DEF EndingAt, IsLattice
      <4>. QED
        BY <4>1, NodeShape
    <3>. QED
      BY <3>1
  <2>2. \A u, v \in S : <<u, v>> \in R <=> u[1] < v[1] \/ (u[1] = v[1] /\ u[2] < v[2])
    BY DEF SoonerIn
  <2>. HIDE DEF S, R
  <2>3. \A u, v \in S : u # v => u[1] # v[1] \/ u[2] # v[2]
    BY <2>1
  <2>. QED
    BY <2>1, <2>2, <2>3 DEF Orders
<1>3. \A v \in S : Below(R, S, v) = {u \in S : u[1] < v[1] \/ (u[1] = v[1] /\ u[2] < v[2])}
  BY DEF Below, SoonerIn
<1>4. q = [i \in 1 .. m |-> CHOOSE v \in S :
             Cardinality({u \in S : u[1] < v[1] \/ (u[1] = v[1] /\ u[2] < v[2])}) = i - 1]
  BY DEF Ends, EndingAt
<1>5. DOMAIN q = 1 .. m /\ q = [i \in 1 .. m |-> q[i]]
  BY <1>4
<1>6. \A k \in 1 .. m : q[k] = CHOOSE v \in S : Cardinality(Below(R, S, v)) = k - 1
  <2>1. ASSUME NEW k \in 1 .. m
        PROVE  q[k] = CHOOSE v \in S : Cardinality(Below(R, S, v)) = k - 1
    <3>1. q[k] = CHOOSE v \in S :
                   Cardinality({u \in S : u[1] < v[1] \/ (u[1] = v[1] /\ u[2] < v[2])}) = k - 1
      BY <1>4
    <3>2. \A v \in S :
            Cardinality({u \in S : u[1] < v[1] \/ (u[1] = v[1] /\ u[2] < v[2])}) = k - 1
            <=> Cardinality(Below(R, S, v)) = k - 1
      BY <1>3
    <3>. HIDE DEF R, q, m, S
    <3>. QED
      BY <3>1, <3>2
  <2>. QED
    BY <2>1
<1>. HIDE DEF R, q, S
<1>7. /\ \A k \in 1 .. m : q[k] \in S /\ Height(R, S, q[k]) = k
      /\ \A v \in S : Height(R, S, v) \in 1 .. m /\ q[Height(R, S, v)] = v
  BY <1>1, <1>2, <1>5, <1>6, Numbering
<1>8. ToSet(q) = S
  BY <1>5, <1>7 DEF ToSet
<1>9. Len(q) = m
  BY <1>1, <1>5, FunctionLength
<1>. QED
  BY <1>1, <1>5, <1>7, <1>8, <1>9 DEF q, S

-----------------------------------------------------------------------------
(* The invariant *)

\* Where the search stands.
Standing ==
  /\ bnd \in Int
  /\ phase \in {"t0", "t1", "t2", "gbeam", "prescores", "node", "done"}
  /\ phase # "done" => bnd \in 2 .. lat.n + 2
  /\ phase \in {"t1", "t2"} => cfg.gbeam = 0 /\ buf.cur = Len(Row(bnd)) /\ left \in Nat \ {0}
  /\ phase \in {"gbeam", "prescores", "node"} => cfg.gbeam > 0 /\ Row(bnd) # <<>>
  /\ phase = "t2" => left \in DOMAIN Ends(bnd) /\ elem \in Nat \ {0}
  /\ DOMAIN buf = {"val", "cur", "t1", "t2a", "t2b"}

\* With the full beam, all nodes before the boundary have theirs.
Beamed ==
  cfg.gbeam = 0 =>
    /\ \A v \in DOMAIN beams : \E m \in Nat : DOMAIN beams[v] = 1 .. m
    /\ phase # "done" => \A v \in NodesOf(lat) : v[1] < bnd => v \in DOMAIN beams

\* The elements the nodes of the boundary have been scored with.
ScoredWhole == UNION {{<<Ends(bnd)[i], k>> : k \in DOMAIN beams[Ends(bnd)[i]]} : i \in 1 .. left - 1}
ScoredPart == {<<Ends(bnd)[left], k>> : k \in 1 .. elem - 1}
ScoredSoFar ==
  /\ phase = "t1" => DOMAIN scores = ToSet(Row(bnd)) \X ScoredWhole /\ left <= Len(Ends(bnd)) + 1
  /\ phase = "t2" => /\ DOMAIN scores = ToSet(Row(bnd)) \X (ScoredWhole \cup ScoredPart)
                     /\ \A m \in Nat : DOMAIN beams[Ends(bnd)[left]] = 1 .. m => elem <= m + 1

NgInv == Config /\ Standing /\ Beamed /\ ScoredSoFar /\ DefaultInside

\* Once all nodes that end at the boundary have been passed, every pair is scored.
LEMMA ScoredAll == NgInv => AllScored
<1>. SUFFICES ASSUME NgInv, phase = "t1", left > Len(Ends(bnd))
              PROVE  DOMAIN scores = ToSet(Row(bnd)) \X Candidates(bnd)
  BY DEF AllScored
<1>1. IsLattice(lat)
  BY LatticesAssumption DEF NgInv, Config
<1>2. Len(Ends(bnd)) \in Nat /\ DOMAIN Ends(bnd) = 1 .. Len(Ends(bnd))
  BY <1>1, EndsLists
<1>3. left - 1 = Len(Ends(bnd))
  BY <1>2 DEF NgInv, ScoredSoFar, Standing
<1>4. ScoredWhole = Candidates(bnd)
  BY <1>2, <1>3 DEF ScoredWhole, Candidates, ToSet
<1>. QED
  BY <1>4 DEF NgInv, ScoredSoFar

\* A merge has the keys of both.
LEMMA MergedKeys ==
  ASSUME NEW f, NEW g
  PROVE  /\ DOMAIN Merge(f, g) = DOMAIN f \cup DOMAIN g
         /\ \A x \in DOMAIN f : Merge(f, g)[x] = f[x]
         /\ \A x \in DOMAIN g : x \notin DOMAIN f => Merge(f, g)[x] = g[x]
BY DEF Merge

LEMMA WatchAdds ==
  ASSUME NEW reads PROVE "outside" \in Watch(reads) <=> "outside" \in trouble
BY DEF Watch

\* What stays while the settings do.
LEMMA SameSettings ==
  ASSUME UNCHANGED cfg
  PROVE  /\ lat' = lat /\ compiled' = compiled /\ (Static <=> Static')
         /\ \A b : Row(b)' = Row(b) /\ Ends(b)' = Ends(b)
         /\ Config => Config'
<1>1. lat' = lat /\ compiled' = compiled /\ (Static <=> Static')
  BY DEF lat, compiled, Static
<1>2. \A b : Row(b)' = Row(b) /\ Ends(b)' = Ends(b)
  BY <1>1 DEF Row, Ends
<1>. QED
  BY <1>1, <1>2 DEF Config

\* The rows and ends of the boundary stay with it.
LEMMA RowsStay ==
  ASSUME UNCHANGED <<cfg, bnd>>
  PROVE  Row(bnd)' = Row(bnd) /\ Ends(bnd)' = Ends(bnd)
<1>1. Row(bnd)' = Row(bnd)
  BY DEF Row, lat
<1>2. Ends(bnd)' = Ends(bnd)
  <2>1. lat' = lat /\ bnd' = bnd
    BY DEF lat
  <2>. QED
    BY <2>1, SMT DEF Ends
<1>. QED
  BY <1>1, <1>2

LEMMA InitNg == Init => NgInv
<1>. SUFFICES ASSUME Init PROVE NgInv
  OBVIOUS
<1>1. PICK l \in Lattices, i \in DOMAIN Specs, impl \in Impls, gbeam \in GlobalBeams,
           check \in RightChecks, storeAll \in BOOLEAN :
        cfg = [lat |-> l, spec |-> i, impl |-> impl, gbeam |-> gbeam, check |-> check,
               storeAll |-> storeAll, model |-> Compile(Specs[i]),
               rows |-> Rows(l, Compile(Specs[i]), impl), means |-> Meanings(l, Specs[i])]
  BY DEF Init
<1>2. Config
  <2>1. Specs[i] \in ToSet(Specs)
    BY DEF ToSet
  <2>2. lat = l /\ compiled = Compile(Specs[i]) /\ cfg.gbeam = gbeam /\ cfg.check = check
    BY <1>1 DEF lat, compiled
  <2>3. gbeam \in Nat /\ check \in Nat
    BY SizesAssumption
  <2>. QED
    BY <2>1, <2>2, <2>3 DEF Config
<1>3. IsLattice(lat) /\ lat.n \in Nat
  BY <1>2, LatticesAssumption DEF Config, IsLattice
<1>4. /\ phase = IF lat.n = 0 THEN "done" ELSE "t0"
      /\ bnd = 2 /\ buf = NewFeatureBuffer(lat, compiled)
      /\ trouble = {}
      /\ beams = [v \in {Bos0, Bos1} |-> IF v = Bos0 THEN <<<<<<0, 0>>, 0>>>> ELSE <<<<Bos0, 1>>>>]
  BY DEF Init, lat
<1>5. Standing
  <2>1. DOMAIN buf = {"val", "cur", "t1", "t2a", "t2b"}
    BY <1>4 DEF NewFeatureBuffer, BufferOf
  <2>. QED
    BY <1>3, <1>4, <2>1 DEF Standing
<1>6. Beamed
  <2>1. DOMAIN beams = {Bos0, Bos1}
    BY <1>4
  <2>2. beams[Bos0] = <<<<<<0, 0>>, 0>>>> /\ beams[Bos1] = <<<<Bos0, 1>>>>
    BY <1>4 DEF Bos0, Bos1
  <2>3. DOMAIN beams[Bos0] = 1 .. 1 /\ DOMAIN beams[Bos1] = 1 .. 1
    BY <2>2
  <2>4. \A v \in DOMAIN beams : \E m \in Nat : DOMAIN beams[v] = 1 .. m
    BY <2>1, <2>3
  <2>5. ASSUME NEW v \in NodesOf(lat), v[1] < bnd PROVE v \in DOMAIN beams
    <3>1. v[1] \in Int /\ v[1] >= 0
      BY <1>3, NodeShape
    <3>2. v[1] = 0 \/ v[1] = 1
      BY <1>4, <2>5, <3>1
    <3>3. v = Bos0 \/ v = Bos1
      BY <1>3, <3>2, NodeByStart
    <3>. QED
      BY <2>1, <3>3
  <2>. QED
    BY <2>4, <2>5 DEF Beamed
<1>7. ScoredSoFar /\ DefaultInside
  BY <1>4 DEF ScoredSoFar, DefaultInside
<1>. QED
  BY <1>2, <1>5, <1>6, <1>7 DEF NgInv

\* Going on to the next boundary, when the nodes of this one have their beams.
LEMMA NextBoundaryKeeps ==
  ASSUME NgInv, phase # "done", NextBoundary, UNCHANGED <<cfg, buf, trouble>>,
         cfg.gbeam = 0 => /\ \A v \in DOMAIN beams' : \E m \in Nat : DOMAIN beams'[v] = 1 .. m
                          /\ \A v \in DOMAIN beams : v \in DOMAIN beams'
                          /\ \A v \in RowOf(lat, bnd) : v \in DOMAIN beams'
  PROVE  NgInv'
<1>1. IsLattice(lat) /\ lat.n \in Nat /\ bnd \in 2 .. lat.n + 2 /\ bnd' = bnd + 1
  BY LatticesAssumption DEF NgInv, Config, Standing, NextBoundary, IsLattice
<1>2. Config' /\ lat' = lat /\ cfg' = cfg /\ buf' = buf
  BY SameSettings DEF NgInv
<1>3. phase' = IF bnd = lat.n + 2 THEN "done" ELSE "t0"
  BY DEF NextBoundary
<1>4. Standing'
  BY <1>1, <1>2, <1>3 DEF NgInv, Standing
<1>5. Beamed'
  <2>. SUFFICES ASSUME cfg.gbeam = 0
                PROVE  /\ \A v \in DOMAIN beams' : \E m \in Nat : DOMAIN beams'[v] = 1 .. m
                       /\ \A v \in NodesOf(lat) : v[1] < bnd' => v \in DOMAIN beams'
    BY <1>2 DEF Beamed
  <2>1. ASSUME NEW v \in NodesOf(lat), v[1] < bnd' PROVE v \in DOMAIN beams'
    <3>1. v[1] \in Int
      BY <1>1, NodeShape
    <3>2. v[1] < bnd \/ v \in RowOf(lat, bnd)
      BY <1>1, <2>1, <3>1 DEF RowOf
    <3>. QED
      BY <3>2 DEF NgInv, Beamed
  <2>. QED
    BY <2>1
<1>6. ScoredSoFar' /\ DefaultInside'
  BY <1>2, <1>3, SameSettings DEF NgInv, ScoredSoFar, DefaultInside
<1>. QED
  BY <1>2, <1>4, <1>5, <1>6 DEF NgInv

\* The rows of a boundary where no node starts are none.
LEMMA NoRow ==
  ASSUME IsLattice(lat), Len(Row(bnd)) = 0
  PROVE  ToSet(Row(bnd)) = {} /\ Row(bnd) = <<>>
<1>1. DOMAIN Row(bnd) = {}
  <2>1. DOMAIN Row(bnd) = 1 .. 0
    BY RowLists
  <2>. QED
    BY <2>1
<1>2. Row(bnd) = [i \in DOMAIN Row(bnd) |-> Row(bnd)[i]]
  BY DEF Row
<1>. QED
  BY <1>1, <1>2 DEF ToSet

LEMMA SkipKeepsNg == ASSUME NgInv, SkipBoundary PROVE NgInv'
<1>1. /\ phase # "done" /\ cfg.gbeam > 0 /\ cfg.gbeam \in Nat
      /\ NextBoundary /\ UNCHANGED <<cfg, buf, trouble, beams>>
  BY DEF SkipBoundary, NgInv, Config
<1>. QED
  BY <1>1, NextBoundaryKeeps

\* A sequence made for every node of the row is as long as the row.
LEMMA RowsLength ==
  ASSUME NEW q, IsLattice(lat), DOMAIN q = DOMAIN Row(bnd), q = [i \in DOMAIN q |-> q[i]]
  PROVE  Len(q) = Len(Row(bnd))
<1>. DEFINE k == Len(Row(bnd))
<1>1. k \in Nat /\ DOMAIN q = 1 .. k
  BY RowLists
<1>. HIDE DEF k
<1>2. Len(q) = k
  BY <1>1, FunctionLength
<1>. QED
  BY <1>2 DEF k

\* Nodes that end at a boundary start before it.
LEMMA EndsBefore ==
  ASSUME NEW b, IsLattice(lat), NEW v \in ToSet(Ends(b))
  PROVE  v \in NodesOf(lat) /\ v[1] < b
<1>1. v \in NodesOf(lat) /\ EndIn(lat, v) = b
  BY EndsLists DEF EndingAt
<1>. QED
  BY <1>1, NodeShape

LEMMA CandidatesFinite ==
  ASSUME NgInv, phase # "done", cfg.gbeam = 0
  PROVE  IsFiniteSet(Candidates(bnd))
<1>1. IsLattice(lat)
  BY LatticesAssumption DEF NgInv, Config
<1>. DEFINE E == ToSet(Ends(bnd))
            of(v) == {<<v, k>> : k \in DOMAIN beams[v]}
            sets == {of(v) : v \in E}
<1>2. IsFiniteSet(E)
  <2>1. E \in SUBSET NodesOf(lat)
    BY <1>1, EndsBefore
  <2>. QED
    BY <1>1, <2>1, NodesFinite, FS_Subset
<1>3. ASSUME NEW v \in E PROVE IsFiniteSet(of(v))
  <2>1. v \in DOMAIN beams
    BY <1>1, EndsBefore DEF NgInv, Beamed
  <2>2. PICK m \in Nat : DOMAIN beams[v] = 1 .. m
    BY <2>1 DEF NgInv, Beamed
  <2>3. IsFiniteSet(DOMAIN beams[v])
    BY <2>2, IntervalFinite
  <2>. QED
    BY <2>3, PairsFinite
<1>4. IsFiniteSet(sets)
  <2>. DEFINE f == [v \in E |-> of(v)]
  <2>1. f \in Surjection(E, sets)
    <3>. HIDE DEF of, E
    <3>. QED
      BY DEF Surjection
  <2>. HIDE DEF f, sets, E
  <2>. QED
    BY <1>2, <2>1, FS_Surjection
<1>5. \A T \in sets : IsFiniteSet(T)
  <2>. HIDE DEF of, E
  <2>. QED
    BY <1>3
<1>6. IsFiniteSet(UNION sets)
  <2>. HIDE DEF sets
  <2>. QED
    BY <1>4, <1>5, FS_UNION
<1>. QED
  BY <1>6, Zenon DEF Candidates

LEMMA MakeBeamsKeepsNg == ASSUME NgInv, MakeBeams PROVE NgInv'
<1>1. phase = "t1" /\ NextBoundary /\ UNCHANGED <<cfg, buf, trouble>> /\ cfg.gbeam = 0
  BY DEF MakeBeams, NgInv, Standing
<1>2. IsLattice(lat) /\ bnd \in 2 .. lat.n + 2
  BY <1>1, LatticesAssumption DEF NgInv, Config, Standing
<1>3. PICK f \in [ToSet(Row(bnd)) -> Selections(Candidates(bnd), BeamSize)] : beams' = Merge(f, beams)
  BY DEF MakeBeams
<1>. DEFINE m == Atmost(BeamSize, Cardinality(Candidates(bnd)))
<1>4. m \in Nat
  <2>1. Cardinality(Candidates(bnd)) \in Nat
    BY <1>1, CandidatesFinite, FS_CardinalityType DEF NgInv
  <2>. QED
    BY <2>1, SizesAssumption DEF Atmost
<1>5. \A v \in ToSet(Row(bnd)) : DOMAIN f[v] = 1 .. m
  <2>1. \A s \in Selections(Candidates(bnd), BeamSize) : DOMAIN s = 1 .. m
    BY DEF Selections
  <2>. QED
    BY <2>1
<1>6. DOMAIN f = ToSet(Row(bnd)) /\ DOMAIN beams' = DOMAIN f \cup DOMAIN beams
  <2>1. DOMAIN f = ToSet(Row(bnd))
    OBVIOUS
  <2>2. DOMAIN Merge(f, beams) = DOMAIN f \cup DOMAIN beams
    BY MergedKeys
  <2>. QED
    BY <1>3, <2>1, <2>2
<1>7. ASSUME NEW v \in DOMAIN beams' PROVE \E k \in Nat : DOMAIN beams'[v] = 1 .. k
  <2>1. CASE v \in ToSet(Row(bnd))
    <3>1. beams'[v] = f[v]
      <4>1. \A x \in DOMAIN f : Merge(f, beams)[x] = f[x]
        BY MergedKeys
      <4>. QED
        BY <1>3, <1>6, <2>1, <4>1, Zenon
    <3>. HIDE DEF m
    <3>. QED
      BY <1>4, <1>5, <2>1, <3>1
  <2>2. CASE v \notin ToSet(Row(bnd))
    <3>1. v \in DOMAIN beams /\ v \notin DOMAIN f
      BY <1>6, <2>2
    <3>2. beams'[v] = beams[v]
      <4>1. \A x \in DOMAIN beams : x \notin DOMAIN f => Merge(f, beams)[x] = beams[x]
        BY MergedKeys
      <4>. QED
        BY <1>3, <3>1, <4>1, Zenon
    <3>. QED
      BY <1>1, <3>1, <3>2 DEF NgInv, Beamed
  <2>. QED
    BY <2>1, <2>2
<1>8. ToSet(Row(bnd)) = RowOf(lat, bnd)
  BY <1>2, RowLists
<1>. QED
  BY <1>1, <1>6, <1>7, <1>8, NextBoundaryKeeps

LEMMA StartKeepsNg == ASSUME NgInv, ApplyT0 \/ ComputeT0All PROVE NgInv'
<1>1. IsLattice(lat) /\ phase = "t0" /\ (cfg.gbeam > 0 => Row(bnd) # <<>>) /\ UNCHANGED <<cfg, bnd, beams>>
  BY LatticesAssumption DEF ApplyT0, ComputeT0All, StartBoundary, NgInv, Config
<1>2. /\ phase' = IF cfg.gbeam > 0 THEN "gbeam" ELSE "t1"
      /\ scores' = <<>> /\ left' = 1
  BY DEF ApplyT0, ComputeT0All, StartBoundary
<1>3. Config' /\ lat' = lat /\ Row(bnd)' = Row(bnd) /\ Ends(bnd)' = Ends(bnd) /\ cfg.gbeam \in Nat
  <2>1. Row(bnd)' = Row(bnd) /\ Ends(bnd)' = Ends(bnd)
    BY <1>1, RowsStay
  <2>. QED
    BY <1>1, <2>1, SameSettings DEF NgInv, Config
<1>4. DOMAIN buf' = DOMAIN buf /\ buf'.cur = Len(Row(bnd))
  <2>1. \A rows, val : /\ DOMAIN Prepared(rows, val) = DOMAIN buf
                       /\ Prepared(rows, val).cur = Len(rows)
    BY DEF Prepared, NgInv, Standing
  <2>3. CASE ApplyT0
    <3>1. \E val : buf' = Prepared([i \in DOMAIN Row(bnd) |-> patterns[Row(bnd)[i]]], val)
      BY <2>3 DEF ApplyT0
    <3>2. Len([i \in DOMAIN Row(bnd) |-> patterns[Row(bnd)[i]]]) = Len(Row(bnd))
      <4>. DEFINE q == [i \in DOMAIN Row(bnd) |-> patterns[Row(bnd)[i]]]
      <4>1. DOMAIN q = DOMAIN Row(bnd) /\ q = [i \in DOMAIN q |-> q[i]]
        OBVIOUS
      <4>. HIDE DEF q
      <4>2. Len(q) = Len(Row(bnd))
        BY <1>1, <4>1, RowsLength
      <4>. QED
        BY <4>2 DEF q
    <3>. QED
      BY <2>1, <3>1, <3>2
  <2>4. CASE ComputeT0All /\ Row(bnd) = <<>>
    <3>1. buf' = [buf EXCEPT !.cur = 0]
      BY <2>4 DEF ComputeT0All
    <3>. QED
      BY <2>4, <3>1 DEF NgInv, Standing
  <2>5. CASE ComputeT0All /\ Row(bnd) # <<>>
    <3>1. \E val : buf' = Prepared([i \in DOMAIN Row(bnd) |-> PatternRow(Row(bnd)[i])], val)
      BY <2>5 DEF ComputeT0All
    <3>2. Len([i \in DOMAIN Row(bnd) |-> PatternRow(Row(bnd)[i])]) = Len(Row(bnd))
      <4>. DEFINE q == [i \in DOMAIN Row(bnd) |-> PatternRow(Row(bnd)[i])]
      <4>1. DOMAIN q = DOMAIN Row(bnd) /\ q = [i \in DOMAIN q |-> q[i]]
        OBVIOUS
      <4>. HIDE DEF q
      <4>2. Len(q) = Len(Row(bnd))
        BY <1>1, <4>1, RowsLength
      <4>. QED
        BY <4>2 DEF q
    <3>. QED
      BY <2>1, <3>1, <3>2
  <2>. QED
    BY <2>3, <2>4, <2>5
<1>5. Standing'
  BY <1>1, <1>2, <1>3, <1>4 DEF NgInv, Standing
<1>6. Beamed'
  BY <1>1, <1>2, <1>3 DEF NgInv, Beamed
<1>7. ScoredSoFar'
  <2>1. left' - 1 = 0
    BY <1>2
  <2>2. ScoredWhole' = {}
    BY <2>1 DEF ScoredWhole
  <2>3. DOMAIN scores' = {}
    BY <1>2
  <2>4. Len(Ends(bnd)) \in Nat
    BY <1>1, EndsLists
  <2>. QED
    BY <1>2, <1>3, <2>2, <2>3, <2>4 DEF ScoredSoFar
<1>8. DefaultInside'
  <2>. SUFFICES ASSUME ~Static \/ (cfg.gbeam > 0 /\ cfg.check > 0)
                PROVE  "outside" \notin trouble'
    BY <1>1, SameSettings DEF DefaultInside
  <2>1. "outside" \notin trouble /\ ~BehindRow
    BY NothingBehindRow DEF NgInv, DefaultInside
  <2>2. CASE ApplyT0
    <3>1. trouble' = trouble \/ \E reads : trouble' = Watch(reads)
      BY <2>2 DEF ApplyT0
    <3>. QED
      BY <2>1, <3>1, WatchAdds
  <2>3. CASE ComputeT0All
    <3>1. Row(bnd) # <<>>
      BY <1>1, <2>3 DEF ComputeT0All
    <3>2. \E reads : trouble' = Watch(reads) \cup (IF BehindRow THEN {"outside"} ELSE {})
      BY <2>3, <3>1 DEF ComputeT0All
    <3>. QED
      BY <2>1, <3>2, WatchAdds
  <2>. QED
    BY <2>2, <2>3
<1>. QED
  BY <1>3, <1>5, <1>6, <1>7, <1>8 DEF NgInv

\* A step that writes nothing outside keeps what there was.
LEMMA InsideStays ==
  ASSUME NgInv, UNCHANGED cfg, "outside" \in trouble' => "outside" \in trouble
  PROVE  DefaultInside'
BY SameSettings DEF NgInv, DefaultInside

LEMMA ApplyT1KeepsNg == ASSUME NgInv, ApplyT1 PROVE NgInv'
<1>1. /\ phase = "t1" /\ phase' = "t2" /\ left \in DOMAIN Ends(bnd) /\ elem' = 1
      /\ UNCHANGED <<cfg, bnd, scores, beams, left>>
  BY DEF ApplyT1
<1>2. Config' /\ lat' = lat /\ Row(bnd)' = Row(bnd) /\ Ends(bnd)' = Ends(bnd)
  BY <1>1, SameSettings, RowsStay DEF NgInv
<1>3. DOMAIN buf' = DOMAIN buf /\ buf'.cur = buf.cur
  <2>1. CASE buf.cur = 0
    BY <2>1 DEF ApplyT1
  <2>2. CASE buf.cur # 0
    <3>1. \A row, val : /\ DOMAIN [AfterTriStep2(row) EXCEPT !.val = val] = DOMAIN buf
                        /\ [AfterTriStep2(row) EXCEPT !.val = val].cur = buf.cur
      BY DEF AfterTriStep2, NgInv, Standing
    <3>2. \E row, val : buf' = [AfterTriStep2(row) EXCEPT !.val = val]
      BY <2>2 DEF ApplyT1
    <3>. QED
      BY <3>1, <3>2
  <2>. QED
    BY <2>1, <2>2
<1>4. Standing'
  BY <1>1, <1>2, <1>3 DEF NgInv, Standing
<1>5. Beamed'
  BY <1>1, <1>2 DEF NgInv, Beamed
<1>6. ScoredSoFar'
  <2>1. ScoredWhole' = ScoredWhole
    BY <1>1, <1>2 DEF ScoredWhole
  <2>2. ScoredPart' = {}
    <3>1. elem' - 1 = 0
      BY <1>1
    <3>. QED
      BY <3>1 DEF ScoredPart
  <2>. QED
    BY <1>1, <1>2, <2>1, <2>2 DEF NgInv, ScoredSoFar
<1>7. DefaultInside'
  <2>1. trouble' = trouble \/ \E reads : trouble' = Watch(reads)
    BY DEF ApplyT1
  <2>. QED
    BY <1>1, <2>1, WatchAdds, InsideStays
<1>. QED
  BY <1>2, <1>4, <1>5, <1>6, <1>7 DEF NgInv

LEMMA ApplyT2KeepsNg == ASSUME NgInv, ApplyT2 PROVE NgInv'
<1>. DEFINE a == <<Ends(bnd)[left], elem>>
<1>1. /\ phase = "t2" /\ phase' = "t2" /\ elem \in DOMAIN beams[Ends(bnd)[left]] /\ elem' = elem + 1
      /\ UNCHANGED <<cfg, bnd, beams, left>>
  BY DEF ApplyT2
<1>2. Config' /\ lat' = lat /\ Row(bnd)' = Row(bnd) /\ Ends(bnd)' = Ends(bnd)
  BY <1>1, SameSettings, RowsStay DEF NgInv
<1>3. /\ IsLattice(lat) /\ left \in DOMAIN Ends(bnd) /\ elem \in Nat \ {0}
      /\ buf.cur = Len(Row(bnd)) /\ DOMAIN buf = {"val", "cur", "t1", "t2a", "t2b"}
  BY <1>1, LatticesAssumption DEF NgInv, Config, Standing
<1>4. DOMAIN buf' = DOMAIN buf /\ buf'.cur = buf.cur
  <2>1. buf' = buf \/ \E val : buf' = [buf EXCEPT !.val = val]
    BY DEF ApplyT2
  <2>. QED
    BY <1>3, <2>1
<1>5. Standing'
  BY <1>1, <1>2, <1>3, <1>4 DEF NgInv, Standing
<1>6. Beamed'
  BY <1>1, <1>2 DEF NgInv, Beamed
<1>7. ScoredWhole' = ScoredWhole
  BY <1>1, <1>2 DEF ScoredWhole
<1>8. ScoredPart' = ScoredPart \cup {a}
  <2>1. elem' - 1 = elem /\ Ends(bnd)'[left'] = Ends(bnd)[left]
    BY <1>1, <1>2, <1>3
  <2>2. ScoredPart' = {<<Ends(bnd)[left], k>> : k \in 1 .. elem}
    BY <2>1 DEF ScoredPart
  <2>3. 1 .. elem = (1 .. elem - 1) \cup {elem}
    BY <1>3
  <2>. QED
    BY <2>2, <2>3 DEF ScoredPart
<1>9. DOMAIN scores = ToSet(Row(bnd)) \X (ScoredWhole \cup ScoredPart)
  BY <1>1 DEF NgInv, ScoredSoFar
<1>10. DOMAIN scores' = ToSet(Row(bnd)) \X (ScoredWhole \cup ScoredPart \cup {a})
  <2>1. CASE buf.cur = 0
    <3>1. ToSet(Row(bnd)) = {} /\ scores' = scores
      BY <1>3, <2>1, NoRow DEF ApplyT2
    <3>. QED
      BY <1>9, <3>1
  <2>2. CASE buf.cur # 0
    <3>1. PICK t2s : scores' = Merge([k \in {<<v, a>> : v \in ToSet(Row(bnd))} |-> t2s[k[1][2]]], scores)
      BY <2>2 DEF ApplyT2
    <3>. DEFINE new == [k \in {<<v, a>> : v \in ToSet(Row(bnd))} |-> t2s[k[1][2]]]
    <3>2. scores' = Merge(new, scores) /\ DOMAIN new = {<<v, a>> : v \in ToSet(Row(bnd))}
      BY <3>1
    <3>. HIDE DEF new
    <3>3. DOMAIN scores' = {<<v, a>> : v \in ToSet(Row(bnd))} \cup DOMAIN scores
      BY <3>2, MergedKeys
    <3>. HIDE DEF a
    <3>. QED
      BY <1>9, <3>3
  <2>. QED
    BY <2>1, <2>2
<1>11. ScoredSoFar'
  <2>1. ASSUME NEW m \in Nat, DOMAIN beams[Ends(bnd)[left]] = 1 .. m PROVE elem + 1 <= m + 1
    BY <1>1, <2>1
  <2>2. DOMAIN scores' = ToSet(Row(bnd)') \X (ScoredWhole' \cup ScoredPart')
    <3>. HIDE DEF a
    <3>. QED
      BY <1>2, <1>7, <1>8, <1>10
  <2>. QED
    BY <1>1, <1>2, <2>1, <2>2 DEF ScoredSoFar
<1>12. DefaultInside'
  <2>1. trouble' = trouble \/ \E reads : trouble' = Watch(reads)
    BY DEF ApplyT2
  <2>. QED
    BY <1>1, <2>1, WatchAdds, InsideStays
<1>. QED
  BY <1>2, <1>5, <1>6, <1>11, <1>12 DEF NgInv

LEMMA NextLeftKeepsNg == ASSUME NgInv, NextLeft PROVE NgInv'
<1>. DEFINE v == Ends(bnd)[left]
<1>1. /\ phase = "t2" /\ phase' = "t1" /\ elem \notin DOMAIN beams[v] /\ left' = left + 1
      /\ UNCHANGED <<cfg, bnd, beams, buf, scores, elem, trouble>>
  BY DEF NextLeft
<1>2. Config' /\ lat' = lat /\ Row(bnd)' = Row(bnd) /\ Ends(bnd)' = Ends(bnd)
  BY <1>1, SameSettings, RowsStay DEF NgInv
<1>3. /\ IsLattice(lat) /\ left \in DOMAIN Ends(bnd) /\ elem \in Nat \ {0} /\ cfg.gbeam = 0
      /\ left \in Nat \ {0}
  BY <1>1, LatticesAssumption DEF NgInv, Config, Standing
<1>4. Len(Ends(bnd)) \in Nat /\ DOMAIN Ends(bnd) = 1 .. Len(Ends(bnd))
  BY <1>3, EndsLists
<1>5. Standing'
  BY <1>1, <1>2, <1>3 DEF NgInv, Standing
<1>6. Beamed'
  BY <1>1, <1>2 DEF NgInv, Beamed
<1>7. DOMAIN beams[v] = 1 .. elem - 1
  <2>1. v \in ToSet(Ends(bnd))
    BY <1>3 DEF ToSet
  <2>2. v \in NodesOf(lat) /\ v[1] < bnd
    BY <1>3, <2>1, EndsBefore
  <2>3. v \in DOMAIN beams
    BY <1>1, <1>3, <2>2 DEF NgInv, Beamed
  <2>4. PICK m \in Nat : DOMAIN beams[v] = 1 .. m
    BY <1>3, <2>3 DEF NgInv, Beamed
  <2>5. elem <= m + 1
    BY <1>1, <2>4 DEF NgInv, ScoredSoFar
  <2>6. elem = m + 1
    BY <1>1, <1>3, <2>4, <2>5
  <2>. QED
    BY <2>4, <2>6
<1>8. ScoredWhole' = ScoredWhole \cup ScoredPart
  <2>. DEFINE of(i) == {<<Ends(bnd)[i], k>> : k \in DOMAIN beams[Ends(bnd)[i]]}
  <2>1. ScoredWhole' = UNION {of(i) : i \in 1 .. left}
    BY <1>1, <1>2, <1>3 DEF ScoredWhole
  <2>2. ScoredWhole = UNION {of(i) : i \in 1 .. left - 1}
    BY DEF ScoredWhole
  <2>3. ScoredPart = of(left)
    BY <1>7 DEF ScoredPart
  <2>4. 1 .. left = (1 .. left - 1) \cup {left}
    BY <1>3
  <2>. HIDE DEF of
  <2>. QED
    BY <2>1, <2>2, <2>3, <2>4
<1>9. ScoredSoFar'
  <2>1. DOMAIN scores' = ToSet(Row(bnd)') \X ScoredWhole'
    BY <1>1, <1>2, <1>8 DEF NgInv, ScoredSoFar
  <2>2. left' <= Len(Ends(bnd)) + 1
    BY <1>1, <1>3, <1>4
  <2>. QED
    BY <1>1, <1>2, <2>1, <2>2 DEF ScoredSoFar
<1>10. DefaultInside'
  BY <1>1, InsideStays
<1>. QED
  BY <1>2, <1>5, <1>6, <1>9, <1>10 DEF NgInv

\* With a global beam only where the search stands and what it has touched matter.
LEMMA GlobalStepKeepsNg ==
  ASSUME NgInv, phase \in {"gbeam", "prescores", "node"}, phase' \in {"prescores", "node"},
         UNCHANGED <<cfg, bnd>>, DOMAIN buf' = DOMAIN buf, DefaultInside'
  PROVE  NgInv'
<1>1. Config' /\ lat' = lat /\ Row(bnd)' = Row(bnd)
  BY SameSettings, RowsStay DEF NgInv
<1>2. cfg' = cfg /\ cfg.gbeam > 0 /\ cfg.gbeam \in Nat /\ Row(bnd) # <<>>
  BY DEF NgInv, Standing, Config
<1>3. Standing'
  BY <1>1, <1>2 DEF NgInv, Standing
<1>4. Beamed' /\ ScoredSoFar'
  BY <1>2 DEF Beamed, ScoredSoFar
<1>. QED
  BY <1>1, <1>3, <1>4 DEF NgInv

LEMMA PrescoresKeepNg == ASSUME NgInv, ComputeT0Prescores PROVE NgInv'
<1>1. phase = "prescores" /\ UNCHANGED <<phase, cfg, bnd>>
  BY DEF ComputeT0Prescores
<1>2. DOMAIN buf' = DOMAIN buf
  <2>1. \A row, val : DOMAIN [AfterTriStep2(row) EXCEPT !.val = val] = DOMAIN buf
    BY DEF AfterTriStep2
  <2>2. \E row, val : buf' = [AfterTriStep2(row) EXCEPT !.val = val]
    BY DEF ComputeT0Prescores
  <2>. QED
    BY <2>1, <2>2
<1>3. \E reads : trouble' = Watch(reads)
  BY DEF ComputeT0Prescores
<1>4. DefaultInside'
  BY <1>1, <1>3, WatchAdds, InsideStays
<1>. QED
  BY <1>1, <1>2, <1>4, GlobalStepKeepsNg

LEMMA ScoreNodeKeepsNg == ASSUME NgInv, ScoreNode PROVE NgInv'
<1>1. phase = "node" /\ UNCHANGED <<phase, cfg, bnd>>
  BY DEF ScoreNode
<1>2. DOMAIN buf' = DOMAIN buf
  <2>1. buf' = buf \/ \E val : buf' = [buf EXCEPT !.val = val]
    BY DEF ScoreNode
  <2>. QED
    BY <2>1
<1>3. \/ \E reads : trouble' = Watch(reads)
      \/ trouble' = trouble
      \/ Static /\ cfg.check = 0
  BY DEF ScoreNode
<1>4. DefaultInside'
  <2>1. CASE Static /\ cfg.check = 0
    BY <1>1, <2>1, SameSettings DEF DefaultInside
  <2>2. CASE ~(Static /\ cfg.check = 0)
    BY <1>1, <1>3, <2>2, WatchAdds, InsideStays
  <2>. QED
    BY <2>1, <2>2
<1>. QED
  BY <1>1, <1>2, <1>4, GlobalStepKeepsNg

LEMMA KeepsNg == NgInv /\ [Next]_vars => NgInv'
<1>. SUFFICES ASSUME NgInv, [Next]_vars PROVE NgInv'
  OBVIOUS
<1>1. CASE SkipBoundary
  BY <1>1, SkipKeepsNg
<1>2. CASE ApplyT0 \/ ComputeT0All
  BY <1>2, StartKeepsNg
<1>3. CASE ApplyT1
  BY <1>3, ApplyT1KeepsNg
<1>4. CASE ApplyT2
  BY <1>4, ApplyT2KeepsNg
<1>5. CASE NextLeft
  BY <1>5, NextLeftKeepsNg
<1>6. CASE MakeBeams
  BY <1>6, MakeBeamsKeepsNg
<1>7. CASE MakeGlobalBeam
  <2>1. /\ phase = "gbeam" /\ phase' \in {"prescores", "node"}
        /\ UNCHANGED <<cfg, bnd, buf, trouble>>
    BY <1>7 DEF MakeGlobalBeam
  <2>. QED
    BY <2>1, InsideStays, GlobalStepKeepsNg
<1>8. CASE ComputeT0Prescores
  BY <1>8, PrescoresKeepNg
<1>9. CASE MakeT0cutoffBeam
  <2>1. phase = "prescores" /\ phase' = "node" /\ UNCHANGED <<cfg, bnd, buf, trouble>>
    BY <1>9 DEF MakeT0cutoffBeam
  <2>. QED
    BY <2>1, InsideStays, GlobalStepKeepsNg
<1>10. CASE ScoreNode
  BY <1>10, ScoreNodeKeepsNg
<1>11. CASE EndBoundary
  <2>1. phase = "node" /\ NextBoundary /\ UNCHANGED <<cfg, buf, trouble, beams>>
    BY <1>11 DEF EndBoundary
  <2>2. cfg.gbeam > 0 /\ cfg.gbeam \in Nat
    BY <2>1 DEF NgInv, Standing, Config
  <2>. QED
    BY <2>1, <2>2, NextBoundaryKeeps
<1>12. CASE UNCHANGED vars
  <2>1. UNCHANGED <<cfg, bnd, phase, buf, scores, beams, left, elem, trouble>>
    BY <1>12 DEF vars
  <2>2. Config' /\ lat' = lat /\ Row(bnd)' = Row(bnd) /\ Ends(bnd)' = Ends(bnd)
    BY <2>1, SameSettings, RowsStay DEF NgInv
  <2>3. Standing' /\ Beamed'
    BY <2>1, <2>2 DEF NgInv, Standing, Beamed
  <2>4. ScoredWhole' = ScoredWhole /\ ScoredPart' = ScoredPart
    BY <2>1, <2>2 DEF ScoredWhole, ScoredPart
  <2>5. ScoredSoFar'
    BY <2>1, <2>2, <2>4 DEF NgInv, ScoredSoFar
  <2>. QED
    BY <2>1, <2>2, <2>3, <2>5, InsideStays DEF NgInv
<1>. QED
  BY <1>1, <1>2, <1>3, <1>4, <1>5, <1>6, <1>7, <1>8, <1>9, <1>10, <1>11, <1>12 DEF Next

\* Before makeBeams ranks the elements that end at a boundary, every node that
\* starts there has been scored with each of them, in every lattice and with
\* every specification of features.
THEOREM EveryPairScored == Spec => []AllScored
<1>1. NgInv => AllScored
  BY ScoredAll
<1>. QED
  BY <1>1, InitNg, KeepsNg, PTL DEF Spec

\* With interpreted features, and with the global beam and right check the
\* library sets, nothing outside a buffer is touched: the generated code writes
\* no pattern behind the row it has room for, whatever the specification.
THEOREM StaysInside == Spec => []DefaultInside
<1>1. NgInv => DefaultInside
  BY DEF NgInv
<1>. QED
  BY <1>1, InitNg, KeepsNg, PTL DEF Spec

-----------------------------------------------------------------------------
(* Names and patterns by number *)

LEMMA NumberOf ==
  ASSUME NEW q, NEW x \in ToSet(q)
  PROVE  Number(q, x) \in DOMAIN q /\ q[Number(q, x)] = x
<1>1. \E i \in DOMAIN q : q[i] = x
  BY DEF ToSet
<1>. QED
  BY <1>1 DEF Number

\* Distinct drops what is repeated and nothing else.
LEMMA DistinctKeeps ==
  ASSUME NEW C, NEW seq \in Seq(C)
  PROVE  Distinct(seq) \in Seq(C) /\ ToSet(Distinct(seq)) = ToSet(seq)
<1>. DEFINE F == {i \in DOMAIN seq : \A j \in 1 .. i - 1 : seq[j] # seq[i]}
            q == InOrder(F)
            d == Distinct(seq)
<1>1. DOMAIN seq = 1 .. Len(seq) /\ Len(seq) \in Nat /\ \A i \in DOMAIN seq : seq[i] \in C
  OBVIOUS
<1>2. F \subseteq Int /\ IsFiniteSet(F) /\ F \subseteq DOMAIN seq
  <2>1. IsFiniteSet(DOMAIN seq) /\ F \in SUBSET (DOMAIN seq)
    BY <1>1, IntervalFinite
  <2>. QED
    BY <1>1, <2>1, FS_Subset
<1>3. /\ Cardinality(F) \in Nat /\ DOMAIN q = 1 .. Cardinality(F)
      /\ \A k \in DOMAIN q : q[k] \in F
      /\ \A x \in F : \E k \in DOMAIN q : q[k] = x
  <2>. HIDE DEF F
  <2>. QED
    BY <1>2, InOrderNumbers
<1>4. d = [k \in DOMAIN q |-> seq[q[k]]]
  BY DEF Distinct
<1>. HIDE DEF q, d
<1>5. d \in Seq(C)
  <2>1. \A k \in DOMAIN q : seq[q[k]] \in C
    BY <1>1, <1>2, <1>3
  <2>. HIDE DEF F
  <2>. QED
    BY <1>3, <1>4, <2>1
<1>6. ASSUME NEW i \in DOMAIN seq PROVE \E j \in F : seq[j] = seq[i]
  <2>. DEFINE T == {j \in DOMAIN seq : seq[j] = seq[i]}
  <2>1. T \subseteq Nat /\ T # {}
    BY <1>1
  <2>2. PICK m \in T : \A k \in T : m <= k
    <3>. HIDE DEF T
    <3>. QED
      BY <2>1, LeastNumber
  <2>3. \A j \in 1 .. m - 1 : j \notin T
    BY <1>1, <2>2
  <2>4. \A j \in 1 .. m - 1 : j \in DOMAIN seq
    BY <1>1, <2>2
  <2>. QED
    BY <2>2, <2>3, <2>4
<1>7. ToSet(d) = ToSet(seq)
  <2>1. ASSUME NEW k \in DOMAIN d PROVE \E i \in DOMAIN seq : seq[i] = d[k]
    BY <1>2, <1>3, <1>4
  <2>2. ASSUME NEW i \in DOMAIN seq PROVE \E k \in DOMAIN d : d[k] = seq[i]
    <3>1. PICK j \in F : seq[j] = seq[i]
      BY <1>6
    <3>2. PICK k \in DOMAIN q : q[k] = j
      BY <1>3, <3>1
    <3>. QED
      BY <1>4, <3>1, <3>2
  <2>. QED
    BY <2>1, <2>2 DEF ToSet
<1>. QED
  BY <1>5, <1>7 DEF d

\* The names of the features of a specification.
Declared(s) == {f.name : f \in ToSet(s.features)}
FeatureOf(s, name) == s.features[CHOOSE i \in DOMAIN s.features : s.features[i].name = name]

LEMMA FeatureIsDeclared ==
  ASSUME NEW s \in ToSet(Specs), NEW name \in Declared(s)
  PROVE  /\ FeatureOf(s, name) \in ToSet(s.features)
         /\ FeatureOf(s, name) \in [name : Declared(s), kind : STRING, at : Int, shift : Nat,
                                    yes : Seq(Declared(s)), no : Seq(Declared(s))]
<1>. DEFINE R == [name : Declared(s), kind : STRING, at : Int, shift : Nat,
                  yes : Seq(Declared(s)), no : Seq(Declared(s))]
<1>1. s.features \in Seq(R)
  BY SpecsAssumption DEF Declared
<1>2. \E i \in DOMAIN s.features : s.features[i].name = name
  BY DEF Declared, ToSet
<1>3. \E i \in DOMAIN s.features : FeatureOf(s, name) = s.features[i]
  BY <1>2 DEF FeatureOf
<1>. HIDE DEF R
<1>4. FeatureOf(s, name) \in R
  BY <1>1, <1>3
<1>. QED
  BY <1>3, <1>4 DEF ToSet, R

\* Every name used in a pattern or a branch has a number.
LEMMA NamesNumbered ==
  ASSUME NEW s \in ToSet(Specs)
  PROVE  /\ \A c \in ToSet(Combos(s)) : c \in Seq(Declared(s)) /\ ToSet(c) \subseteq ToSet(Names(s))
         /\ ToSet(Names(s)) \subseteq Declared(s)
         /\ \A f \in ToSet(s.features) :
              ToSet(f.yes) \subseteq ToSet(Names(s)) /\ ToSet(f.no) \subseteq ToSet(Names(s))
<1>. DEFINE N == Declared(s)
            g == s.ngrams
            h == s.features
            R == [name : N, kind : STRING, at : Int, shift : Nat, yes : Seq(N), no : Seq(N)]
            b == [i \in DOMAIN h |-> Branches(h[i])]
            x == FlattenSeq(FlattenSeq(g))
            y == FlattenSeq(b)
<1>1. g \in Seq(Seq(Seq(N))) /\ h \in Seq(R)
  BY SpecsAssumption DEF Declared
<1>. HIDE DEF N, R
<1>2. FlattenSeq(g) \in Seq(Seq(N)) /\ ToSet(Combos(s)) = ToSet(FlattenSeq(g))
  <2>. DEFINE e == FlattenSeq(g)
  <2>1. e \in Seq(Seq(N))
    <3>. HIDE DEF g
    <3>. QED
      BY <1>1, FlattenMembers
  <2>2. Combos(s) = Distinct(e)
    BY DEF Combos
  <2>. HIDE DEF e
  <2>3. ToSet(Combos(s)) = ToSet(e)
    BY <2>1, <2>2, DistinctKeeps
  <2>. QED
    BY <2>1, <2>3 DEF e
<1>3. x \in Seq(N) /\ \A v : v \in ToSet(x) <=> \E k \in DOMAIN FlattenSeq(g) : v \in ToSet(FlattenSeq(g)[k])
  <2>. DEFINE e == FlattenSeq(g)
  <2>1. e \in Seq(Seq(N))
    BY <1>2
  <2>. HIDE DEF e
  <2>2. /\ FlattenSeq(e) \in Seq(N)
        /\ \A v : v \in ToSet(FlattenSeq(e)) <=> \E k \in DOMAIN e : v \in ToSet(e[k])
    BY <2>1, FlattenMembers
  <2>. QED
    BY <2>2 DEF e
<1>4. ASSUME NEW f \in R
      PROVE  /\ Branches(f) \in Seq(N)
             /\ \A v : v \in ToSet(Branches(f)) <=> v \in ToSet(f.yes) \/ v \in ToSet(f.no)
  <2>1. f.yes \in Seq(N) /\ f.no \in Seq(N)
    BY DEF R
  <2>. QED
    BY <2>1, ConcatMembers DEF Branches
<1>5. b \in Seq(Seq(N)) /\ DOMAIN b = DOMAIN h /\ \A i \in DOMAIN h : b[i] = Branches(h[i])
  <2>1. Len(h) \in Nat /\ DOMAIN h = 1 .. Len(h) /\ \A i \in 1 .. Len(h) : h[i] \in R
    BY <1>1
  <2>2. \A i \in 1 .. Len(h) : Branches(h[i]) \in Seq(N)
    BY <1>4, <2>1
  <2>. HIDE DEF h
  <2>3. b \in Seq(Seq(N))
    BY <2>1, <2>2
  <2>. QED
    BY <2>3
<1>6. y \in Seq(N) /\ \A v : v \in ToSet(y) <=> \E k \in DOMAIN b : v \in ToSet(b[k])
  <2>. HIDE DEF b
  <2>. QED
    BY <1>5, FlattenMembers
<1>7. ToSet(Names(s)) \subseteq N /\ \A v : v \in ToSet(Names(s)) <=> v \in ToSet(x) \/ v \in ToSet(y)
  <2>1. Names(s) = Distinct(x \o y)
    BY DEF Names
  <2>. HIDE DEF x, y
  <2>. DEFINE z == x \o y
  <2>2. z \in Seq(N) /\ \A v : v \in ToSet(z) <=> v \in ToSet(x) \/ v \in ToSet(y)
    BY <1>3, <1>6, ConcatMembers
  <2>. HIDE DEF z
  <2>3. Distinct(z) \in Seq(N) /\ ToSet(Distinct(z)) = ToSet(z)
    BY <2>2, DistinctKeeps
  <2>4. Names(s) \in Seq(N) /\ ToSet(Names(s)) = ToSet(z)
    BY <2>1, <2>3 DEF z
  <2>5. ToSet(Names(s)) \subseteq N
    BY <2>4 DEF ToSet
  <2>. QED
    BY <2>2, <2>4, <2>5
<1>8. ASSUME NEW c \in ToSet(Combos(s)) PROVE c \in Seq(N) /\ ToSet(c) \subseteq ToSet(Names(s))
  <2>. DEFINE e == FlattenSeq(g)
  <2>1. PICK k \in DOMAIN e : c = e[k]
    BY <1>2 DEF ToSet
  <2>2. c \in Seq(N)
    <3>1. e \in Seq(Seq(N))
      BY <1>2
    <3>. HIDE DEF e
    <3>. QED
      BY <2>1, <3>1
  <2>3. ToSet(c) \subseteq ToSet(x)
    BY <1>3, <2>1
  <2>. QED
    BY <1>7, <2>2, <2>3
<1>9. ASSUME NEW f \in ToSet(h)
      PROVE  ToSet(f.yes) \subseteq ToSet(Names(s)) /\ ToSet(f.no) \subseteq ToSet(Names(s))
  <2>1. PICK i \in DOMAIN h : f = h[i]
    BY DEF ToSet
  <2>2. f \in R
    BY <1>1, <2>1
  <2>3. \A v : v \in ToSet(f.yes) \/ v \in ToSet(f.no) => v \in ToSet(b[i])
    BY <1>4, <1>5, <2>1, <2>2
  <2>4. \A v : v \in ToSet(b[i]) => v \in ToSet(y)
    BY <1>5, <1>6, <2>1
  <2>. QED
    BY <1>7, <2>3, <2>4
<1>. QED
  BY <1>7, <1>8, <1>9 DEF N

-----------------------------------------------------------------------------
(* The patterns of a node mean what the specification says *)

Refs(s, seq) == [k \in DOMAIN seq |-> Number(Names(s), seq[k])]
NumbersOf(s, seq) == {Number(Names(s), seq[k]) : k \in DOMAIN seq}
Used(f, v) == IF Branches(f) = <<>> THEN <<f.name>> ELSE IF v # 0 THEN f.yes ELSE f.no

LEMMA EmptyConcat ==
  ASSUME NEW C, NEW x \in Seq(C), NEW y \in Seq(C)
  PROVE  x \o y = <<>> <=> Len(x) = 0 /\ Len(y) = 0
<1>1. x \o y \in Seq(C) /\ Len(x \o y) = Len(x) + Len(y) /\ Len(x) \in Nat /\ Len(y) \in Nat
  BY ConcatProperties
<1>2. \A z \in Seq(C) : z = <<>> <=> Len(z) = 0
  OBVIOUS
<1>. QED
  BY <1>1, <1>2

LEMMA RefsLength ==
  ASSUME NEW s, NEW C, NEW x \in Seq(C)
  PROVE  /\ Refs(s, x) \in Seq(NumbersOf(s, x))
         /\ Len(Refs(s, x)) = Len(x) /\ DOMAIN Refs(s, x) = DOMAIN x
<1>. DEFINE r == Refs(s, x)
            D == NumbersOf(s, x)
<1>1. Len(x) \in Nat /\ DOMAIN x = 1 .. Len(x)
  OBVIOUS
<1>2. r = [k \in 1 .. Len(x) |-> Number(Names(s), x[k])] /\ \A k \in 1 .. Len(x) : Number(Names(s), x[k]) \in D
  BY <1>1 DEF Refs, NumbersOf
<1>3. r \in [1 .. Len(x) -> D]
  <2>. HIDE DEF D, r
  <2>. QED
    BY <1>2
<1>. HIDE DEF D, r
<1>. QED
  BY <1>1, <1>3 DEF r, D

\* The compiled feature of a name is the declared one, which refers to others by
\* their numbers.
LEMMA CompiledFeature ==
  ASSUME NEW s \in ToSet(Specs), NEW name \in ToSet(Names(s))
  PROVE  LET c == Compile(s).compute[Number(Names(s), name)]
             f == FeatureOf(s, name)
         IN /\ f \in ToSet(s.features) /\ f.name = name
            /\ f.yes \in Seq(Declared(s)) /\ f.no \in Seq(Declared(s))
            /\ \A w : Access(c, w) = Access(f, w)
            /\ c.yes = Refs(s, f.yes) /\ c.no = Refs(s, f.no)
            /\ Branches(c) = <<>> <=> Branches(f) = <<>>
<1>. DEFINE n == Number(Names(s), name)
            f == FeatureOf(s, name)
            c == Compile(s).compute[n]
            N == Declared(s)
<1>1. n \in DOMAIN Names(s) /\ Names(s)[n] = name /\ name \in N
  BY NumberOf, NamesNumbered
<1>2. /\ f \in ToSet(s.features)
      /\ f \in [name : N, kind : STRING, at : Int, shift : Nat, yes : Seq(N), no : Seq(N)]
  BY <1>1, FeatureIsDeclared
<1>3. f.name = name
  <2>1. \E i \in DOMAIN s.features : s.features[i].name = name
    BY <1>1 DEF Declared, ToSet
  <2>. QED
    BY <2>1 DEF FeatureOf
<1>4. c = [f EXCEPT !.yes = Refs(s, @), !.no = Refs(s, @)]
  <2>1. Compile(s).compute = [m \in DOMAIN Names(s) |->
          [FeatureOf(s, Names(s)[m]) EXCEPT !.yes = Refs(s, @), !.no = Refs(s, @)]]
    BY DEF Compile, Compiled, FeatureOf, Refs
  <2>. HIDE DEF n
  <2>. QED
    BY <1>1, <2>1
<1>. HIDE DEF n, f, c, N
<1>5. c.yes = Refs(s, f.yes) /\ c.no = Refs(s, f.no) /\ c.kind = f.kind /\ c.at = f.at /\ c.shift = f.shift
  BY <1>2, <1>4
<1>6. \A w : Access(c, w) = Access(f, w)
  BY <1>5 DEF Access
<1>7. Branches(c) = <<>> <=> Branches(f) = <<>>
  <2>. DEFINE D == NumbersOf(s, f.yes) \cup NumbersOf(s, f.no)
  <2>1. f.yes \in Seq(N) /\ f.no \in Seq(N)
    BY <1>2
  <2>2. c.yes \in Seq(NumbersOf(s, f.yes)) /\ Len(c.yes) = Len(f.yes)
    BY <1>5, <2>1, RefsLength
  <2>4. c.no \in Seq(NumbersOf(s, f.no)) /\ Len(c.no) = Len(f.no)
    BY <1>5, <2>1, RefsLength
  <2>3. c.yes \in Seq(D) /\ c.no \in Seq(D)
    BY <2>2, <2>4
  <2>. HIDE DEF D
  <2>. QED
    BY <2>1, <2>2, <2>3, <2>4, EmptyConcat DEF Branches
<1>. QED
  BY <1>2, <1>3, <1>5, <1>6, <1>7 DEF f, c, n, N

\* What a node's value of a named feature brings into a pattern.
Brings(s, name, w) ==
  LET f == FeatureOf(s, name)
      used == Used(f, Access(f, w))
  IN [k \in DOMAIN used |-> Access(FeatureOf(s, used[k]), w)]

LEMMA UsedIsNamed ==
  ASSUME NEW s \in ToSet(Specs), NEW name \in ToSet(Names(s)), NEW v
  PROVE  LET c == Compile(s)
             n == Number(Names(s), name)
             used == Used(FeatureOf(s, name), v)
         IN /\ Mixed(c, n, v) = Refs(s, used)
            /\ \A k \in DOMAIN used : used[k] \in ToSet(Names(s))
            /\ DOMAIN Refs(s, used) = DOMAIN used
            /\ \A k \in DOMAIN used : Refs(s, used)[k] \in {n} \cup ToSet(Branches(c.compute[n]))
<1>. DEFINE c == Compile(s).compute[Number(Names(s), name)]
            n == Number(Names(s), name)
            f == FeatureOf(s, name)
            used == Used(f, v)
            N == Declared(s)
<1>1. /\ f \in ToSet(s.features) /\ f.name = name
      /\ f.yes \in Seq(N) /\ f.no \in Seq(N)
      /\ c.yes = Refs(s, f.yes) /\ c.no = Refs(s, f.no)
      /\ Branches(c) = <<>> <=> Branches(f) = <<>>
  BY CompiledFeature
<1>2. ToSet(f.yes) \subseteq ToSet(Names(s)) /\ ToSet(f.no) \subseteq ToSet(Names(s))
  BY <1>1, NamesNumbered
<1>3. Mixed(Compile(s), n, v) = IF Branches(c) = <<>> THEN <<n>> ELSE IF v # 0 THEN c.yes ELSE c.no
  BY DEF Mixed
<1>. HIDE DEF c, N
<1>4. Mixed(Compile(s), n, v) = Refs(s, used)
  <2>1. Refs(s, <<name>>) = <<n>>
    BY DEF Refs
  <2>. HIDE DEF f, n
  <2>. QED
    BY <1>1, <1>3, <2>1 DEF Used
<1>5. \A k \in DOMAIN used : used[k] \in ToSet(Names(s))
  <2>1. \A k \in DOMAIN <<name>> : <<name>>[k] = name
    OBVIOUS
  <2>2. /\ \A k \in DOMAIN f.yes : f.yes[k] \in ToSet(f.yes)
        /\ \A k \in DOMAIN f.no : f.no[k] \in ToSet(f.no)
    BY DEF ToSet
  <2>. HIDE DEF f
  <2>. QED
    BY <1>1, <1>2, <2>1, <2>2 DEF Used
<1>6. DOMAIN Refs(s, used) = DOMAIN used
  BY DEF Refs
<1>7. ASSUME NEW k \in DOMAIN used PROVE Refs(s, used)[k] \in {n} \cup ToSet(Branches(c))
  <2>. HIDE DEF f
  <2>1. CASE Branches(f) = <<>>
    <3>1. used = <<name>> /\ Refs(s, <<name>>) = <<n>>
      BY <1>1, <2>1 DEF Used, Refs
    <3>2. Refs(s, used) = <<n>> /\ k = 1
      BY <3>1
    <3>. QED
      BY <3>2
  <2>2. CASE Branches(f) # <<>>
    <3>. DEFINE x == Refs(s, f.yes)
                y == Refs(s, f.no)
                D == NumbersOf(s, f.yes) \cup NumbersOf(s, f.no)
    <3>1. x \in Seq(NumbersOf(s, f.yes)) /\ DOMAIN x = DOMAIN f.yes
      BY <1>1, RefsLength
    <3>2. y \in Seq(NumbersOf(s, f.no)) /\ DOMAIN y = DOMAIN f.no
      BY <1>1, RefsLength
    <3>3. x \in Seq(D) /\ y \in Seq(D)
      BY <3>1, <3>2
    <3>4. \A u : u \in ToSet(Branches(c)) <=> u \in ToSet(x) \/ u \in ToSet(y)
      <4>1. Branches(c) = x \o y
        BY <1>1 DEF Branches
      <4>. HIDE DEF x, y, D
      <4>. QED
        BY <3>3, <4>1, ConcatMembers
    <3>5. CASE used = f.yes
      <4>1. Refs(s, used)[k] \in ToSet(x)
        BY <1>6, <3>5 DEF ToSet
      <4>. QED
        BY <3>4, <4>1
    <3>6. CASE used = f.no
      <4>1. Refs(s, used)[k] \in ToSet(y)
        BY <1>6, <3>6 DEF ToSet
      <4>. QED
        BY <3>4, <4>1
    <3>. QED
      BY <2>2, <3>5, <3>6 DEF Used
  <2>. QED
    BY <2>1, <2>2
<1>. HIDE DEF used, n
<1>. QED
  BY <1>4, <1>5, <1>6, <1>7 DEF c, n, used, f

LEMMA RefOfPattern ==
  ASSUME NEW s \in ToSet(Specs), NEW p \in DOMAIN Grouped(s)
  PROVE  /\ Patterns(Compile(s)) = DOMAIN Grouped(s)
         /\ Compile(s).patterns[p].refs = Refs(s, Grouped(s)[p])
         /\ Compile(s).patterns[p].usage = Usage(s, Grouped(s)[p])
         /\ Grouped(s)[p] \in ToSet(Combos(s)) /\ Number(Grouped(s), Grouped(s)[p]) = p
         /\ Len(Refs(s, Grouped(s)[p])) = Len(Grouped(s)[p])
         /\ DOMAIN Refs(s, Grouped(s)[p]) = DOMAIN Grouped(s)[p]
         /\ \A k \in DOMAIN Grouped(s)[p] : Grouped(s)[p][k] \in ToSet(Names(s))
<1>. DEFINE q == Grouped(s)
            c == q[p]
<1>1. Compile(s).patterns = [k \in DOMAIN q |-> [refs |-> Refs(s, q[k]), usage |-> Usage(s, q[k])]]
  BY DEF Compile, Compiled, Refs
<1>2. DOMAIN q = 1 .. Cardinality(ToSet(Combos(s))) /\ ToSet(q) = ToSet(Combos(s))
  BY UnigramPatternsLast
<1>3. \A j, k \in DOMAIN q : q[j] = q[k] => j = k
  BY UnigramPatternsLast
<1>4. c \in ToSet(Combos(s))
  BY <1>2 DEF ToSet
<1>10. p \in DOMAIN q
  OBVIOUS
<1>. HIDE DEF q
<1>5. Number(q, c) = p
  <2>1. c \in ToSet(q)
    BY <1>10 DEF ToSet
  <2>. QED
    BY <1>3, <1>10, <2>1, NumberOf
<1>6. c \in Seq(Declared(s)) /\ ToSet(c) \subseteq ToSet(Names(s))
  BY <1>4, NamesNumbered
<1>7. Len(Refs(s, c)) = Len(c) /\ DOMAIN Refs(s, c) = DOMAIN c
  BY <1>6, RefsLength
<1>8. \A k \in DOMAIN c : c[k] \in ToSet(Names(s))
  BY <1>6 DEF ToSet
<1>9. /\ Patterns(Compile(s)) = DOMAIN q
      /\ Compile(s).patterns[p].refs = Refs(s, c)
      /\ Compile(s).patterns[p].usage = Usage(s, c)
  BY <1>1, <1>10 DEF Patterns
<1>. QED
  BY <1>4, <1>5, <1>7, <1>8, <1>9 DEF q

\* The interpreter and the generated code compute the same, which is what the
\* pattern means by its names.
LEMMA PatternsMean ==
  ASSUME NEW s \in ToSet(Specs), NEW p \in DOMAIN Grouped(s), NEW w
  PROVE  /\ InterpretedPattern(Compile(s), p, w) = Meaning(s, Grouped(s)[p], w)
         /\ GeneratedPattern(Compile(s), p, w) = Meaning(s, Grouped(s)[p], w)
<1>. DEFINE c == Compile(s)
            combo == Grouped(s)[p]
            refs == c.patterns[p].refs
            inter(n) == LET mixed == Mixed(c, n, Access(c.compute[n], w))
                        IN [k \in DOMAIN mixed |-> Access(c.compute[mixed[k]], w)]
            value == [n \in Ensured(c, p) |-> Access(c.compute[n], w)]
            gener(n) == LET mixed == Mixed(c, n, value[n]) IN [k \in DOMAIN mixed |-> value[mixed[k]]]
<1>1. /\ refs = Refs(s, combo) /\ DOMAIN refs = DOMAIN combo /\ Len(refs) = Len(combo)
      /\ Number(Grouped(s), combo) = p
      /\ \A k \in DOMAIN combo : combo[k] \in ToSet(Names(s))
  BY RefOfPattern
<1>2. Start(c, p) = <<Number(Grouped(s), combo), Len(combo)>>
  BY <1>1 DEF Start
<1>3. \A k \in DOMAIN combo : refs[k] = Number(Names(s), combo[k])
  BY <1>1 DEF Refs
<1>4. ASSUME NEW k \in DOMAIN combo
      PROVE  inter(refs[k]) = Brings(s, combo[k], w) /\ gener(refs[k]) = Brings(s, combo[k], w)
  <2>. DEFINE name == combo[k]
              n == refs[k]
              f == FeatureOf(s, name)
              v == Access(f, w)
              used == Used(f, v)
              mixed == Refs(s, used)
  <2>1. name \in ToSet(Names(s)) /\ n = Number(Names(s), name)
    BY <1>1, <1>3
  <2>2. Access(c.compute[n], w) = v
    BY <2>1, CompiledFeature
  <2>3. /\ Mixed(c, n, v) = mixed /\ DOMAIN mixed = DOMAIN used
        /\ \A j \in DOMAIN used : used[j] \in ToSet(Names(s))
        /\ \A j \in DOMAIN used : mixed[j] \in {n} \cup ToSet(Branches(c.compute[n]))
    BY <2>1, UsedIsNamed
  <2>4. \A j \in DOMAIN used : Access(c.compute[mixed[j]], w) = Access(FeatureOf(s, used[j]), w)
    <3>1. ASSUME NEW j \in DOMAIN used
          PROVE  Access(c.compute[mixed[j]], w) = Access(FeatureOf(s, used[j]), w)
      <4>1. mixed[j] = Number(Names(s), used[j]) /\ used[j] \in ToSet(Names(s))
        BY <2>3 DEF Refs
      <4>. HIDE DEF used, mixed
      <4>. QED
        BY <4>1, CompiledFeature
    <3>. QED
      BY <3>1
  <2>5. n \in ToSet(refs) /\ n \in Ensured(c, p) /\ \A j \in DOMAIN used : mixed[j] \in Ensured(c, p)
    <3>1. n \in ToSet(refs)
      BY <1>1 DEF ToSet
    <3>2. {n} \cup ToSet(Branches(c.compute[n])) \subseteq Ensured(c, p)
      BY <3>1 DEF Ensured
    <3>. HIDE DEF n, c, mixed, used
    <3>. QED
      BY <2>3, <3>1, <3>2
  <2>6. Brings(s, name, w) = [j \in DOMAIN used |-> Access(FeatureOf(s, used[j]), w)]
    BY DEF Brings
  <2>7. inter(n) = [j \in DOMAIN mixed |-> Access(c.compute[mixed[j]], w)]
    BY <2>2, <2>3
  <2>8. value[n] = v /\ \A j \in DOMAIN used : value[mixed[j]] = Access(c.compute[mixed[j]], w)
    <3>. HIDE DEF n, c, mixed, used, v
    <3>. QED
      BY <2>2, <2>5
  <2>9. gener(n) = [j \in DOMAIN mixed |-> value[mixed[j]]]
    <3>. HIDE DEF value, mixed, v, c
    <3>. QED
      BY <2>3, <2>8
  <2>10. inter(n) = Brings(s, name, w)
    <3>. HIDE DEF inter, mixed, used, c, name, n
    <3>. QED
      BY <2>3, <2>4, <2>6, <2>7
  <2>11. gener(n) = Brings(s, name, w)
    <3>. HIDE DEF gener, mixed, used, c, name, n, value
    <3>. QED
      BY <2>3, <2>4, <2>6, <2>8, <2>9
  <2>. QED
    BY <2>10, <2>11
<1>5. Meaning(s, combo, w) = <<Number(Grouped(s), combo), Len(combo)>> \o FlattenSeq([k \in DOMAIN combo |-> Brings(s, combo[k], w)])
  <2>. DEFINE values(name) ==
                LET f == FeatureOf(s, name)
                    used == IF Branches(f) = <<>> THEN <<name>> ELSE IF Access(f, w) # 0 THEN f.yes ELSE f.no
                IN [k \in DOMAIN used |-> Access(FeatureOf(s, used[k]), w)]
  <2>1. ASSUME NEW name \in ToSet(Names(s)) PROVE Brings(s, name, w) = values(name)
    <3>1. FeatureOf(s, name).name = name
      BY CompiledFeature
    <3>. QED
      BY <3>1 DEF Brings, Used
  <2>2. Meaning(s, combo, w) =
          <<Number(Grouped(s), combo), Len(combo)>> \o FlattenSeq([k \in DOMAIN combo |-> values(combo[k])])
    BY DEF Meaning, FeatureOf
  <2>. HIDE DEF values, combo
  <2>3. [k \in DOMAIN combo |-> Brings(s, combo[k], w)] = [k \in DOMAIN combo |-> values(combo[k])]
    BY <1>1, <2>1
  <2>. QED
    BY <2>2, <2>3
<1>6. [k \in DOMAIN refs |-> inter(refs[k])] = [k \in DOMAIN combo |-> Brings(s, combo[k], w)]
  <2>. HIDE DEF inter, refs, combo
  <2>. QED
    BY <1>1, <1>4
<1>7. [k \in DOMAIN refs |-> gener(refs[k])] = [k \in DOMAIN combo |-> Brings(s, combo[k], w)]
  <2>. HIDE DEF gener, refs, combo
  <2>. QED
    BY <1>1, <1>4
<1>8. InterpretedPattern(c, p, w) = Start(c, p) \o FlattenSeq([k \in DOMAIN refs |-> inter(refs[k])])
  BY DEF InterpretedPattern
<1>9. GeneratedPattern(c, p, w) = Start(c, p) \o FlattenSeq([k \in DOMAIN refs |-> gener(refs[k])])
  BY DEF GeneratedPattern
<1>. HIDE DEF inter, gener, refs, combo, value
<1>. QED
  BY <1>2, <1>5, <1>6, <1>7, <1>8, <1>9 DEF c, combo

-----------------------------------------------------------------------------
(* Lists: sequences of anything *)

IsList(q) == Len(q) \in Nat /\ q = [i \in 1 .. Len(q) |-> q[i]]

LEMMA ListOf ==
  ASSUME NEW q, NEW m \in Nat, q = [i \in 1 .. m |-> q[i]]
  PROVE  IsList(q) /\ Len(q) = m /\ DOMAIN q = 1 .. m
<1>1. DOMAIN q = 1 .. m
  OBVIOUS
<1>2. Len(q) = m
  BY <1>1, FunctionLength
<1>. QED
  BY <1>1, <1>2 DEF IsList

LEMMA ListIn ==
  ASSUME NEW q, IsList(q)
  PROVE  /\ DOMAIN q = 1 .. Len(q) /\ Len(q) \in Nat
         /\ \A C : (\A i \in 1 .. Len(q) : q[i] \in C) => q \in Seq(C)
<1>1. DOMAIN q = 1 .. Len(q) /\ Len(q) \in Nat
  BY DEF IsList
<1>2. ASSUME NEW C, \A i \in 1 .. Len(q) : q[i] \in C PROVE q \in Seq(C)
  <2>1. q \in [1 .. Len(q) -> C]
    BY <1>2 DEF IsList
  <2>. QED
    BY <1>1, <2>1, SeqDef
<1>. QED
  BY <1>1, <1>2

LEMMA SeqIsList ==
  ASSUME NEW C, NEW q \in Seq(C)
  PROVE  IsList(q) /\ DOMAIN q = 1 .. Len(q)
BY DEF IsList

LEMMA SameList ==
  ASSUME NEW x, NEW y, IsList(x), IsList(y), Len(x) = Len(y), \A i \in 1 .. Len(x) : x[i] = y[i]
  PROVE  x = y
BY DEF IsList

LEMMA ListConcat ==
  ASSUME NEW x, NEW y, IsList(x), IsList(y)
  PROVE  /\ IsList(x \o y) /\ Len(x \o y) = Len(x) + Len(y)
         /\ \A i \in 1 .. Len(x) : (x \o y)[i] = x[i]
         /\ \A i \in 1 .. Len(y) : (x \o y)[Len(x) + i] = y[i]
<1>. DEFINE C == {x[i] : i \in 1 .. Len(x)} \cup {y[i] : i \in 1 .. Len(y)}
<1>1. x \in Seq(C) /\ y \in Seq(C) /\ Len(x) \in Nat /\ Len(y) \in Nat
  BY ListIn
<1>. HIDE DEF C
<1>2. /\ x \o y \in Seq(C) /\ Len(x \o y) = Len(x) + Len(y)
      /\ \A i \in 1 .. Len(x) + Len(y) : (x \o y)[i] = IF i <= Len(x) THEN x[i] ELSE y[i - Len(x)]
  BY <1>1, ConcatProperties
<1>3. IsList(x \o y)
  BY <1>2, SeqIsList
<1>4. \A i \in 1 .. Len(y) : Len(x) + i \in 1 .. Len(x) + Len(y) /\ ~(Len(x) + i <= Len(x)) /\ (Len(x) + i) - Len(x) = i
  BY <1>1
<1>. QED
  BY <1>1, <1>2, <1>3, <1>4

LEMMA ListAppend ==
  ASSUME NEW x, NEW e, IsList(x)
  PROVE  /\ IsList(Append(x, e)) /\ Len(Append(x, e)) = Len(x) + 1
         /\ \A i \in 1 .. Len(x) : Append(x, e)[i] = x[i]
         /\ Append(x, e)[Len(x) + 1] = e
<1>. DEFINE C == {x[i] : i \in 1 .. Len(x)} \cup {e}
<1>1. x \in Seq(C) /\ e \in C /\ Len(x) \in Nat
  BY ListIn
<1>. HIDE DEF C
<1>2. /\ Append(x, e) \in Seq(C) /\ Len(Append(x, e)) = Len(x) + 1
      /\ \A i \in 1 .. Len(x) : Append(x, e)[i] = x[i]
      /\ Append(x, e)[Len(x) + 1] = e
  BY <1>1, AppendedOne
<1>. QED
  BY <1>2, SeqIsList

LEMMA ListPart ==
  ASSUME NEW x, IsList(x), NEW a \in 1 .. Len(x) + 1, NEW b \in a - 1 .. Len(x)
  PROVE  /\ IsList(SubSeq(x, a, b)) /\ Len(SubSeq(x, a, b)) = b - a + 1
         /\ \A i \in 1 .. b - a + 1 : SubSeq(x, a, b)[i] = x[a + i - 1]
<1>. DEFINE C == {x[i] : i \in 1 .. Len(x)}
<1>1. x \in Seq(C) /\ Len(x) \in Nat /\ a \in Int /\ b \in Int
  BY ListIn
<1>. HIDE DEF C
<1>2. /\ SubSeq(x, a, b) \in Seq(C) /\ Len(SubSeq(x, a, b)) = b - a + 1
      /\ \A i \in 1 .. b - a + 1 : SubSeq(x, a, b)[i] = x[a + i - 1]
  BY <1>1, SubSeqProperties
<1>. QED
  BY <1>2, SeqIsList

LEMMA ListTail ==
  ASSUME NEW x, IsList(x), Len(x) # 0
  PROVE  /\ IsList(Tail(x)) /\ Len(Tail(x)) = Len(x) - 1 /\ Head(x) = x[1]
         /\ \A i \in 1 .. Len(x) - 1 : Tail(x)[i] = x[i + 1]
<1>. DEFINE C == {x[i] : i \in 1 .. Len(x)}
<1>1. x \in Seq(C) /\ Len(x) \in Nat /\ x # <<>>
  BY ListIn
<1>. HIDE DEF C
<1>2. /\ Tail(x) \in Seq(C) /\ Len(Tail(x)) = Len(x) - 1 /\ Head(x) = x[1]
      /\ \A i \in 1 .. Len(x) - 1 : Tail(x)[i] = x[i + 1]
  BY <1>1
<1>. QED
  BY <1>2, SeqIsList

LEMMA EmptyList ==
  /\ IsList(<<>>) /\ Len(<<>>) = 0
  /\ \A q : IsList(q) => (q = <<>> <=> Len(q) = 0)
<1>1. IsList(<<>>) /\ Len(<<>>) = 0
  BY EmptySeq, SeqIsList
<1>2. ASSUME NEW q, IsList(q), Len(q) = 0 PROVE q = <<>>
  BY <1>1, <1>2, SameList
<1>. QED
  BY <1>1, <1>2

-----------------------------------------------------------------------------
(* The loops over rows of indices *)

\* Two buffers of M indices out of X.
Pairs(X, M) == [1 .. 2 -> {q \in Seq(X) : Len(q) = M}]

LEMMA OverIs ==
  ASSUME NEW old, NEW new, IsList(old), IsList(new), Len(new) <= Len(old)
  PROVE  /\ IsList(Over(old, new)) /\ Len(Over(old, new)) = Len(old)
         /\ \A i \in 1 .. Len(new) : Over(old, new)[i] = new[i]
         /\ \A i \in Len(new) + 1 .. Len(old) : Over(old, new)[i] = old[i]
<1>. DEFINE a == Len(new) + 1
            b == Len(old)
            r == SubSeq(old, a, b)
<1>1. Len(new) \in Nat /\ b \in Nat /\ a \in 1 .. b + 1 /\ b \in a - 1 .. b
  BY DEF IsList
<1>2. IsList(r) /\ Len(r) = b - a + 1 /\ \A i \in 1 .. b - a + 1 : r[i] = old[a + i - 1]
  <2>. HIDE DEF a
  <2>. QED
    BY <1>1, ListPart
<1>3. Over(old, new) = new \o r
  BY DEF Over
<1>. HIDE DEF r
<1>4. /\ IsList(new \o r) /\ Len(new \o r) = Len(new) + Len(r)
      /\ \A i \in 1 .. Len(new) : (new \o r)[i] = new[i]
      /\ \A i \in 1 .. Len(r) : (new \o r)[Len(new) + i] = r[i]
  BY <1>2, ListConcat
<1>5. ASSUME NEW i \in Len(new) + 1 .. Len(old) PROVE (new \o r)[i] = old[i]
  <2>. DEFINE j == i - Len(new)
  <2>1. j \in 1 .. Len(r) /\ Len(new) + j = i /\ a + j - 1 = i
    BY <1>1, <1>2
  <2>. HIDE DEF j
  <2>. QED
    BY <1>2, <1>4, <2>1
<1>. QED
  BY <1>1, <1>2, <1>3, <1>4, <1>5

LEMMA PairIs ==
  ASSUME NEW X, NEW M, NEW val \in Pairs(X, M), NEW b \in 1 .. 2
  PROVE  val[b] \in Seq(X) /\ Len(val[b]) = M /\ IsList(val[b]) /\ M \in Nat
<1>1. val[b] \in {q \in Seq(X) : Len(q) = M}
  BY DEF Pairs
<1>2. val[b] \in Seq(X) /\ Len(val[b]) = M
  BY <1>1
<1>. QED
  BY <1>2, SeqIsList

\* Writing a row to one buffer leaves the other alone, and the row is read back.
LEMMA WriteIs ==
  ASSUME NEW X, NEW M, NEW val \in Pairs(X, M), NEW b \in 1 .. 2,
         NEW row \in Seq(X), Len(row) <= M
  PROVE  /\ Write(val, b, row) \in Pairs(X, M)
         /\ Take(Write(val, b, row), b, Len(row)) = row
         /\ \A c \in 1 .. 2 : c # b => Write(val, b, row)[c] = val[c]
         /\ \A i \in 1 .. M : Write(val, b, row)[b][i] = row[i] \/ Write(val, b, row)[b][i] = val[b][i]
         /\ \A i \in 1 .. Len(row) : Write(val, b, row)[b][i] = row[i]
         /\ \A i \in Len(row) + 1 .. M : Write(val, b, row)[b][i] = val[b][i]
<1>. DEFINE o == Over(val[b], row)
            w == Write(val, b, row)
<1>1. val[b] \in Seq(X) /\ Len(val[b]) = M /\ IsList(val[b]) /\ M \in Nat /\ IsList(row) /\ Len(row) \in Nat
  BY PairIs, SeqIsList
<1>2. /\ IsList(o) /\ Len(o) = M
      /\ \A i \in 1 .. Len(row) : o[i] = row[i]
      /\ \A i \in Len(row) + 1 .. M : o[i] = val[b][i]
  BY <1>1, OverIs
<1>. HIDE DEF o
<1>3. \A i \in 1 .. M : o[i] \in X /\ (o[i] = row[i] \/ o[i] = val[b][i])
  <2>1. ASSUME NEW i \in 1 .. M PROVE o[i] \in X /\ (o[i] = row[i] \/ o[i] = val[b][i])
    <3>1. i \in 1 .. Len(row) \/ i \in Len(row) + 1 .. M
      BY <1>1
    <3>2. \A k \in 1 .. Len(row) : row[k] \in X
      OBVIOUS
    <3>3. \A k \in 1 .. M : val[b][k] \in X
      BY <1>1
    <3>. QED
      BY <1>2, <3>1, <3>2, <3>3
  <2>. QED
    BY <2>1
<1>4. o \in Seq(X)
  BY <1>2, <1>3, ListIn
<1>5. w = [val EXCEPT ![b] = o] /\ DOMAIN val = 1 .. 2
  BY DEF Write, o, Pairs
<1>. HIDE DEF w
<1>6. w[b] = o /\ \A c \in 1 .. 2 : c # b => w[c] = val[c]
  BY <1>5
<1>7. w \in Pairs(X, M)
  <2>. DEFINE S == {q \in Seq(X) : Len(q) = M}
  <2>1. o \in S /\ val \in [1 .. 2 -> S]
    BY <1>2, <1>4 DEF Pairs
  <2>. HIDE DEF S
  <2>2. w \in [1 .. 2 -> S]
    BY <1>5, <2>1
  <2>. QED
    BY <2>2 DEF Pairs, S
<1>8. Take(w, b, Len(row)) = row
  <2>. DEFINE t == SubSeq(o, 1, Len(row))
  <2>1. Len(row) \in 1 - 1 .. Len(o) /\ 1 \in 1 .. Len(o) + 1
    BY <1>1, <1>2
  <2>2. IsList(t) /\ Len(t) = Len(row) - 1 + 1 /\ \A i \in 1 .. Len(row) - 1 + 1 : t[i] = o[1 + i - 1]
    BY <1>2, <2>1, ListPart
  <2>. HIDE DEF t
  <2>3. Len(t) = Len(row) /\ \A i \in 1 .. Len(row) : t[i] = row[i]
    <3>1. \A i \in 1 .. Len(row) : i \in 1 .. Len(row) - 1 + 1 /\ 1 + i - 1 = i
      BY <1>1
    <3>. QED
      BY <1>1, <1>2, <2>2, <3>1
  <2>4. t = row
    BY <1>1, <2>2, <2>3, SameList
  <2>. QED
    BY <1>6, <2>4 DEF Take, t
<1>. QED
  BY <1>2, <1>3, <1>6, <1>7, <1>8 DEF w

\* And the other way round: behind the others there are only those.
LEMMA OnlyUnigramsBehind ==
  ASSUME NEW s \in ToSet(Specs), NEW p \in DOMAIN Grouped(s), Usage(s, Grouped(s)[p]) = {1}
  PROVE  p > Cardinality(ToSet(Combos(s))) - Cardinality(OnlyUnigrams(s))
<1>. DEFINE m == Cardinality(ToSet(Combos(s)))
            u == Cardinality(OnlyUnigrams(s))
            q == Grouped(s)
            P == {k \in 1 .. m : Usage(s, q[k]) = {1}}
            f == [k \in P |-> q[k]]
<1>1. /\ m \in Nat /\ DOMAIN q = 1 .. m /\ ToSet(q) = ToSet(Combos(s)) /\ u \in 0 .. m
      /\ \A k \in 1 .. m : Usage(s, q[k]) # {1} => k <= m - u
      /\ \A j, k \in 1 .. m : q[j] = q[k] => j = k
  BY UnigramPatternsLast
<1>10. p \in 1 .. m /\ p \in P
  BY <1>1
<1>. HIDE DEF m, q
<1>2. f \in Surjection(P, OnlyUnigrams(s)) /\ f \in Injection(P, OnlyUnigrams(s))
  <2>1. \A k \in P : q[k] \in OnlyUnigrams(s)
    BY <1>1 DEF OnlyUnigrams, ToSet
  <2>2. \A c \in OnlyUnigrams(s) : \E k \in P : q[k] = c
    BY <1>1 DEF OnlyUnigrams, ToSet
  <2>. QED
    BY <1>1, <2>1, <2>2 DEF Surjection, Injection, IsInjective
<1>3. IsFiniteSet(1 .. m) /\ Cardinality(1 .. m) = m
  <2>1. IsFiniteSet(1 .. m) /\ Cardinality(1 .. m) = IF 1 > m THEN 0 ELSE m - 1 + 1
    BY <1>1, FS_Interval
  <2>. QED
    BY <1>1, <2>1
<1>4. IsFiniteSet(P) /\ P \in SUBSET (1 .. m)
  BY <1>3, FS_Subset
<1>5. Cardinality(P) = u
  <2>. HIDE DEF f, P
  <2>. QED
    BY <1>2, <1>4, FS_Surjection
<1>. DEFINE R == (1 .. m) \ P
<1>6. IsFiniteSet(R) /\ Cardinality(R) = m - u
  <2>1. (1 .. m) \cap P = P
    BY <1>4
  <2>. HIDE DEF P
  <2>2. /\ IsFiniteSet((1 .. m) \ P)
        /\ Cardinality((1 .. m) \ P) = Cardinality(1 .. m) - Cardinality((1 .. m) \cap P)
    BY <1>3, FS_Difference
  <2>. QED
    BY <1>3, <1>5, <2>1, <2>2
<1>7. R \in SUBSET (1 .. m - u)
  BY <1>1
<1>8. IsFiniteSet(1 .. m - u) /\ Cardinality(1 .. m - u) = m - u
  <2>1. 1 \in Int /\ m - u \in Int
    BY <1>1
  <2>2. IsFiniteSet(1 .. m - u) /\ Cardinality(1 .. m - u) = IF 1 > m - u THEN 0 ELSE (m - u) - 1 + 1
    BY <2>1, FS_Interval
  <2>. QED
    BY <1>1, <2>2
<1>9. R = 1 .. m - u
  <2>. HIDE DEF R
  <2>. QED
    BY <1>6, <1>7, <1>8, FS_Subset
<1>11. p \notin 1 .. m - u
  BY <1>9, <1>10
<1>. QED
  BY <1>1, <1>10, <1>11 DEF m

-----------------------------------------------------------------------------
(* The rows of patterns *)

\* The settings of a sentence, and what was made of them.
Chosen ==
  /\ cfg.spec \in DOMAIN Specs
  /\ compiled = Compile(Specs[cfg.spec])
  /\ cfg.rows = Rows(lat, compiled, cfg.impl)
  /\ cfg.means = Meanings(lat, Specs[cfg.spec])
  /\ cfg.storeAll \in BOOLEAN /\ cfg.impl \in {"static", "dynamic"}

\* What is stored of a node's row is what was computed.
Known(v) == \A p \in Patterns(compiled) : Stores(p) => patterns[v][p] = FullRow(v)[p]

\* The number of a pattern is what its hash begins with.
LEMMA MeaningStarts ==
  ASSUME NEW s \in ToSet(Specs), NEW p \in DOMAIN Grouped(s), NEW w
  PROVE  Meaning(s, Grouped(s)[p], w)[1] = p
<1>. DEFINE combo == Grouped(s)[p]
            q == [k \in DOMAIN combo |-> Brings(s, combo[k], w)]
            C == UNION {{q[k][j] : j \in DOMAIN q[k]} : k \in DOMAIN q}
<1>1. /\ DOMAIN Refs(s, combo) = DOMAIN combo /\ Number(Grouped(s), combo) = p
      /\ combo \in ToSet(Combos(s))
      /\ \A k \in DOMAIN combo : combo[k] \in ToSet(Names(s))
  BY RefOfPattern
<1>2. combo \in Seq(Declared(s))
  BY <1>1, NamesNumbered
<1>3. ASSUME NEW k \in DOMAIN combo PROVE IsList(q[k])
  <2>. DEFINE f == FeatureOf(s, combo[k])
              used == Used(f, Access(f, w))
  <2>1. f.yes \in Seq(Declared(s)) /\ f.no \in Seq(Declared(s)) /\ f.name = combo[k]
    BY <1>1, CompiledFeature
  <2>2. combo[k] \in Declared(s)
    BY <1>2
  <2>3. used \in Seq(Declared(s))
    BY <2>1, <2>2 DEF Used
  <2>4. q[k] = [j \in DOMAIN used |-> Access(FeatureOf(s, used[j]), w)]
    BY DEF Brings
  <2>. HIDE DEF used, q
  <2>5. Len(used) \in Nat /\ DOMAIN used = 1 .. Len(used)
    BY <2>3
  <2>6. q[k] = [j \in 1 .. Len(used) |-> q[k][j]]
    BY <2>4, <2>5
  <2>. QED
    BY <2>5, <2>6, ListOf
<1>4. DOMAIN combo = 1 .. Len(combo) /\ Len(combo) \in Nat
  BY <1>2
<1>5. q \in Seq(Seq(C))
  <2>1. \A k \in DOMAIN combo : q[k] \in Seq(C)
    <3>1. ASSUME NEW k \in DOMAIN combo PROVE q[k] \in Seq(C)
      <4>1. IsList(q[k]) /\ DOMAIN q[k] = 1 .. Len(q[k]) /\ k \in DOMAIN q
        BY <1>3, ListIn
      <4>2. \A j \in 1 .. Len(q[k]) : q[k][j] \in C
        BY <4>1
      <4>. HIDE DEF q, C
      <4>. QED
        BY <4>1, <4>2, ListIn
    <3>. QED
      BY <3>1
  <2>2. DOMAIN q = 1 .. Len(combo) /\ q = [k \in 1 .. Len(combo) |-> q[k]]
    BY <1>4
  <2>. HIDE DEF q, C, combo
  <2>3. IsList(q) /\ Len(q) = Len(combo)
    BY <1>4, <2>2, ListOf
  <2>4. \A k \in 1 .. Len(q) : q[k] \in Seq(C)
    BY <1>4, <2>1, <2>3
  <2>. QED
    BY <2>3, <2>4, ListIn
<1>6. IsList(FlattenSeq(q))
  <2>. HIDE DEF q, C
  <2>1. CASE q = <<>>
    <3>1. FlattenSeq(<<>>) = <<>>
      BY DEF FlattenSeq
    <3>. QED
      BY <2>1, <3>1, EmptyList
  <2>2. CASE q # <<>>
    <3>. DEFINE f == CHOOSE h : Joins(q, h)
    <3>1. Joins(q, f)
      <4>1. \E h : Joins(q, h)
        BY <1>5, JoinsExist
      <4>. QED
        BY <4>1
    <3>. HIDE DEF f
    <3>2. FlattenSeq(q) \in Seq(C)
      BY <1>5, <2>2, <3>1, FlattenIsLast
    <3>. QED
      BY <3>2, SeqIsList
  <2>. QED
    BY <2>1, <2>2
<1>7. Meaning(s, combo, w) = <<Number(Grouped(s), combo), Len(combo)>> \o FlattenSeq(q)
  <2>. DEFINE values(name) ==
                LET f == FeatureOf(s, name)
                    used == IF Branches(f) = <<>> THEN <<name>> ELSE IF Access(f, w) # 0 THEN f.yes ELSE f.no
                IN [k \in DOMAIN used |-> Access(FeatureOf(s, used[k]), w)]
  <2>1. ASSUME NEW name \in ToSet(Names(s)) PROVE Brings(s, name, w) = values(name)
    <3>1. FeatureOf(s, name).name = name
      BY CompiledFeature
    <3>. QED
      BY <3>1 DEF Brings, Used
  <2>2. Meaning(s, combo, w) =
          <<Number(Grouped(s), combo), Len(combo)>> \o FlattenSeq([k \in DOMAIN combo |-> values(combo[k])])
    BY DEF Meaning, FeatureOf
  <2>. HIDE DEF values, combo
  <2>3. q = [k \in DOMAIN combo |-> values(combo[k])]
    BY <1>1, <2>1
  <2>. QED
    BY <2>2, <2>3
<1>8. ASSUME NEW y, IsList(y) PROVE (<<p, Len(combo)>> \o y)[1] = p
  <2>. DEFINE x == <<p, Len(combo)>>
  <2>1. IsList(x) /\ Len(x) = 2 /\ x[1] = p
    BY DEF IsList
  <2>2. \A i \in 1 .. Len(x) : (x \o y)[i] = x[i]
    <3>. HIDE DEF x
    <3>. QED
      BY <1>8, <2>1, ListConcat
  <2>3. (x \o y)[1] = x[1]
    BY <2>1, <2>2
  <2>. QED
    BY <2>1, <2>3
<1>. HIDE DEF q, combo
<1>. QED
  BY <1>1, <1>6, <1>7, <1>8 DEF combo

\* What was compiled for the sentence.
LEMMA CompiledSpec ==
  ASSUME Chosen
  PROVE  LET s == Specs[cfg.spec]
         IN /\ s \in ToSet(Specs) /\ compiled = Compile(s)
            /\ Patterns(compiled) = DOMAIN Grouped(s)
            /\ \A p \in DOMAIN Grouped(s) : compiled.patterns[p].usage = Usage(s, Grouped(s)[p])
            /\ DOMAIN Grouped(s) = 1 .. Len(compiled.patterns) /\ Len(compiled.patterns) \in Nat
            /\ Len(compiled.patterns) = Cardinality(ToSet(Combos(s)))
            /\ compiled.numUniOnlyPats = Cardinality(OnlyUnigrams(s))
            /\ compiled.numUniOnlyPats \in Nat
<1>. DEFINE s == Specs[cfg.spec]
            q == Grouped(s)
            m == Cardinality(ToSet(Combos(s)))
<1>1. s \in ToSet(Specs) /\ compiled = Compile(s)
  BY DEF Chosen, ToSet
<1>. HIDE DEF s
<1>2. m \in Nat /\ DOMAIN q = 1 .. m /\ ToSet(q) = ToSet(Combos(s)) /\ Cardinality(OnlyUnigrams(s)) \in Nat
  BY <1>1, UnigramPatternsLast
<1>3. /\ DOMAIN compiled.patterns = DOMAIN q
      /\ compiled.patterns = [k \in DOMAIN q |-> compiled.patterns[k]]
      /\ \A k \in DOMAIN q : compiled.patterns[k].usage = Usage(s, q[k])
      /\ compiled.numUniOnlyPats = Cardinality({c \in ToSet(q) : Usage(s, c) = {1}})
  BY <1>1 DEF Compile, Compiled
<1>. HIDE DEF m, q
<1>4. Len(compiled.patterns) = m
  BY <1>2, <1>3, FunctionLength
<1>. QED
  BY <1>1, <1>2, <1>3, <1>4 DEF Patterns, OnlyUnigrams, q, m, s

\* A pattern that a longer n-gram reads is stored; with generated code that is
\* told to, any other is too.
LEMMA StoredPatterns ==
  ASSUME Chosen, NEW p \in Patterns(compiled),
         ~Static \/ cfg.storeAll \/ compiled.patterns[p].usage # {1}
  PROVE  Stores(p)
<1>. DEFINE s == Specs[cfg.spec]
<1>1. /\ s \in ToSet(Specs) /\ p \in DOMAIN Grouped(s)
      /\ compiled.patterns[p].usage = Usage(s, Grouped(s)[p])
      /\ Len(compiled.patterns) = Cardinality(ToSet(Combos(s))) /\ Len(compiled.patterns) \in Nat
      /\ compiled.numUniOnlyPats = Cardinality(OnlyUnigrams(s)) /\ compiled.numUniOnlyPats \in Nat
      /\ p \in Nat
  BY CompiledSpec
<1>. HIDE DEF s
<1>2. CASE UniOnly(compiled, p) /\ cfg.storeAll
  <2>1. Usage(s, Grouped(s)[p]) = {1}
    BY <1>1, <1>2 DEF UniOnly
  <2>2. p > Len(compiled.patterns) - compiled.numUniOnlyPats
    BY <1>1, <2>1, OnlyUnigramsBehind
  <2>3. p >= UniOnlyFirst(compiled)
    BY <1>1, <2>2 DEF UniOnlyFirst
  <2>. QED
    BY <1>2, <2>3 DEF Stores
<1>. QED
  BY <1>2 DEF Stores, UniOnly

\* The rows of the model are what the specification means.
LEMMA RowMeans ==
  ASSUME Chosen, NEW v \in NodesOf(lat), NEW p \in Patterns(compiled)
  PROVE  LET combo == Grouped(Specs[cfg.spec])[p]
         IN /\ combo \in ToSet(Combos(Specs[cfg.spec]))
            /\ FullRow(v)[p] = cfg.means[v][combo]
            /\ ~IsBos(v) => FullRow(v)[p][1] = p
            /\ Number(Grouped(Specs[cfg.spec]), combo) = p
<1>. DEFINE s == Specs[cfg.spec]
            combo == Grouped(s)[p]
            w == NodeOf(lat, v)
<1>1. s \in ToSet(Specs) /\ compiled = Compile(s) /\ p \in DOMAIN Grouped(s)
  BY CompiledSpec
<1>. HIDE DEF s
<1>2. combo \in ToSet(Combos(s)) /\ Number(Grouped(s), combo) = p
  BY <1>1, RefOfPattern
<1>3. /\ InterpretedPattern(compiled, p, w) = Meaning(s, combo, w)
      /\ GeneratedPattern(compiled, p, w) = Meaning(s, combo, w)
      /\ Meaning(s, combo, w)[1] = p
  BY <1>1, PatternsMean, MeaningStarts
<1>4. FullRow(v)[p] = IF IsBos(v) THEN BosPattern ELSE Meaning(s, combo, w)
  <2>1. FullRow(v)[p] = IF IsBos(v) THEN BosPattern
                        ELSE IF cfg.impl = "static" THEN GeneratedPattern(compiled, p, w)
                             ELSE InterpretedPattern(compiled, p, w)
    BY DEF FullRow, Rows, Chosen
  <2>. QED
    BY <1>3, <2>1
<1>5. cfg.means[v][combo] = IF IsBos(v) THEN BosPattern ELSE Meaning(s, combo, w)
  <2>1. cfg.means = Meanings(lat, s)
    BY DEF Chosen, s
  <2>. HIDE DEF combo, w
  <2>. QED
    BY <1>2, <2>1 DEF Meanings, w
<1>. HIDE DEF combo, w
<1>. QED
  BY <1>2, <1>3, <1>4, <1>5 DEF s, combo

\* The rows the processor computes at a boundary, and those the lattice comes
\* with, hold what they store.
LEMMA ComputedRows ==
  ASSUME Config, Chosen, NEW p \in Patterns(compiled), Stores(p)
  PROVE  /\ p \in 1 .. NumFeaturePatterns(compiled, Static, cfg.storeAll)
         /\ \A v : PatternRow(v)[p] = FullRow(v)[p]
<1>1. ~BehindRow
  BY NothingBehindRow
<1>2. ~(p > NumFeaturePatterns(compiled, Static, cfg.storeAll))
  BY <1>1 DEF BehindRow
<1>3. /\ p \in Nat /\ p >= 1
      /\ Len(compiled.patterns) \in Nat /\ compiled.numUniOnlyPats \in Nat
  BY CompiledSpec
<1>4. NumFeaturePatterns(compiled, Static, cfg.storeAll) \in Int
  BY <1>3 DEF NumFeaturePatterns
<1>5. p \in 1 .. NumFeaturePatterns(compiled, Static, cfg.storeAll)
  BY <1>2, <1>3, <1>4
<1>. QED
  BY <1>5 DEF PatternRow

-----------------------------------------------------------------------------
(* Which rows are there, and what the beams refer to *)

\* The rows of nodes that start before the boundary, or at it once it has been
\* started, are there; with interpreted features those the lattice came with.
Placed ==
  /\ DOMAIN patterns = NodesOf(lat)
  /\ ~Static => \A v \in NodesOf(lat) : Accessible(lat, v) \/ v = EosOf(lat) => Known(v)
  /\ Known(Bos0) /\ Known(Bos1)
  /\ Static => \A v \in NodesOf(lat) :
                 v[1] < bnd \/ (v[1] = bnd /\ phase \notin {"t0", "done"}) => Known(v)

\* The elements of a beam are elements of beams of nodes that end where this
\* one starts, and every node before the boundary has a beam.
Linked ==
  /\ Bos0 \in DOMAIN beams /\ Bos1 \in DOMAIN beams
  /\ \A v \in DOMAIN beams :
       v \in NodesOf(lat) /\ IsList(beams[v]) /\ (v[1] < bnd \/ (v[1] = bnd /\ phase = "node"))
  /\ \A v \in DOMAIN beams \ {Bos0} : \A k \in DOMAIN beams[v] :
       LET u == beams[v][k][1]
       IN u \in DOMAIN beams /\ beams[u] # <<>> /\ EndIn(lat, u) = v[1]
  /\ phase # "done" => \A v \in NodesOf(lat) : v[1] < bnd => v \in DOMAIN beams
  /\ phase = "node" => \A v \in ToSet(Row(bnd)) : v \in DOMAIN beams \/ v \in ToSet(order)

\* The nodes left to score are nodes of the boundary.
Queued ==
  /\ phase = "prescores" => order = Row(bnd)
  /\ phase = "node" => IsList(order) /\ ToSet(order) \subseteq ToSet(Row(bnd))

\* The rows copied for the global beam are those of its elements.
Copied ==
  phase \in {"prescores", "node"} =>
    /\ IsList(gb.elems) /\ Len(gb.elems) <= cfg.gbeam
    /\ IsList(gb.t1idx) /\ Len(gb.t1idx) = Len(gb.elems)
    /\ IsList(gb.t2) /\ Len(gb.t2) = Len(gb.elems)
    /\ IsList(gb.t1)
    /\ \A i \in 1 .. Len(gb.elems) :
         /\ gb.elems[i] \in Candidates(bnd)
         /\ gb.t1idx[i] \in 1 .. Len(gb.t1)
         /\ gb.t1[gb.t1idx[i]] = patterns[gb.elems[i][1]]
         /\ gb.t2[i] = patterns[Previous(gb.elems[i])[1]]

RowsInv == NgInv /\ Chosen /\ Placed /\ Linked /\ Queued /\ Copied

\* The rows interpreted features come with.
LEMMA InitialRows ==
  ASSUME Config, Chosen, patterns = InitialPatterns(cfg), NEW v \in NodesOf(lat),
         IsBos(v) \/ (~Static /\ (Accessible(lat, v) \/ v = EosOf(lat)))
  PROVE  Known(v)
<1>. SUFFICES ASSUME NEW p \in Patterns(compiled), Stores(p)
              PROVE  patterns[v][p] = FullRow(v)[p]
  BY DEF Known
<1>. DEFINE n == NumFeaturePatterns(compiled, Static, cfg.storeAll)
<1>1. p \in 1 .. n
  BY ComputedRows
<1>2. patterns[v] = [k \in 1 .. NumFeaturePatterns(cfg.model, cfg.impl = "static", cfg.storeAll) |->
          IF \/ IsBos(v)
             \/ cfg.impl = "dynamic" /\ (Accessible(cfg.lat, v) \/ v = EosOf(cfg.lat))
          THEN cfg.rows[v][k] ELSE Noise]
  BY DEF InitialPatterns, lat
<1>3. 1 .. NumFeaturePatterns(cfg.model, cfg.impl = "static", cfg.storeAll) = 1 .. n
  BY DEF Static, compiled
<1>4. cfg.impl = "dynamic" \/ IsBos(v)
  BY DEF Static, Config, Chosen
<1>. HIDE DEF n
<1>. QED
  BY <1>1, <1>2, <1>3, <1>4 DEF FullRow, lat, Static

\* A node whose beam is not empty, and a node of the boundary once some node
\* ends there, has its row.
LEMMA EndingIsReached ==
  ASSUME RowsInv, NEW u \in NodesOf(lat), NEW v \in NodesOf(lat), EndIn(lat, u) = v[1],
         v[1] < bnd \/ (v[1] = bnd /\ phase \notin {"t0", "done"})
  PROVE  Known(v)
<1>1. CASE Static
  BY <1>1 DEF RowsInv, Placed
<1>2. CASE ~Static
  <2>1. Accessible(lat, v)
    BY DEF Accessible
  <2>. QED
    BY <1>2, <2>1 DEF RowsInv, Placed
<1>. QED
  BY <1>1, <1>2

LEMMA ReachedIsKnown ==
  ASSUME RowsInv, NEW v \in DOMAIN beams, beams[v] # <<>>
  PROVE  Known(v)
<1>1. v \in NodesOf(lat) /\ IsList(beams[v]) /\ (v[1] < bnd \/ (v[1] = bnd /\ phase = "node"))
  BY DEF RowsInv, Linked
<1>2. CASE v = Bos0
  BY <1>2 DEF RowsInv, Placed
<1>3. CASE v # Bos0
  <2>1. Len(beams[v]) # 0 /\ DOMAIN beams[v] = 1 .. Len(beams[v]) /\ Len(beams[v]) \in Nat
    BY <1>1, EmptyList, ListIn
  <2>2. 1 \in DOMAIN beams[v]
    BY <2>1
  <2>3. beams[v][1][1] \in DOMAIN beams /\ EndIn(lat, beams[v][1][1]) = v[1]
    BY <1>3, <2>2 DEF RowsInv, Linked
  <2>4. beams[v][1][1] \in NodesOf(lat)
    BY <2>3 DEF RowsInv, Linked
  <2>. QED
    BY <1>1, <2>3, <2>4, EndingIsReached
<1>. QED
  BY <1>2, <1>3

\* What an element that ends at the boundary is.
LEMMA CandidateIs ==
  ASSUME RowsInv, phase # "done", NEW a \in Candidates(bnd)
  PROVE  /\ a[1] \in ToSet(Ends(bnd)) /\ a[1] \in DOMAIN beams /\ a[1] \in NodesOf(lat)
         /\ a[1] # Bos0 /\ a[1][1] < bnd /\ EndIn(lat, a[1]) = bnd
         /\ a[2] \in DOMAIN beams[a[1]] /\ beams[a[1]] # <<>>
         /\ Known(a[1])
         /\ Previous(a)[1] \in DOMAIN beams /\ Known(Previous(a)[1])
<1>1. PICK v \in ToSet(Ends(bnd)) : a \in {<<v, k>> : k \in DOMAIN beams[v]}
  BY DEF Candidates
<1>2. a[1] = v /\ a[2] \in DOMAIN beams[v]
  BY <1>1
<1>3. IsLattice(lat) /\ bnd \in Int /\ bnd >= 2
  BY LatticesAssumption DEF RowsInv, NgInv, Config, Standing
<1>4. v \in NodesOf(lat) /\ v[1] < bnd /\ EndIn(lat, v) = bnd
  <2>1. EndIn(lat, v) = bnd
    BY <1>3, EndsLists DEF EndingAt
  <2>. QED
    BY <1>3, <2>1, EndsBefore
<1>5. v \in DOMAIN beams
  BY <1>4 DEF RowsInv, Linked
<1>6. v # Bos0
  <2>1. v = Bos0 => v[1] = 0 /\ EndIn(lat, v) = v[1] + 1
    BY <1>3, <1>4, NodeShape DEF Bos0
  <2>. QED
    BY <1>3, <1>4, <2>1
<1>7. beams[v] # <<>>
  <2>1. IsList(beams[v])
    BY <1>5 DEF RowsInv, Linked
  <2>2. DOMAIN beams[v] = 1 .. Len(beams[v])
    BY <2>1, ListIn
  <2>3. Len(<<>>) = 0
    BY EmptyList
  <2>. QED
    BY <1>2, <2>2, <2>3
<1>8. Known(v)
  BY <1>5, <1>7, ReachedIsKnown
<1>9. beams[v][a[2]][1] \in DOMAIN beams /\ beams[beams[v][a[2]][1]] # <<>>
  BY <1>2, <1>5, <1>6 DEF RowsInv, Linked
<1>10. Known(beams[v][a[2]][1])
  BY <1>9, ReachedIsKnown
<1>. QED
  BY <1>1, <1>2, <1>4, <1>5, <1>6, <1>7, <1>8, <1>9, <1>10 DEF Previous

\* Candidates are finitely many, so a selection is a list of them.
LEMMA CandidatesCounted ==
  ASSUME RowsInv, phase # "done"
  PROVE  IsFiniteSet(Candidates(bnd)) /\ Cardinality(Candidates(bnd)) \in Nat
<1>1. IsLattice(lat)
  BY LatticesAssumption DEF RowsInv, NgInv, Config
<1>. DEFINE E == ToSet(Ends(bnd))
            of(v) == {<<v, k>> : k \in DOMAIN beams[v]}
            sets == {of(v) : v \in E}
<1>2. IsFiniteSet(E)
  <2>1. E \in SUBSET NodesOf(lat)
    BY <1>1, EndsBefore
  <2>. QED
    BY <1>1, <2>1, NodesFinite, FS_Subset
<1>3. ASSUME NEW v \in E PROVE IsFiniteSet(of(v))
  <2>1. v \in DOMAIN beams
    BY <1>1, EndsBefore DEF RowsInv, Linked
  <2>2. IsList(beams[v])
    BY <2>1 DEF RowsInv, Linked
  <2>3. DOMAIN beams[v] = 1 .. Len(beams[v]) /\ Len(beams[v]) \in Nat
    BY <2>2, ListIn
  <2>4. IsFiniteSet(DOMAIN beams[v])
    BY <2>3, IntervalFinite
  <2>. QED
    BY <2>4, PairsFinite
<1>4. IsFiniteSet(sets)
  <2>. DEFINE f == [v \in E |-> of(v)]
  <2>1. f \in Surjection(E, sets)
    <3>. HIDE DEF of, E
    <3>. QED
      BY DEF Surjection
  <2>. HIDE DEF f, sets, E
  <2>. QED
    BY <1>2, <2>1, FS_Surjection
<1>5. \A T \in sets : IsFiniteSet(T)
  <2>. HIDE DEF of, E
  <2>. QED
    BY <1>3
<1>6. IsFiniteSet(UNION sets)
  <2>. HIDE DEF sets
  <2>. QED
    BY <1>4, <1>5, FS_UNION
<1>7. IsFiniteSet(Candidates(bnd))
  BY <1>6, Zenon DEF Candidates
<1>. QED
  BY <1>7, FS_CardinalityType

LEMMA SelectionIs ==
  ASSUME NEW S, Cardinality(S) \in Nat, NEW k \in Nat, NEW s \in Selections(S, k)
  PROVE  /\ IsList(s) /\ Len(s) <= k
         /\ \A i \in 1 .. Len(s) : s[i] \in S
<1>. DEFINE m == Atmost(k, Cardinality(S))
<1>1. m \in Nat /\ m <= k
  BY DEF Atmost
<1>2. s \in [1 .. m -> S]
  BY DEF Selections
<1>. HIDE DEF m
<1>3. s = [i \in 1 .. m |-> s[i]]
  BY <1>2
<1>4. IsList(s) /\ Len(s) = m
  BY <1>1, <1>3, ListOf
<1>. QED
  BY <1>1, <1>2, <1>4

LEMMA RowsKept ==
  ASSUME UNCHANGED <<cfg, patterns>>
  PROVE  /\ Chosen => Chosen'
         /\ \A v : Known(v) <=> Known(v)'
<1>1. lat' = lat /\ compiled' = compiled /\ (Static <=> Static') /\ cfg' = cfg
  BY SameSettings
<1>2. Chosen => Chosen'
  BY <1>1 DEF Chosen
<1>3. ASSUME NEW v PROVE Known(v) <=> Known(v)'
  <2>1. \A p : (Stores(p) <=> Stores(p)') /\ FullRow(v)' = FullRow(v)
    BY <1>1 DEF Stores, FullRow
  <2>. QED
    BY <1>1, <2>1 DEF Known
<1>. QED
  BY <1>2, <1>3

\* Nothing changes about the rows while neither they nor the boundary do.
LEMMA PlacedStays ==
  ASSUME Placed, UNCHANGED <<cfg, patterns, bnd>>, phase \notin {"t0", "done"}
  PROVE  Placed'
<1>1. lat' = lat /\ (Static <=> Static')
  BY SameSettings
<1>. QED
  BY <1>1, RowsKept DEF Placed

\* When the nodes of the boundary have their beams, the next one may come.
LEMMA PlacedNext ==
  ASSUME RowsInv, NextBoundary, UNCHANGED <<cfg, patterns>>,
         phase # "done", phase = "t0" => Row(bnd) = <<>>
  PROVE  Placed'
<1>1. lat' = lat /\ (Static <=> Static') /\ bnd' = bnd + 1
  BY SameSettings DEF NextBoundary
<1>2. IsLattice(lat) /\ bnd \in 2 .. lat.n + 2
  BY LatticesAssumption DEF RowsInv, NgInv, Config, Standing
<1>3. ASSUME Static, NEW v \in NodesOf(lat), v[1] < bnd' \/ (v[1] = bnd' /\ phase' \notin {"t0", "done"})
      PROVE  Known(v)
  <2>1. phase' \in {"t0", "done"}
    BY DEF NextBoundary
  <2>2. v[1] \in Int
    BY <1>2, NodeShape
  <2>3. v[1] < bnd \/ v[1] = bnd
    BY <1>1, <1>2, <1>3, <2>1, <2>2
  <2>4. phase = "t0" => v[1] # bnd
    <3>. SUFFICES ASSUME phase = "t0", v[1] = bnd PROVE FALSE
      OBVIOUS
    <3>1. v \in ToSet(Row(bnd))
      BY <1>2, RowLists DEF RowOf
    <3>2. ToSet(<<>>) = {}
      BY DEF ToSet
    <3>. QED
      BY <3>1, <3>2
  <2>. QED
    BY <1>3, <2>3, <2>4 DEF RowsInv, Placed
<1>4. Known(Bos0)' /\ Known(Bos1)'
  BY RowsKept DEF RowsInv, Placed
<1>5. DOMAIN patterns' = NodesOf(lat')
  BY <1>1 DEF RowsInv, Placed
<1>6. Static => \A v \in NodesOf(lat) : v[1] < bnd' \/ (v[1] = bnd' /\ phase' \notin {"t0", "done"}) => Known(v)'
  BY <1>3, RowsKept
<1>7. ~Static => \A v \in NodesOf(lat) : Accessible(lat, v) \/ v = EosOf(lat) => Known(v)'
  BY RowsKept DEF RowsInv, Placed
<1>. QED
  BY <1>1, <1>4, <1>5, <1>6, <1>7 DEF Placed

\* The elements that end at the boundary do not depend on beams of nodes that
\* start there.
LEMMA SameCandidates ==
  ASSUME RowsInv, phase # "done", UNCHANGED <<cfg, bnd>>,
         \A v \in DOMAIN beams : v[1] < bnd => beams'[v] = beams[v]
  PROVE  /\ Candidates(bnd)' = Candidates(bnd)
         /\ \A a \in Candidates(bnd) : Previous(a)' = Previous(a)
<1>1. Ends(bnd)' = Ends(bnd)
  BY RowsStay
<1>2. IsLattice(lat)
  BY LatticesAssumption DEF RowsInv, NgInv, Config
<1>3. \A v \in ToSet(Ends(bnd)) : v \in DOMAIN beams /\ beams'[v] = beams[v]
  <2>1. ASSUME NEW v \in ToSet(Ends(bnd)) PROVE v \in DOMAIN beams /\ beams'[v] = beams[v]
    <3>1. v \in NodesOf(lat) /\ v[1] < bnd
      BY <1>2, EndsBefore
    <3>2. v \in DOMAIN beams
      BY <3>1 DEF RowsInv, Linked
    <3>. QED
      BY <3>1, <3>2
  <2>. QED
    BY <2>1
<1>4. Candidates(bnd)' = Candidates(bnd)
  <2>. DEFINE E == ToSet(Ends(bnd))
  <2>1. Candidates(bnd)' = UNION {{<<v, k>> : k \in DOMAIN beams'[v]} : v \in E}
    BY <1>1 DEF Candidates
  <2>2. Candidates(bnd) = UNION {{<<v, k>> : k \in DOMAIN beams[v]} : v \in E}
    BY DEF Candidates
  <2>. HIDE DEF E
  <2>3. \A v \in E : beams'[v] = beams[v]
    BY <1>3 DEF E
  <2>. QED
    BY <2>1, <2>2, <2>3
<1>5. ASSUME NEW a \in Candidates(bnd) PROVE Previous(a)' = Previous(a)
  <2>1. a[1] \in ToSet(Ends(bnd))
    BY CandidateIs
  <2>. QED
    BY <1>3, <2>1 DEF Previous
<1>. QED
  BY <1>4, <1>5

LEMMA InitRows == Init => RowsInv
<1>. SUFFICES ASSUME Init PROVE RowsInv
  OBVIOUS
<1>1. PICK l \in Lattices, i \in DOMAIN Specs, impl \in Impls, gbeam \in GlobalBeams,
           check \in RightChecks, storeAll \in BOOLEAN :
        cfg = [lat |-> l, spec |-> i, impl |-> impl, gbeam |-> gbeam, check |-> check,
               storeAll |-> storeAll, model |-> Compile(Specs[i]),
               rows |-> Rows(l, Compile(Specs[i]), impl), means |-> Meanings(l, Specs[i])]
  BY DEF Init
<1>2. NgInv
  BY InitNg
<1>3. Chosen
  <2>1. /\ cfg.spec = i /\ lat = l /\ compiled = Compile(Specs[i]) /\ cfg.impl = impl
        /\ cfg.rows = Rows(l, Compile(Specs[i]), impl) /\ cfg.means = Meanings(l, Specs[i])
        /\ cfg.storeAll = storeAll
    BY <1>1 DEF lat, compiled
  <2>2. impl \in {"static", "dynamic"}
    BY SizesAssumption
  <2>. QED
    BY <2>1, <2>2 DEF Chosen
<1>4. IsLattice(lat) /\ lat.n \in Nat
  BY <1>2, LatticesAssumption DEF NgInv, Config, IsLattice
<1>5. /\ phase = IF lat.n = 0 THEN "done" ELSE "t0"
      /\ bnd = 2 /\ patterns = InitialPatterns(cfg)
      /\ beams = [v \in {Bos0, Bos1} |-> IF v = Bos0 THEN <<<<<<0, 0>>, 0>>>> ELSE <<<<Bos0, 1>>>>]
  BY DEF Init, lat
<1>6. \A v \in NodesOf(lat) : v[1] < 2 => v \in {Bos0, Bos1}
  <2>1. ASSUME NEW v \in NodesOf(lat), v[1] < 2 PROVE v \in {Bos0, Bos1}
    <3>1. v[1] \in 0 .. lat.n + 2
      BY <1>4, NodeShape
    <3>2. v[1] = 0 \/ v[1] = 1
      BY <1>4, <2>1, <3>1
    <3>. QED
      BY <1>4, <3>2, NodeByStart
  <2>. QED
    BY <2>1
<1>7. Bos0 \in NodesOf(lat) /\ Bos1 \in NodesOf(lat)
  BY DEF NodesOf
<1>8. Placed
  <2>1. Known(Bos0) /\ Known(Bos1)
    BY <1>2, <1>3, <1>5, <1>7, InitialRows DEF NgInv, IsBos
  <2>2. DOMAIN patterns = NodesOf(lat)
    BY <1>5 DEF InitialPatterns, lat
  <2>3. phase \in {"t0", "done"}
    BY <1>5
  <2>4. ~Static => \A v \in NodesOf(lat) : Accessible(lat, v) \/ v = EosOf(lat) => Known(v)
    BY <1>2, <1>3, <1>5, InitialRows DEF NgInv
  <2>. QED
    BY <1>5, <1>6, <2>1, <2>2, <2>3, <2>4 DEF Placed
<1>9. Linked
  <2>1. DOMAIN beams = {Bos0, Bos1} /\ Bos0 # Bos1 /\ Bos0[1] = 0 /\ Bos1[1] = 1
    BY <1>5 DEF Bos0, Bos1
  <2>2. beams[Bos0] = <<<<<<0, 0>>, 0>>>> /\ beams[Bos1] = <<<<Bos0, 1>>>>
    BY <1>5 DEF Bos0, Bos1
  <2>3. \A x : IsList(<<x>>) /\ Len(<<x>>) = 1 /\ <<x>>[1] = x
    BY DEF IsList
  <2>4. IsList(beams[Bos0]) /\ IsList(beams[Bos1])
    BY <2>2, <2>3
  <2>5. DOMAIN beams[Bos1] = {1} /\ beams[Bos1][1][1] = Bos0
    BY <2>2
  <2>6. beams[Bos0] # <<>>
    BY <2>2, <2>3, EmptyList
  <2>7. EndIn(lat, Bos0) = 1
    BY <1>4, <1>7, <2>1, NodeShape
  <2>8. phase # "node"
    BY <1>5
  <2>. QED
    BY <1>5, <1>6, <1>7, <2>1, <2>4, <2>5, <2>6, <2>7, <2>8 DEF Linked
<1>10. Queued /\ Copied
  BY <1>5 DEF Queued, Copied
<1>. QED
  BY <1>2, <1>3, <1>8, <1>9, <1>10 DEF RowsInv

\* Steps within a boundary that leave rows, beams and global beam alone.
LEMMA QuietKeepsRows ==
  ASSUME RowsInv, UNCHANGED <<cfg, bnd, patterns, beams, order, gb>>,
         phase \notin {"t0", "done"}, phase' \notin {"t0", "done"},
         phase' = phase \/ (phase \notin {"prescores", "node"} /\ phase' \notin {"prescores", "node"})
  PROVE  Chosen' /\ Placed' /\ Linked' /\ Queued' /\ Copied'
<1>1. lat' = lat /\ Row(bnd)' = Row(bnd) /\ (phase' = "node" <=> phase = "node")
  BY SameSettings, RowsStay
<1>2. Chosen'
  BY RowsKept DEF RowsInv
<1>3. Placed'
  BY PlacedStays DEF RowsInv
<1>4. Linked'
  BY <1>1 DEF RowsInv, Linked
<1>5. Queued'
  BY <1>1 DEF RowsInv, Queued
<1>6. Copied'
  <2>1. Candidates(bnd)' = Candidates(bnd) /\ \A a \in Candidates(bnd) : Previous(a)' = Previous(a)
    BY SameCandidates
  <2>. QED
    BY <2>1 DEF RowsInv, Copied
<1>. QED
  BY <1>2, <1>3, <1>4, <1>5, <1>6

\* Going on to the next boundary with the beams as they are.
LEMMA NextKeepsRows ==
  ASSUME RowsInv, NextBoundary, UNCHANGED <<cfg, patterns, beams>>,
         phase # "done", phase = "t0" => Row(bnd) = <<>>,
         \A v \in ToSet(Row(bnd)) : v \in DOMAIN beams
  PROVE  Chosen' /\ Placed' /\ Linked' /\ Queued' /\ Copied'
<1>1. lat' = lat /\ bnd' = bnd + 1 /\ phase' \in {"t0", "done"}
  BY SameSettings DEF NextBoundary
<1>2. IsLattice(lat) /\ bnd \in 2 .. lat.n + 2
  BY LatticesAssumption DEF RowsInv, NgInv, Config, Standing
<1>3. ToSet(Row(bnd)) = RowOf(lat, bnd)
  BY <1>2, RowLists
<1>4. Linked'
  <2>1. ASSUME NEW v \in NodesOf(lat), v[1] < bnd' PROVE v \in DOMAIN beams
    <3>1. v[1] \in Int
      BY <1>2, NodeShape
    <3>2. v[1] < bnd \/ v \in RowOf(lat, bnd)
      BY <1>1, <1>2, <2>1, <3>1 DEF RowOf
    <3>. QED
      BY <1>3, <3>2 DEF RowsInv, Linked
  <2>2. ASSUME NEW v \in DOMAIN beams PROVE v[1] < bnd'
    <3>1. v[1] \in Int /\ (v[1] < bnd \/ v[1] = bnd)
      BY <1>2, NodeShape DEF RowsInv, Linked
    <3>. QED
      BY <1>1, <1>2, <3>1
  <2>. QED
    BY <1>1, <2>1, <2>2 DEF RowsInv, Linked
<1>5. Queued' /\ Copied'
  BY <1>1 DEF Queued, Copied
<1>. QED
  BY <1>4, <1>5, PlacedNext, RowsKept DEF RowsInv

LEMMA StartKeepsRows ==
  ASSUME RowsInv, ApplyT0 \/ ComputeT0All
  PROVE  Chosen' /\ Placed' /\ Linked' /\ Queued' /\ Copied'
<1>1. /\ phase = "t0" /\ UNCHANGED <<cfg, bnd, beams, gb, order>>
      /\ phase' \in {"gbeam", "t1"}
  BY DEF ApplyT0, ComputeT0All, StartBoundary
<1>2. lat' = lat /\ compiled' = compiled /\ (Static <=> Static') /\ Chosen'
  BY <1>1, SameSettings DEF Chosen, RowsInv
<1>3. IsLattice(lat) /\ bnd \in 2 .. lat.n + 2
  BY <1>1, LatticesAssumption DEF RowsInv, NgInv, Config, Standing
<1>4. Linked'
  BY <1>1, <1>2 DEF RowsInv, Linked
<1>5. Queued' /\ Copied'
  BY <1>1 DEF Queued, Copied
<1>6. \A p : (Stores(p) <=> Stores(p)') /\ \A v : FullRow(v)' = FullRow(v)
  BY <1>1, <1>2 DEF Stores, FullRow
<1>7. ASSUME NEW v, Known(v), patterns'[v] = patterns[v] PROVE Known(v)'
  BY <1>2, <1>6, <1>7 DEF Known
<1>8. CASE ApplyT0
  <2>1. UNCHANGED patterns /\ ~Static
    BY <1>8 DEF ApplyT0
  <2>. QED
    BY <1>2, <1>4, <1>5, <1>7, <2>1 DEF RowsInv, Placed
<1>9. CASE ComputeT0All
  <2>1. Static /\ patterns' = [v \in DOMAIN patterns |-> IF v[1] = bnd THEN PatternRow(v) ELSE patterns[v]]
    BY <1>9 DEF ComputeT0All
  <2>2. DOMAIN patterns = NodesOf(lat)
    BY DEF RowsInv, Placed
  <2>3. ASSUME NEW v \in NodesOf(lat), v[1] < bnd \/ v[1] = bnd PROVE Known(v)'
    <3>1. CASE v[1] = bnd
      <4>1. patterns'[v] = PatternRow(v)
        BY <2>1, <2>2, <3>1
      <4>2. \A p \in Patterns(compiled) : Stores(p) => PatternRow(v)[p] = FullRow(v)[p]
        BY ComputedRows DEF RowsInv, NgInv
      <4>. QED
        BY <1>2, <1>6, <4>1, <4>2 DEF Known
    <3>2. CASE v[1] < bnd
      <4>1. v[1] \in Int
        BY <1>3, NodeShape
      <4>2. v[1] # bnd
        BY <1>3, <3>2, <4>1
      <4>3. patterns'[v] = patterns[v]
        BY <2>1, <2>2, <4>2
      <4>. QED
        BY <1>7, <2>1, <3>2, <4>3 DEF RowsInv, Placed
    <3>. QED
      BY <2>3, <3>1, <3>2
  <2>4. Bos0 \in NodesOf(lat) /\ Bos1 \in NodesOf(lat) /\ Bos0[1] < bnd /\ Bos1[1] < bnd
    BY <1>3 DEF NodesOf, Bos0, Bos1
  <2>5. Known(Bos0)' /\ Known(Bos1)'
    BY <2>3, <2>4
  <2>6. DOMAIN patterns' = NodesOf(lat)
    BY <2>1, <2>2
  <2>7. Placed'
    BY <1>1, <1>2, <2>1, <2>3, <2>5, <2>6 DEF Placed
  <2>. QED
    BY <1>2, <1>4, <1>5, <2>7
<1>. QED
  BY <1>8, <1>9

\* New beams for nodes of the boundary, of elements that end there.
LEMMA LinkedGrows ==
  ASSUME RowsInv, phase \notin {"t0", "done"}, NEW f, DOMAIN f \subseteq ToSet(Row(bnd)),
         beams' = Merge(f, beams),
         \A v \in DOMAIN f : IsList(f[v]) /\ \A k \in 1 .. Len(f[v]) : f[v][k] \in Candidates(bnd)
  PROVE  /\ DOMAIN beams' = DOMAIN f \cup DOMAIN beams
         /\ \A v \in DOMAIN beams' :
              v \in NodesOf(lat) /\ IsList(beams'[v]) /\ (v[1] < bnd \/ v[1] = bnd)
         /\ \A v \in DOMAIN beams' \ {Bos0} : \A k \in DOMAIN beams'[v] :
              LET u == beams'[v][k][1]
              IN u \in DOMAIN beams' /\ beams'[u] # <<>> /\ EndIn(lat, u) = v[1]
         /\ \A v \in DOMAIN beams : v[1] < bnd => beams'[v] = beams[v]
<1>1. IsLattice(lat) /\ bnd \in 2 .. lat.n + 2
  BY LatticesAssumption DEF RowsInv, NgInv, Config, Standing
<1>2. /\ DOMAIN beams' = DOMAIN f \cup DOMAIN beams
      /\ \A v \in DOMAIN f : beams'[v] = f[v]
      /\ \A v \in DOMAIN beams : v \notin DOMAIN f => beams'[v] = beams[v]
  <2>1. /\ DOMAIN Merge(f, beams) = DOMAIN f \cup DOMAIN beams
        /\ \A x \in DOMAIN f : Merge(f, beams)[x] = f[x]
        /\ \A x \in DOMAIN beams : x \notin DOMAIN f => Merge(f, beams)[x] = beams[x]
    BY MergedKeys
  <2>. QED
    BY <2>1, Zenon
<1>3. \A v \in DOMAIN f : v \in NodesOf(lat) /\ v[1] = bnd
  <2>1. ToSet(Row(bnd)) = RowOf(lat, bnd)
    BY <1>1, RowLists
  <2>. QED
    BY <2>1 DEF RowOf
<1>4. ASSUME NEW v \in DOMAIN beams, v[1] < bnd PROVE beams'[v] = beams[v]
  BY <1>1, <1>2, <1>3, <1>4
<1>5. \A v \in DOMAIN beams :
        v \in NodesOf(lat) /\ IsList(beams[v]) /\ (v[1] < bnd \/ v[1] = bnd)
  BY DEF RowsInv, Linked
<1>6. ASSUME NEW v \in DOMAIN beams'
      PROVE  v \in NodesOf(lat) /\ IsList(beams'[v]) /\ (v[1] < bnd \/ v[1] = bnd)
  BY <1>2, <1>3, <1>5
<1>7. ASSUME NEW v \in DOMAIN beams' \ {Bos0}, NEW k \in DOMAIN beams'[v]
      PROVE  LET u == beams'[v][k][1]
             IN u \in DOMAIN beams' /\ beams'[u] # <<>> /\ EndIn(lat, u) = v[1]
  <2>. DEFINE u == beams'[v][k][1]
  <2>. SUFFICES u \in DOMAIN beams' /\ beams'[u] # <<>> /\ EndIn(lat, u) = v[1]
    OBVIOUS
  <2>1. CASE v \in DOMAIN f
    <3>1. k \in 1 .. Len(f[v])
      BY <1>2, <2>1, ListIn
    <3>2. f[v][k] \in Candidates(bnd) /\ u = f[v][k][1] /\ v[1] = bnd
      BY <1>2, <1>3, <2>1, <3>1
    <3>3. u \in DOMAIN beams /\ u[1] < bnd /\ EndIn(lat, u) = bnd /\ beams[u] # <<>>
      BY <3>2, CandidateIs
    <3>. HIDE DEF u
    <3>. QED
      BY <1>2, <1>4, <3>2, <3>3
  <2>2. CASE v \notin DOMAIN f
    <3>1. v \in DOMAIN beams \ {Bos0} /\ beams'[v] = beams[v]
      BY <1>2, <2>2
    <3>2. u \in DOMAIN beams /\ beams[u] # <<>> /\ EndIn(lat, u) = v[1]
      BY <3>1 DEF RowsInv, Linked
    <3>. HIDE DEF u
    <3>3. u \in NodesOf(lat) /\ v \in NodesOf(lat)
      BY <1>5, <3>1, <3>2
    <3>4. v[1] \in Int /\ u[1] \in Int /\ u[1] < v[1]
      BY <1>1, <3>2, <3>3, NodeShape
    <3>5. u[1] < bnd
      BY <1>1, <1>5, <3>1, <3>4
    <3>. QED
      BY <1>2, <1>4, <3>2, <3>5
  <2>. QED
    BY <2>1, <2>2
<1>. QED
  BY <1>2, <1>4, <1>6, <1>7

LEMMA MakeBeamsKeepsRows ==
  ASSUME RowsInv, MakeBeams
  PROVE  Chosen' /\ Placed' /\ Linked' /\ Queued' /\ Copied'
<1>1. phase = "t1" /\ NextBoundary /\ UNCHANGED <<cfg, patterns>>
  BY DEF MakeBeams
<1>2. lat' = lat /\ bnd' = bnd + 1 /\ phase' \in {"t0", "done"}
  BY <1>1, SameSettings DEF NextBoundary
<1>3. IsLattice(lat) /\ bnd \in 2 .. lat.n + 2
  BY <1>1, LatticesAssumption DEF RowsInv, NgInv, Config, Standing
<1>4. PICK f \in [ToSet(Row(bnd)) -> Selections(Candidates(bnd), BeamSize)] : beams' = Merge(f, beams)
  BY DEF MakeBeams
<1>5. \A v \in DOMAIN f : IsList(f[v]) /\ \A k \in 1 .. Len(f[v]) : f[v][k] \in Candidates(bnd)
  <2>1. Cardinality(Candidates(bnd)) \in Nat /\ BeamSize \in Nat
    BY <1>1, CandidatesCounted, SizesAssumption
  <2>2. \A s \in Selections(Candidates(bnd), BeamSize) :
          IsList(s) /\ \A i \in 1 .. Len(s) : s[i] \in Candidates(bnd)
    BY <2>1, SelectionIs
  <2>. QED
    BY <2>2
<1>6. DOMAIN f = ToSet(Row(bnd))
  OBVIOUS
<1>7. /\ DOMAIN beams' = DOMAIN f \cup DOMAIN beams
      /\ \A v \in DOMAIN beams' :
           v \in NodesOf(lat) /\ IsList(beams'[v]) /\ (v[1] < bnd \/ v[1] = bnd)
      /\ \A v \in DOMAIN beams' \ {Bos0} : \A k \in DOMAIN beams'[v] :
           LET u == beams'[v][k][1]
           IN u \in DOMAIN beams' /\ beams'[u] # <<>> /\ EndIn(lat, u) = v[1]
  BY <1>1, <1>4, <1>5, <1>6, LinkedGrows
<1>8. ToSet(Row(bnd)) = RowOf(lat, bnd)
  BY <1>3, RowLists
<1>9. Linked'
  <2>1. ASSUME NEW v \in NodesOf(lat), v[1] < bnd' PROVE v \in DOMAIN beams'
    <3>1. v[1] \in Int
      BY <1>3, NodeShape
    <3>2. v[1] < bnd \/ v \in RowOf(lat, bnd)
      BY <1>2, <1>3, <2>1, <3>1 DEF RowOf
    <3>. QED
      BY <1>1, <1>6, <1>7, <1>8, <3>2 DEF RowsInv, Linked
  <2>2. ASSUME NEW v \in DOMAIN beams' PROVE v[1] < bnd'
    <3>1. v[1] \in Int /\ (v[1] < bnd \/ v[1] = bnd)
      BY <1>3, <1>7, NodeShape
    <3>. QED
      BY <1>2, <1>3, <3>1
  <2>3. Bos0 \in DOMAIN beams' /\ Bos1 \in DOMAIN beams'
    BY <1>7 DEF RowsInv, Linked
  <2>4. phase' # "node"
    BY <1>2
  <2>. QED
    BY <1>2, <1>7, <2>1, <2>2, <2>3, <2>4 DEF Linked
<1>10. Queued' /\ Copied'
  BY <1>2 DEF Queued, Copied
<1>. QED
  BY <1>1, <1>9, <1>10, PlacedNext, RowsKept DEF RowsInv

\* dedupT1 finds for every element the row of its node.
LEMMA GatheredIs ==
  ASSUME NEW g, IsList(g)
  PROVE  LET made == Gathered(g)
         IN /\ made.elems = g /\ IsList(made.t1)
            /\ IsList(made.t1idx) /\ Len(made.t1idx) = Len(g)
            /\ IsList(made.t2) /\ Len(made.t2) = Len(g)
            /\ \A i \in 1 .. Len(g) :
                 /\ made.t1idx[i] \in 1 .. Len(made.t1)
                 /\ made.t1[made.t1idx[i]] = patterns[g[i][1]]
                 /\ made.t2[i] = patterns[Previous(g[i])[1]]
<1>. DEFINE nodes == [i \in DOMAIN g |-> g[i][1]]
            t1 == Distinct(nodes)
            made == Gathered(g)
            C == {g[i][1] : i \in DOMAIN g}
            m == Len(g)
<1>1. DOMAIN g = 1 .. m /\ m \in Nat
  BY ListIn
<1>. HIDE DEF m
<1>2. nodes \in Seq(C) /\ DOMAIN nodes = 1 .. m
  <2>1. nodes \in [1 .. m -> C]
    BY <1>1
  <2>. HIDE DEF nodes, C
  <2>. QED
    BY <1>1, <2>1
<1>3. t1 \in Seq(C) /\ ToSet(t1) = ToSet(nodes)
  <2>. HIDE DEF nodes, C
  <2>. QED
    BY <1>2, DistinctKeeps
<1>4. IsList(t1) /\ DOMAIN t1 = 1 .. Len(t1) /\ Len(t1) \in Nat
  <2>. HIDE DEF nodes, C, t1
  <2>. QED
    BY <1>3, SeqIsList
<1>5. /\ made.elems = g
      /\ made.t1idx = [i \in DOMAIN g |-> CHOOSE j \in DOMAIN t1 : t1[j] = g[i][1]]
      /\ made.t1 = [j \in DOMAIN t1 |-> patterns[t1[j]]]
      /\ made.t2 = [i \in DOMAIN g |-> patterns[Previous(g[i])[1]]]
  BY DEF Gathered
<1>. HIDE DEF t1, made
<1>6. ASSUME NEW i \in 1 .. m
      PROVE  made.t1idx[i] \in DOMAIN t1 /\ t1[made.t1idx[i]] = g[i][1]
  <2>1. nodes[i] \in ToSet(nodes) /\ nodes[i] = g[i][1]
    BY <1>1, <1>2 DEF ToSet
  <2>2. \E j \in DOMAIN t1 : t1[j] = g[i][1]
    <3>1. g[i][1] \in ToSet(t1)
      BY <1>3, <2>1
    <3>. QED
      BY <3>1 DEF ToSet
  <2>3. made.t1idx[i] = CHOOSE j \in DOMAIN t1 : t1[j] = g[i][1]
    BY <1>1, <1>5
  <2>. QED
    BY <2>2, <2>3
<1>7. IsList(made.t1) /\ Len(made.t1) = Len(t1)
  <2>1. made.t1 = [j \in 1 .. Len(t1) |-> made.t1[j]]
    BY <1>4, <1>5
  <2>. QED
    BY <1>4, <2>1, ListOf
<1>8. IsList(made.t1idx) /\ Len(made.t1idx) = m
  <2>1. made.t1idx = [i \in 1 .. m |-> made.t1idx[i]]
    BY <1>1, <1>5
  <2>. QED
    BY <1>1, <2>1, ListOf
<1>9. IsList(made.t2) /\ Len(made.t2) = m
  <2>1. made.t2 = [i \in 1 .. m |-> made.t2[i]]
    BY <1>1, <1>5
  <2>. QED
    BY <1>1, <2>1, ListOf
<1>10. ASSUME NEW i \in 1 .. m
       PROVE  /\ made.t1idx[i] \in 1 .. Len(made.t1)
              /\ made.t1[made.t1idx[i]] = patterns[g[i][1]]
              /\ made.t2[i] = patterns[Previous(g[i])[1]]
  <2>1. made.t1[made.t1idx[i]] = patterns[t1[made.t1idx[i]]]
    BY <1>5, <1>6
  <2>2. made.t2[i] = patterns[Previous(g[i])[1]]
    BY <1>1, <1>5
  <2>. QED
    BY <1>4, <1>6, <1>7, <2>1, <2>2
<1>. QED
  BY <1>5, <1>7, <1>8, <1>9, <1>10 DEF made, m

LEMMA GlobalBeamKeepsRows ==
  ASSUME RowsInv, MakeGlobalBeam
  PROVE  Chosen' /\ Placed' /\ Linked' /\ Queued' /\ Copied'
<1>1. /\ phase = "gbeam" /\ UNCHANGED <<cfg, bnd, patterns, beams>>
      /\ phase' \in {"prescores", "node"} /\ order' = Row(bnd)
  BY DEF MakeGlobalBeam
<1>2. lat' = lat /\ Row(bnd)' = Row(bnd) /\ IsLattice(lat)
  BY <1>1, SameSettings, RowsStay, LatticesAssumption DEF RowsInv, NgInv, Config
<1>3. PICK g \in Selections(Candidates(bnd), cfg.gbeam) : gb' = Gathered(g)
  BY DEF MakeGlobalBeam
<1>4. /\ IsList(g) /\ Len(g) <= cfg.gbeam
      /\ \A i \in 1 .. Len(g) : g[i] \in Candidates(bnd)
  <2>1. Cardinality(Candidates(bnd)) \in Nat /\ cfg.gbeam \in Nat
    BY <1>1, CandidatesCounted DEF RowsInv, NgInv, Config
  <2>. QED
    BY <2>1, SelectionIs
<1>5. IsList(Row(bnd))
  <2>. DEFINE k == Cardinality(RowOf(lat, bnd))
  <2>1. Row(bnd) = [i \in 1 .. k |-> <<bnd, i>>] /\ DOMAIN Row(bnd) = 1 .. Len(Row(bnd)) /\ Len(Row(bnd)) \in Nat
    BY <1>2, RowLists DEF Row
  <2>. HIDE DEF k
  <2>2. Row(bnd) = [i \in 1 .. Len(Row(bnd)) |-> Row(bnd)[i]]
    BY <2>1
  <2>. QED
    BY <2>1, <2>2 DEF IsList
<1>6. Queued'
  BY <1>1, <1>2, <1>5 DEF Queued
<1>7. Linked'
  <2>1. phase' = "node" => \A v \in ToSet(Row(bnd)) : v \in ToSet(order')
    BY <1>1
  <2>. QED
    BY <1>1, <1>2, <2>1 DEF RowsInv, Linked
<1>8. Copied'
  <2>1. Candidates(bnd)' = Candidates(bnd) /\ \A a \in Candidates(bnd) : Previous(a)' = Previous(a)
    BY <1>1, SameCandidates
  <2>2. /\ gb'.elems = g /\ IsList(gb'.t1)
        /\ IsList(gb'.t1idx) /\ Len(gb'.t1idx) = Len(g)
        /\ IsList(gb'.t2) /\ Len(gb'.t2) = Len(g)
        /\ \A i \in 1 .. Len(g) :
             /\ gb'.t1idx[i] \in 1 .. Len(gb'.t1)
             /\ gb'.t1[gb'.t1idx[i]] = patterns[g[i][1]]
             /\ gb'.t2[i] = patterns[Previous(g[i])[1]]
    BY <1>3, <1>4, GatheredIs
  <2>. QED
    BY <1>1, <1>4, <2>1, <2>2 DEF Copied
<1>. QED
  BY <1>1, <1>6, <1>7, <1>8, PlacedStays, RowsKept DEF RowsInv

\* An order in which the nodes to keep come first holds all of them.
LEMMA CutoffKeepsRows ==
  ASSUME RowsInv, MakeT0cutoffBeam
  PROVE  Chosen' /\ Placed' /\ Linked' /\ Queued' /\ Copied'
<1>1. /\ phase = "prescores" /\ phase' = "node" /\ UNCHANGED <<cfg, bnd, patterns, beams, gb>>
      /\ order = Row(bnd)
  BY DEF MakeT0cutoffBeam, RowsInv, Queued
<1>2. lat' = lat /\ Row(bnd)' = Row(bnd) /\ IsLattice(lat)
  BY <1>1, SameSettings, RowsStay, LatticesAssumption DEF RowsInv, NgInv, Config
<1>. DEFINE q == Row(bnd)
            m == Len(q)
<1>3. DOMAIN q = 1 .. m /\ m \in Nat /\ q = [i \in 1 .. m |-> q[i]]
  <2>. DEFINE k == Cardinality(RowOf(lat, bnd))
  <2>1. q = [i \in 1 .. k |-> <<bnd, i>>] /\ DOMAIN q = 1 .. m /\ m \in Nat
    BY <1>2, RowLists DEF Row
  <2>. HIDE DEF k, m, q
  <2>. QED
    BY <2>1
<1>4. order' = order \/ (order' \in [DOMAIN order -> ToSet(order)] /\ IsInjective(order'))
  BY DEF MakeT0cutoffBeam
<1>. HIDE DEF q, m
<1>5. IsList(order') /\ ToSet(order') = ToSet(q)
  <2>1. CASE order' = order
    BY <1>1, <1>3, <2>1 DEF IsList, q, m
  <2>2. CASE order' \in [DOMAIN order -> ToSet(order)] /\ IsInjective(order')
    <3>1. order' \in [1 .. m -> ToSet(q)]
      BY <1>1, <1>3, <2>2 DEF q
    <3>2. order' \in Injection(1 .. m, ToSet(q))
      <4>1. \A i, j \in 1 .. m : order'[i] = order'[j] => i = j
        BY <2>2, <3>1 DEF IsInjective
      <4>. QED
        BY <3>1, <4>1 DEF Injection, IsInjective
    <3>3. IsFiniteSet(1 .. m) /\ Cardinality(1 .. m) = m
      <4>1. IsFiniteSet(1 .. m) /\ Cardinality(1 .. m) = IF 1 > m THEN 0 ELSE m - 1 + 1
        BY <1>3, FS_Interval
      <4>. QED
        BY <1>3, <4>1
    <3>4. q \in Surjection(1 .. m, ToSet(q)) /\ q \in Injection(1 .. m, ToSet(q))
      <4>1. q \in [1 .. m -> ToSet(q)]
        BY <1>3 DEF ToSet
      <4>2. \A i, j \in 1 .. m : q[i] = q[j] => i = j
        <5>1. \A i \in 1 .. m : q[i] = <<bnd, i>>
          BY <1>3 DEF q, Row
        <5>. QED
          BY <5>1
      <4>3. \A x \in ToSet(q) : \E i \in 1 .. m : q[i] = x
        BY <1>3 DEF ToSet
      <4>. QED
        BY <4>1, <4>2, <4>3 DEF Surjection, Injection, IsInjective
    <3>5. IsFiniteSet(ToSet(q)) /\ Cardinality(ToSet(q)) = m
      BY <3>3, <3>4, FS_Surjection
    <3>6. order' \in Surjection(1 .. m, ToSet(q))
      BY <3>2, <3>3, <3>5, FS_Injection
    <3>7. \A x \in ToSet(q) : \E i \in 1 .. m : order'[i] = x
      BY <3>6 DEF Surjection
    <3>8. DOMAIN order' = 1 .. m /\ order' = [i \in 1 .. m |-> order'[i]]
      BY <3>1
    <3>9. IsList(order')
      BY <1>3, <3>8, ListOf
    <3>. QED
      BY <3>1, <3>7, <3>8, <3>9 DEF ToSet
  <2>. QED
    BY <1>4, <2>1, <2>2
<1>6. Queued'
  BY <1>1, <1>2, <1>5 DEF Queued, q
<1>7. Linked'
  BY <1>1, <1>2, <1>5 DEF RowsInv, Linked, q
<1>8. Copied'
  <2>1. Candidates(bnd)' = Candidates(bnd) /\ \A a \in Candidates(bnd) : Previous(a)' = Previous(a)
    BY <1>1, SameCandidates
  <2>. QED
    BY <1>1, <2>1 DEF RowsInv, Copied
<1>. QED
  BY <1>1, <1>6, <1>7, <1>8, PlacedStays, RowsKept DEF RowsInv

LEMMA ScoreNodeKeepsRows ==
  ASSUME RowsInv, ScoreNode
  PROVE  Chosen' /\ Placed' /\ Linked' /\ Queued' /\ Copied'
<1>1. /\ phase = "node" /\ phase' = "node" /\ UNCHANGED <<cfg, bnd, patterns, gb>>
      /\ order # <<>> /\ order' = Tail(order)
  BY DEF ScoreNode
<1>2. lat' = lat /\ Row(bnd)' = Row(bnd) /\ IsLattice(lat) /\ bnd \in 2 .. lat.n + 2
  BY <1>1, SameSettings, RowsStay, LatticesAssumption DEF RowsInv, NgInv, Config, Standing
<1>3. IsList(order) /\ ToSet(order) \subseteq ToSet(Row(bnd))
  BY <1>1 DEF RowsInv, Queued
<1>4. /\ Len(order) # 0 /\ Len(order) \in Nat /\ DOMAIN order = 1 .. Len(order)
      /\ IsList(order') /\ Len(order') = Len(order) - 1 /\ Head(order) = order[1]
      /\ \A i \in 1 .. Len(order) - 1 : order'[i] = order[i + 1]
  BY <1>1, <1>3, EmptyList, ListIn, ListTail
<1>5. DOMAIN order' = 1 .. Len(order) - 1
  BY <1>4, ListIn
<1>6. /\ Head(order) \in ToSet(order)
      /\ \A v \in ToSet(order) : v = Head(order) \/ v \in ToSet(order')
      /\ ToSet(order') \subseteq ToSet(order)
  <2>1. ASSUME NEW i \in DOMAIN order PROVE order[i] = Head(order) \/ \E j \in DOMAIN order' : order'[j] = order[i]
    <3>1. CASE i = 1
      BY <1>4, <3>1
    <3>2. CASE i # 1
      <4>1. i - 1 \in 1 .. Len(order) - 1 /\ (i - 1) + 1 = i
        BY <1>4, <3>2
      <4>2. order'[i - 1] = order[(i - 1) + 1]
        BY <1>4, <4>1
      <4>. QED
        BY <1>5, <4>1, <4>2
    <3>. QED
      BY <3>1, <3>2
  <2>2. ASSUME NEW j \in DOMAIN order' PROVE \E i \in DOMAIN order : order[i] = order'[j]
    <3>1. j + 1 \in DOMAIN order
      BY <1>4, <1>5
    <3>. QED
      BY <1>4, <1>5, <3>1
  <2>3. 1 \in DOMAIN order
    BY <1>4
  <2>. QED
    BY <1>4, <2>1, <2>2, <2>3 DEF ToSet
<1>7. PICK s \in Selections({gb.elems[i] : i \in 1 .. Considered}, BeamSize) :
        beams' = Merge([v \in {Head(order)} |-> s], beams)
  BY DEF ScoreNode
<1>. DEFINE f == [v \in {Head(order)} |-> s]
            S == {gb.elems[i] : i \in 1 .. Considered}
<1>8. IsList(gb.elems) /\ \A i \in 1 .. Len(gb.elems) : gb.elems[i] \in Candidates(bnd)
  BY <1>1 DEF RowsInv, Copied
<1>9. Considered \in 0 .. Len(gb.elems)
  <2>1. Len(gb.elems) \in Nat /\ Len(Row(bnd)) \in Nat /\ cfg.check \in Nat
    BY <1>2, <1>8, RowLists, ListIn DEF RowsInv, NgInv, Config
  <2>2. HeadLength \in 0 .. Len(gb.elems)
    BY <2>1 DEF HeadLength, Atmost
  <2>. QED
    BY <2>1, <2>2 DEF Considered
<1>10. S \subseteq Candidates(bnd)
  <2>1. Len(gb.elems) \in Nat
    BY <1>8, ListIn
  <2>. QED
    BY <1>8, <1>9, <2>1
<1>11. IsList(s) /\ \A i \in 1 .. Len(s) : s[i] \in Candidates(bnd)
  <2>1. IsFiniteSet(Candidates(bnd))
    BY <1>1, CandidatesCounted
  <2>. HIDE DEF S
  <2>2. S \in SUBSET Candidates(bnd)
    BY <1>10
  <2>3. IsFiniteSet(S)
    BY <2>1, <2>2, FS_Subset
  <2>4. Cardinality(S) \in Nat /\ BeamSize \in Nat
    BY <2>3, FS_CardinalityType, SizesAssumption
  <2>5. s \in Selections(S, BeamSize)
    BY <1>7 DEF S
  <2>6. IsList(s) /\ \A i \in 1 .. Len(s) : s[i] \in S
    BY <2>4, <2>5, SelectionIs
  <2>. QED
    BY <2>2, <2>6
<1>12. DOMAIN f = {Head(order)} /\ beams' = Merge(f, beams)
       /\ \A v \in DOMAIN f : IsList(f[v]) /\ \A k \in 1 .. Len(f[v]) : f[v][k] \in Candidates(bnd)
  BY <1>7, <1>11
<1>. HIDE DEF f, S
<1>13. DOMAIN f \subseteq ToSet(Row(bnd))
  BY <1>3, <1>6, <1>12
<1>14. /\ DOMAIN beams' = DOMAIN f \cup DOMAIN beams
       /\ \A v \in DOMAIN beams' :
            v \in NodesOf(lat) /\ IsList(beams'[v]) /\ (v[1] < bnd \/ v[1] = bnd)
       /\ \A v \in DOMAIN beams' \ {Bos0} : \A k \in DOMAIN beams'[v] :
            LET u == beams'[v][k][1]
            IN u \in DOMAIN beams' /\ beams'[u] # <<>> /\ EndIn(lat, u) = v[1]
       /\ \A v \in DOMAIN beams : v[1] < bnd => beams'[v] = beams[v]
  BY <1>1, <1>12, <1>13, LinkedGrows
<1>15. Queued'
  BY <1>1, <1>2, <1>3, <1>4, <1>6 DEF Queued
<1>16. Linked'
  <2>1. \A v \in ToSet(Row(bnd)) : v \in DOMAIN beams' \/ v \in ToSet(order')
    BY <1>1, <1>6, <1>12, <1>14 DEF RowsInv, Linked
  <2>2. \A v \in NodesOf(lat) : v[1] < bnd => v \in DOMAIN beams'
    BY <1>1, <1>14 DEF RowsInv, Linked
  <2>3. Bos0 \in DOMAIN beams' /\ Bos1 \in DOMAIN beams'
    BY <1>14 DEF RowsInv, Linked
  <2>. QED
    BY <1>1, <1>2, <1>14, <2>1, <2>2, <2>3 DEF Linked
<1>17. Copied'
  <2>1. Candidates(bnd)' = Candidates(bnd) /\ \A a \in Candidates(bnd) : Previous(a)' = Previous(a)
    BY <1>1, <1>14, SameCandidates
  <2>. QED
    BY <1>1, <2>1 DEF RowsInv, Copied
<1>18. Chosen' /\ Placed'
  BY <1>1, RowsKept, PlacedStays DEF RowsInv
<1>. QED
  BY <1>15, <1>16, <1>17, <1>18

LEMMA KeepsRows == RowsInv /\ [Next]_vars => RowsInv'
<1>. SUFFICES ASSUME RowsInv, [Next]_vars
              PROVE  Chosen' /\ Placed' /\ Linked' /\ Queued' /\ Copied'
  BY KeepsNg DEF RowsInv
<1>0. Standing
  BY DEF RowsInv, NgInv
<1>1. CASE SkipBoundary
  <2>1. phase = "t0" /\ NextBoundary /\ UNCHANGED <<cfg, patterns, beams>> /\ Row(bnd) = <<>>
    BY <1>1 DEF SkipBoundary
  <2>2. ToSet(<<>>) = {}
    BY DEF ToSet
  <2>. QED
    BY <2>1, <2>2, NextKeepsRows
<1>2. CASE ApplyT0 \/ ComputeT0All
  BY <1>2, StartKeepsRows
<1>3. CASE ApplyT1
  <2>1. phase = "t1" /\ phase' = "t2" /\ UNCHANGED <<cfg, bnd, patterns, beams, order, gb>>
    BY <1>3 DEF ApplyT1
  <2>. QED
    BY <2>1, QuietKeepsRows
<1>4. CASE ApplyT2
  <2>1. phase = "t2" /\ phase' = "t2" /\ UNCHANGED <<cfg, bnd, patterns, beams, order, gb>>
    BY <1>4 DEF ApplyT2
  <2>. QED
    BY <2>1, QuietKeepsRows
<1>5. CASE NextLeft
  <2>1. phase = "t2" /\ phase' = "t1" /\ UNCHANGED <<cfg, bnd, patterns, beams, order, gb>>
    BY <1>5 DEF NextLeft
  <2>. QED
    BY <2>1, QuietKeepsRows
<1>6. CASE MakeBeams
  BY <1>6, MakeBeamsKeepsRows
<1>7. CASE MakeGlobalBeam
  BY <1>7, GlobalBeamKeepsRows
<1>8. CASE ComputeT0Prescores
  <2>1. phase = "prescores" /\ phase' = "prescores" /\ UNCHANGED <<cfg, bnd, patterns, beams, order, gb>>
    BY <1>8 DEF ComputeT0Prescores
  <2>. QED
    BY <2>1, QuietKeepsRows
<1>9. CASE MakeT0cutoffBeam
  BY <1>9, CutoffKeepsRows
<1>10. CASE ScoreNode
  BY <1>10, ScoreNodeKeepsRows
<1>11. CASE EndBoundary
  <2>1. phase = "node" /\ NextBoundary /\ UNCHANGED <<cfg, patterns, beams>> /\ order = <<>>
    BY <1>11 DEF EndBoundary
  <2>2. ToSet(<<>>) = {}
    BY DEF ToSet
  <2>3. \A v \in ToSet(Row(bnd)) : v \in DOMAIN beams
    BY <2>1, <2>2 DEF RowsInv, Linked
  <2>. QED
    BY <2>1, <2>3, NextKeepsRows
<1>12. CASE UNCHANGED vars
  <2>1. UNCHANGED <<cfg, bnd, phase, patterns, beams, order, gb>>
    BY <1>12 DEF vars
  <2>2. lat' = lat /\ Row(bnd)' = Row(bnd) /\ (Static <=> Static')
    BY <2>1, SameSettings, RowsStay
  <2>3. Placed'
    BY <2>1, <2>2, RowsKept DEF RowsInv, Placed
  <2>4. Linked' /\ Queued'
    BY <2>1, <2>2 DEF RowsInv, Linked, Queued
  <2>5. Copied'
    <3>1. phase # "done" => Candidates(bnd)' = Candidates(bnd) /\ \A a \in Candidates(bnd) : Previous(a)' = Previous(a)
      BY <2>1, SameCandidates
    <3>. QED
      BY <2>1, <3>1 DEF RowsInv, Copied
  <2>. QED
    BY <2>1, <2>3, <2>4, <2>5, RowsKept DEF RowsInv
<1>. QED
  BY <1>1, <1>2, <1>3, <1>4, <1>5, <1>6, <1>7, <1>8, <1>9, <1>10, <1>11, <1>12 DEF Next

LEMMA RowsStored == RowsInv => PatternsStored
<1>. SUFFICES ASSUME RowsInv, NEW v \in DOMAIN beams \ {Bos0, Bos1}, beams[v] # <<>>,
                     NEW combo \in DOMAIN cfg.means[v],
                     ~Static \/ cfg.storeAll \/ Usage(Specs[cfg.spec], combo) # {1}
              PROVE  patterns[v][cfg.means[v][combo][1]] = cfg.means[v][combo]
  BY DEF PatternsStored
<1>. DEFINE s == Specs[cfg.spec]
<1>1. v \in NodesOf(lat) /\ Chosen /\ ~IsBos(v)
  BY DEF RowsInv, Linked, IsBos
<1>2. /\ s \in ToSet(Specs) /\ compiled = Compile(s) /\ Patterns(compiled) = DOMAIN Grouped(s)
      /\ \A p \in DOMAIN Grouped(s) : compiled.patterns[p].usage = Usage(s, Grouped(s)[p])
  BY <1>1, CompiledSpec
<1>. HIDE DEF s
<1>3. combo \in ToSet(Grouped(s))
  <2>1. cfg.means = Meanings(lat, s)
    BY <1>1 DEF Chosen, s
  <2>2. DOMAIN cfg.means[v] = ToSet(Combos(s))
    BY <1>1, <2>1 DEF Meanings
  <2>. QED
    BY <1>2, <2>2, UnigramPatternsLast
<1>4. PICK p \in DOMAIN Grouped(s) : Grouped(s)[p] = combo
  BY <1>3 DEF ToSet
<1>5. FullRow(v)[p] = cfg.means[v][combo] /\ FullRow(v)[p][1] = p
  BY <1>1, <1>2, <1>4, RowMeans DEF s
<1>6. Stores(p)
  BY <1>1, <1>2, <1>4, StoredPatterns DEF s
<1>7. Known(v)
  BY ReachedIsKnown
<1>. QED
  BY <1>2, <1>5, <1>6, <1>7 DEF Known

\* The row of a node that a path reaches holds what its patterns mean by the
\* names of the specification, wherever the row has been computed: while the
\* lattice was built, or by generated code when its boundary was scored.
THEOREM StoredPatternsMean == Spec => []PatternsStored
<1>1. RowsInv => PatternsStored
  BY RowsStored
<1>. QED
  BY <1>1, InitRows, KeepsRows, PTL DEF Spec

-----------------------------------------------------------------------------
(* The loops over rows of indices *)

IsBuffers(val, m) ==
  val = [b \in 1 .. 2 |-> val[b]] /\ \A b \in 1 .. 2 : IsList(val[b]) /\ Len(val[b]) = m
\* Rows of n indices, all of them written.
IsRows(rows, n) ==
  IsList(rows) /\ \A i \in 1 .. Len(rows) :
                    /\ IsList(rows[i]) /\ Len(rows[i]) = n
                    /\ \A k \in 1 .. n : rows[i][k] # Unwritten
\* No index that has been written is overwritten with one that has not.
KeepsWritten(old, new, m) ==
  \A b \in 1 .. 2 : \A k \in 1 .. m : old[b][k] # Unwritten => new[b][k] # Unwritten

IndicesIn(rows, val) ==
  (UNION {{rows[i][k] : k \in 1 .. Len(rows[i])} : i \in 1 .. Len(rows)})
  \cup (UNION {{val[b][k] : k \in 1 .. Len(val[b])} : b \in 1 .. 2})

LEMMA IndicesAre ==
  ASSUME NEW n \in Nat, NEW m \in Nat, NEW rows, NEW val, IsRows(rows, n), IsBuffers(val, m)
  PROVE  /\ val \in Pairs(IndicesIn(rows, val), m)
         /\ \A i \in 1 .. Len(rows) : rows[i] \in Seq(IndicesIn(rows, val))
<1>. DEFINE X == IndicesIn(rows, val)
<1>1. ASSUME NEW i \in 1 .. Len(rows) PROVE rows[i] \in Seq(X)
  <2>1. IsList(rows[i]) /\ \A k \in 1 .. Len(rows[i]) : rows[i][k] \in X
    <3>1. IsList(rows[i])
      BY DEF IsRows
    <3>2. \A k \in 1 .. Len(rows[i]) : rows[i][k] \in {rows[i][j] : j \in 1 .. Len(rows[i])}
      OBVIOUS
    <3>3. {rows[i][j] : j \in 1 .. Len(rows[i])} \subseteq X
      BY DEF IndicesIn
    <3>. HIDE DEF X
    <3>. QED
      BY <3>1, <3>2, <3>3
  <2>. HIDE DEF X
  <2>. QED
    BY <2>1, ListIn
<1>2. ASSUME NEW b \in 1 .. 2 PROVE val[b] \in Seq(X) /\ Len(val[b]) = m
  <2>1. IsList(val[b]) /\ Len(val[b]) = m /\ \A k \in 1 .. Len(val[b]) : val[b][k] \in X
    <3>1. IsList(val[b]) /\ Len(val[b]) = m
      BY DEF IsBuffers
    <3>2. \A k \in 1 .. Len(val[b]) : val[b][k] \in {val[b][j] : j \in 1 .. Len(val[b])}
      OBVIOUS
    <3>3. {val[b][j] : j \in 1 .. Len(val[b])} \subseteq X
      BY DEF IndicesIn
    <3>. HIDE DEF X
    <3>. QED
      BY <3>1, <3>2, <3>3
  <2>. HIDE DEF X
  <2>. QED
    BY <2>1, ListIn
<1>3. val = [b \in 1 .. 2 |-> val[b]]
  BY DEF IsBuffers
<1>. HIDE DEF X
<1>4. val \in [1 .. 2 -> {q \in Seq(X) : Len(q) = m}]
  <2>1. \A b \in 1 .. 2 : val[b] \in {q \in Seq(X) : Len(q) = m}
    BY <1>2
  <2>. HIDE DEF IsBuffers
  <2>. QED
    BY <1>3, <2>1
<1>. QED
  BY <1>1, <1>4 DEF Pairs, X

LEMMA PairsAreBuffers ==
  ASSUME NEW X, NEW m, NEW val \in Pairs(X, m)
  PROVE  IsBuffers(val, m)
<1>1. \A b \in 1 .. 2 : IsList(val[b]) /\ Len(val[b]) = m
  BY PairIs
<1>2. val = [b \in 1 .. 2 |-> val[b]]
  BY DEF Pairs
<1>. QED
  BY <1>1, <1>2 DEF IsBuffers

LEMMA TakeIs ==
  ASSUME NEW X, NEW m, NEW val \in Pairs(X, m), NEW b \in 1 .. 2, NEW n \in 0 .. m
  PROVE  /\ Take(val, b, n) \in Seq(X) /\ Len(Take(val, b, n)) = n
         /\ IsList(Take(val, b, n))
         /\ \A k \in 1 .. n : Take(val, b, n)[k] = val[b][k]
<1>1. val[b] \in Seq(X) /\ Len(val[b]) = m /\ IsList(val[b]) /\ m \in Nat
  BY PairIs
<1>. DEFINE x == val[b]
            t == SubSeq(x, 1, n)
<1>2. IsList(x) /\ 1 \in 1 .. Len(x) + 1 /\ n \in 1 - 1 .. Len(x) /\ n \in Nat
  BY <1>1
<1>. HIDE DEF x
<1>3. IsList(t) /\ Len(t) = n - 1 + 1 /\ \A i \in 1 .. n - 1 + 1 : t[i] = x[1 + i - 1]
  BY <1>2, ListPart
<1>. HIDE DEF t
<1>4. Len(t) = n /\ \A k \in 1 .. n : t[k] = x[k]
  <2>1. \A k \in 1 .. n : k \in 1 .. n - 1 + 1 /\ 1 + k - 1 = k
    BY <1>2
  <2>. QED
    BY <1>2, <1>3, <2>1
<1>5. t \in Seq(X)
  <2>1. \A k \in 1 .. Len(t) : t[k] \in X
    BY <1>1, <1>4 DEF x
  <2>. QED
    BY <1>3, <2>1, ListIn
<1>. QED
  BY <1>3, <1>4, <1>5 DEF Take, t, x

\* States of a loop: the buffers, which is read and which is written next.
States(X, m) == [val : Pairs(X, m), b1 : 1 .. 2, b2 : 1 .. 2, reads : Seq(Seq(X))]

RowStart(rows, val) == [val |-> Write(val, 2, rows[1]), b1 |-> 1, b2 |-> 2, reads |-> <<>>]
RowStep(rows, n, acc, i) ==
  LET v == Write(acc.val, acc.b1, rows[i])
  IN [val |-> v, b1 |-> acc.b2, b2 |-> acc.b1, reads |-> Append(acc.reads, Take(v, acc.b2, n))]
IsRowLoop(rows, n, val, at) ==
  at = [i \in 1 .. Len(rows) |->
          IF i = 1 THEN [val |-> Write(val, 2, rows[1]), b1 |-> 1, b2 |-> 2, reads |-> <<>>]
          ELSE LET acc == at[i - 1]
                   v == Write(acc.val, acc.b1, rows[i])
               IN [val |-> v, b1 |-> acc.b2, b2 |-> acc.b1,
                   reads |-> Append(acc.reads, Take(v, acc.b2, n))]]

LEMMA RowLoopSteps ==
  ASSUME NEW X, NEW m \in Nat, NEW n \in 0 .. m, NEW rows, Len(rows) \in Nat \ {0},
         \A i \in 1 .. Len(rows) : rows[i] \in Seq(X) /\ Len(rows[i]) = n,
         NEW val \in Pairs(X, m)
  PROVE  /\ RowStart(rows, val) \in States(X, m)
         /\ \A i \in 1 .. Len(rows) : \A acc \in States(X, m) : RowStep(rows, n, acc, i) \in States(X, m)
<1>1. Write(val, 2, rows[1]) \in Pairs(X, m)
  <2>1. rows[1] \in Seq(X) /\ Len(rows[1]) <= m
    OBVIOUS
  <2>. QED
    BY <2>1, WriteIs
<1>2. RowStart(rows, val) \in States(X, m)
  BY <1>1 DEF RowStart, States
<1>3. ASSUME NEW i \in 1 .. Len(rows), NEW acc \in States(X, m)
      PROVE  RowStep(rows, n, acc, i) \in States(X, m)
  <2>1. /\ acc.val \in Pairs(X, m) /\ acc.b1 \in 1 .. 2 /\ acc.b2 \in 1 .. 2 /\ acc.reads \in Seq(Seq(X))
        /\ rows[i] \in Seq(X) /\ Len(rows[i]) <= m
    BY DEF States
  <2>. DEFINE v == Write(acc.val, acc.b1, rows[i])
  <2>2. v \in Pairs(X, m)
    BY <2>1, WriteIs
  <2>. HIDE DEF v
  <2>3. Take(v, acc.b2, n) \in Seq(X)
    BY <2>1, <2>2, TakeIs
  <2>4. Append(acc.reads, Take(v, acc.b2, n)) \in Seq(Seq(X))
    BY <2>1, <2>3
  <2>5. [val |-> v, b1 |-> acc.b2, b2 |-> acc.b1, reads |-> Append(acc.reads, Take(v, acc.b2, n))] \in States(X, m)
    BY <2>1, <2>2, <2>4 DEF States
  <2>. QED
    BY <2>5 DEF RowStep, v
<1>. QED
  BY <1>2, <1>3

LEMMA RowLoopExists ==
  ASSUME NEW X, NEW m \in Nat, NEW n \in 0 .. m, NEW rows, Len(rows) \in Nat \ {0},
         \A i \in 1 .. Len(rows) : rows[i] \in Seq(X) /\ Len(rows[i]) = n,
         NEW val \in Pairs(X, m)
  PROVE  \E at \in [1 .. Len(rows) -> States(X, m)] : IsRowLoop(rows, n, val, at)
<1>. DEFINE V == States(X, m)
            L == Len(rows)
            c == RowStart(rows, val)
            G == [p \in (1 .. L) \X V |-> IF p[1] = 1 THEN c ELSE RowStep(rows, n, p[2], p[1])]
<1>1. c \in V /\ \A i \in 1 .. L : \A acc \in V : RowStep(rows, n, acc, i) \in V
  BY RowLoopSteps
<1>2. G \in [(1 .. L) \X V -> V]
  <2>. HIDE DEF V, c, L
  <2>1. \A p \in (1 .. L) \X V : (IF p[1] = 1 THEN c ELSE RowStep(rows, n, p[2], p[1])) \in V
    <3>1. \A p \in (1 .. L) \X V : p[1] \in 1 .. L /\ p[2] \in V
      OBVIOUS
    <3>. QED
      BY <1>1, <3>1
  <2>. QED
    BY <2>1
<1>3. L \in Nat /\ L >= 1
  OBVIOUS
<1>. HIDE DEF V, c, L
<1>4. PICK g \in [0 .. L -> V] : IsRecursive(g, L, c, G)
  <2>. HIDE DEF G
  <2>. QED
    BY <1>1, <1>2, <1>3, RecursionExists
<1>5. ASSUME NEW i \in 1 .. L
      PROVE  g[i] \in V /\ g[i] = IF i = 1 THEN c ELSE RowStep(rows, n, g[i - 1], i)
  <2>1. i \in 0 .. L /\ i # 0 /\ i - 1 \in 0 .. L
    BY <1>3
  <2>2. g[i] \in V /\ g[i - 1] \in V
    <3>. HIDE DEF G
    <3>. QED
      BY <1>4, <2>1
  <2>3. g[i] = G[<<i, g[i - 1]>>]
    <3>. DEFINE h == [j \in 0 .. L |-> IF j = 0 THEN c ELSE G[<<j, g[j - 1]>>]]
    <3>1. g = h
      BY <1>4 DEF IsRecursive
    <3>2. h[i] = G[<<i, g[i - 1]>>]
      BY <2>1
    <3>. HIDE DEF h
    <3>. QED
      BY <3>1, <3>2
  <2>4. <<i, g[i - 1]>> \in (1 .. L) \X V
    BY <2>2
  <2>. QED
    BY <2>2, <2>3, <2>4
<1>. HIDE DEF G
<1>. DEFINE at == [i \in 1 .. L |-> g[i]]
<1>6. at \in [1 .. L -> V]
  BY <1>5
<1>7. \A i \in 1 .. L : at[i] = IF i = 1 THEN c ELSE RowStep(rows, n, at[i - 1], i)
  <2>1. ASSUME NEW i \in 1 .. L PROVE at[i] = IF i = 1 THEN c ELSE RowStep(rows, n, at[i - 1], i)
    <3>1. i # 1 => i - 1 \in 1 .. L
      BY <1>3
    <3>. QED
      BY <1>5, <3>1
  <2>. QED
    BY <2>1
<1>. HIDE DEF at
<1>8. at = [i \in 1 .. L |-> IF i = 1 THEN c ELSE RowStep(rows, n, at[i - 1], i)]
  BY <1>6, <1>7
<1>9. IsRowLoop(rows, n, val, at)
  BY <1>8 DEF IsRowLoop, RowStart, RowStep, c, L
<1>. QED
  BY <1>6, <1>9 DEF V, L

AllWritten(row) == \A k \in 1 .. Len(row) : row[k] # Unwritten

LEMMA WriteKeeps ==
  ASSUME NEW X, NEW m \in Nat, NEW val, NEW old \in Pairs(X, m), NEW b \in 1 .. 2,
         NEW row \in Seq(X), Len(row) <= m, AllWritten(row),
         KeepsWritten(val, old, m)
  PROVE  /\ KeepsWritten(val, Write(old, b, row), m)
         /\ Take(Write(old, b, row), b, Len(row)) = row
         /\ \A c \in 1 .. 2, k \in Nat : c # b => Take(Write(old, b, row), c, k) = Take(old, c, k)
         /\ \A k \in 1 .. Len(row) : Write(old, b, row)[b][k] # Unwritten
         /\ \A c \in 1 .. 2 : c # b => Write(old, b, row)[c] = old[c]
<1>. DEFINE v == Write(old, b, row)
<1>1. /\ Take(v, b, Len(row)) = row
      /\ \A c \in 1 .. 2 : c # b => v[c] = old[c]
      /\ \A k \in 1 .. Len(row) : v[b][k] = row[k]
      /\ \A k \in Len(row) + 1 .. m : v[b][k] = old[b][k]
  <2>1. Take(v, b, Len(row)) = row
    BY WriteIs
  <2>2. \A c \in 1 .. 2 : c # b => v[c] = old[c]
    BY WriteIs
  <2>3. \A k \in 1 .. Len(row) : v[b][k] = row[k]
    BY WriteIs
  <2>4. \A k \in Len(row) + 1 .. m : v[b][k] = old[b][k]
    BY WriteIs
  <2>. QED
    BY <2>1, <2>2, <2>3, <2>4
<1>. HIDE DEF v
<1>2. ASSUME NEW c \in 1 .. 2, NEW k \in 1 .. m, val[c][k] # Unwritten PROVE v[c][k] # Unwritten
  <2>1. old[c][k] # Unwritten
    BY <1>2 DEF KeepsWritten
  <2>2. k \in 1 .. Len(row) \/ k \in Len(row) + 1 .. m
    <3>1. Len(row) \in Nat
      OBVIOUS
    <3>. QED
      BY <3>1
  <2>. QED
    BY <1>1, <2>1, <2>2 DEF AllWritten
<1>3. \A k \in 1 .. Len(row) : v[b][k] # Unwritten
  BY <1>1 DEF AllWritten
<1>. QED
  BY <1>1, <1>2, <1>3 DEF KeepsWritten, Take, v

\* One row goes in, the row before comes out: whichever buffer is written, the
\* other one holds the row written last.
LEMMA RowLoopRun ==
  ASSUME NEW X, NEW m \in Nat, NEW n \in 0 .. m, NEW rows, IsRows(rows, n), Len(rows) # 0,
         \A i \in 1 .. Len(rows) : rows[i] \in Seq(X),
         NEW val \in Pairs(X, m), NEW at, IsRowLoop(rows, n, val, at)
  PROVE  LET end == at[Len(rows)]
         IN /\ end \in States(X, m) /\ end.b1 # end.b2
            /\ Take(end.val, end.b2, n) = rows[Len(rows)]
            /\ Len(end.reads) = Len(rows) - 1
            /\ \A j \in 1 .. Len(rows) - 1 : end.reads[j] = rows[j]
            /\ KeepsWritten(val, end.val, m)
<1>. DEFINE L == Len(rows)
            Good(i) == /\ at[i] \in States(X, m) /\ at[i].b1 # at[i].b2
                       /\ Take(at[i].val, at[i].b2, n) = rows[i]
                       /\ Len(at[i].reads) = i - 1
                       /\ \A j \in 1 .. i - 1 : at[i].reads[j] = rows[j]
                       /\ KeepsWritten(val, at[i].val, m)
            H == {i \in 1 .. L : Good(i)}
<1>1. L \in Nat \ {0} /\ \A i \in 1 .. L : /\ rows[i] \in Seq(X) /\ Len(rows[i]) = n /\ IsList(rows[i])
                                           /\ \A k \in 1 .. n : rows[i][k] # Unwritten
  BY DEF IsRows, IsList
<1>2. \A i \in 1 .. L : at[i] = IF i = 1 THEN RowStart(rows, val) ELSE RowStep(rows, n, at[i - 1], i)
  <2>. DEFINE h == [i \in 1 .. L |-> IF i = 1 THEN RowStart(rows, val) ELSE RowStep(rows, n, at[i - 1], i)]
  <2>1. at = h
    BY DEF IsRowLoop, RowStart, RowStep
  <2>2. \A i \in 1 .. L : h[i] = IF i = 1 THEN RowStart(rows, val) ELSE RowStep(rows, n, at[i - 1], i)
    OBVIOUS
  <2>. HIDE DEF h
  <2>. QED
    BY <2>1, <2>2
<1>3. /\ RowStart(rows, val) \in States(X, m)
      /\ \A i \in 1 .. L : \A acc \in States(X, m) : RowStep(rows, n, acc, i) \in States(X, m)
  BY <1>1, RowLoopSteps
<1>. HIDE DEF L
<1>4. ASSUME NEW old \in Pairs(X, m), NEW b \in 1 .. 2, NEW i \in 1 .. L, KeepsWritten(val, old, m)
      PROVE  /\ KeepsWritten(val, Write(old, b, rows[i]), m)
             /\ Take(Write(old, b, rows[i]), b, n) = rows[i]
             /\ \A c \in 1 .. 2 : c # b => Take(Write(old, b, rows[i]), c, n) = Take(old, c, n)
  <2>. DEFINE row == rows[i]
  <2>1. row \in Seq(X) /\ Len(row) = n /\ AllWritten(row)
    BY <1>1 DEF AllWritten
  <2>. HIDE DEF row
  <2>2. /\ KeepsWritten(val, Write(old, b, row), m) /\ Take(Write(old, b, row), b, n) = row
        /\ \A c \in 1 .. 2 : c # b => Take(Write(old, b, row), c, n) = Take(old, c, n)
    <3>1. Len(row) <= m
      BY <2>1
    <3>. QED
      BY <1>4, <2>1, <3>1, WriteKeeps
  <2>. QED
    BY <2>2 DEF row
<1>5. 1 \in H
  <2>1. at[1] = RowStart(rows, val) /\ 1 \in 1 .. L
    BY <1>1, <1>2
  <2>2. KeepsWritten(val, val, m)
    BY DEF KeepsWritten
  <2>3. KeepsWritten(val, Write(val, 2, rows[1]), m) /\ Take(Write(val, 2, rows[1]), 2, n) = rows[1]
    BY <1>4, <2>1, <2>2
  <2>4. /\ at[1].val = Write(val, 2, rows[1]) /\ at[1].b1 = 1 /\ at[1].b2 = 2
        /\ at[1].reads = <<>>
    BY <2>1 DEF RowStart
  <2>5. Len(at[1].reads) = 1 - 1
    BY <2>4, EmptyList
  <2>. QED
    BY <1>3, <2>1, <2>3, <2>4, <2>5
<1>6. ASSUME NEW i \in 1 .. L - 1, i \in H PROVE i + 1 \in H
  <2>. DEFINE acc == at[i]
              v == Write(acc.val, acc.b1, rows[i + 1])
  <2>1. /\ acc \in States(X, m) /\ acc.b1 # acc.b2 /\ Take(acc.val, acc.b2, n) = rows[i]
        /\ Len(acc.reads) = i - 1 /\ \A j \in 1 .. i - 1 : acc.reads[j] = rows[j]
        /\ KeepsWritten(val, acc.val, m)
    BY <1>6
  <2>2. i + 1 \in 1 .. L /\ i + 1 # 1 /\ (i + 1) - 1 = i
    BY <1>1
  <2>3. at[i + 1] = RowStep(rows, n, acc, i + 1)
    BY <1>2, <2>2
  <2>. HIDE DEF acc
  <2>4. acc.val \in Pairs(X, m) /\ acc.b1 \in 1 .. 2 /\ acc.b2 \in 1 .. 2 /\ acc.reads \in Seq(Seq(X))
    BY <2>1 DEF States
  <2>5. /\ KeepsWritten(val, v, m)
        /\ Take(v, acc.b1, n) = rows[i + 1] /\ Take(v, acc.b2, n) = rows[i]
    BY <1>4, <2>1, <2>2, <2>4
  <2>6. /\ at[i + 1].val = v /\ at[i + 1].b1 = acc.b2 /\ at[i + 1].b2 = acc.b1
        /\ at[i + 1].reads = Append(acc.reads, Take(v, acc.b2, n))
    BY <2>3 DEF RowStep
  <2>7. /\ Len(at[i + 1].reads) = i
        /\ \A j \in 1 .. i - 1 : at[i + 1].reads[j] = acc.reads[j]
        /\ at[i + 1].reads[i] = rows[i]
    <3>1. IsList(acc.reads) /\ Len(acc.reads) + 1 = i
      BY <2>1, <2>2, <2>4, SeqIsList
    <3>2. /\ Len(Append(acc.reads, Take(v, acc.b2, n))) = Len(acc.reads) + 1
          /\ \A j \in 1 .. Len(acc.reads) : Append(acc.reads, Take(v, acc.b2, n))[j] = acc.reads[j]
          /\ Append(acc.reads, Take(v, acc.b2, n))[Len(acc.reads) + 1] = Take(v, acc.b2, n)
      BY <3>1, ListAppend
    <3>. QED
      BY <2>1, <2>5, <2>6, <3>1, <3>2
  <2>8. at[i + 1] \in States(X, m)
    BY <1>3, <2>1, <2>2, <2>3
  <2>9. \A j \in 1 .. (i + 1) - 1 : at[i + 1].reads[j] = rows[j]
    <3>1. \A j \in 1 .. (i + 1) - 1 : j \in 1 .. i - 1 \/ j = i
      BY <1>1
    <3>. QED
      BY <2>1, <2>7, <3>1
  <2>. HIDE DEF v
  <2>. QED
    BY <2>1, <2>2, <2>5, <2>6, <2>7, <2>8, <2>9
<1>7. \A i \in 1 .. L : i \in H
  <2>1. L \in Int /\ 1 \in Int
    BY <1>1
  <2>2. \A i \in 1 .. L - 1 : i \in H => i + 1 \in H
    BY <1>6
  <2>. HIDE DEF Good, H
  <2>. QED
    BY <1>5, <2>1, <2>2, InductionTo
<1>8. Good(L)
  BY <1>1, <1>7
<1>. QED
  BY <1>8 DEF L

LEMMA RowLoopIs ==
  ASSUME NEW m \in Nat, NEW n \in 0 .. m, NEW rows, IsRows(rows, n), Len(rows) # 0,
         NEW val, IsBuffers(val, m)
  PROVE  LET loop == RowLoop(rows, n, val)
         IN loop.reads = rows /\ IsBuffers(loop.val, m) /\ KeepsWritten(val, loop.val, m)
<1>. DEFINE X == IndicesIn(rows, val)
            L == Len(rows)
            at == CHOOSE h : IsRowLoop(rows, n, val, h)
            end == at[L]
            last == Take(end.val, end.b2, n)
<1>1. val \in Pairs(X, m) /\ \A i \in 1 .. Len(rows) : rows[i] \in Seq(X)
  BY IndicesAre
<1>2. IsList(rows) /\ L \in Nat \ {0} /\ \A i \in 1 .. Len(rows) : Len(rows[i]) = n
  BY DEF IsRows, IsList
<1>. HIDE DEF X
<1>3. IsRowLoop(rows, n, val, at)
  <2>1. \E h : IsRowLoop(rows, n, val, h)
    BY <1>1, <1>2, RowLoopExists
  <2>. QED
    BY <2>1
<1>4. RowLoop(rows, n, val) = [val |-> end.val, reads |-> Append(end.reads, last)]
  BY DEF RowLoop, IsRowLoop
<1>. HIDE DEF at
<1>5. /\ end \in States(X, m)
      /\ last = rows[L]
      /\ Len(end.reads) = L - 1
      /\ \A j \in 1 .. L - 1 : end.reads[j] = rows[j]
      /\ KeepsWritten(val, end.val, m)
  <2>1. LET e == at[Len(rows)]
        IN /\ e \in States(X, m) /\ e.b1 # e.b2
           /\ Take(e.val, e.b2, n) = rows[Len(rows)]
           /\ Len(e.reads) = Len(rows) - 1
           /\ \A j \in 1 .. Len(rows) - 1 : e.reads[j] = rows[j]
           /\ KeepsWritten(val, e.val, m)
    BY <1>1, <1>3, RowLoopRun
  <2>. QED
    BY <2>1
<1>. HIDE DEF end, last
<1>6. end.val \in Pairs(X, m) /\ end.reads \in Seq(Seq(X))
  BY <1>5 DEF States
<1>7. IsBuffers(end.val, m)
  BY <1>6, PairsAreBuffers
<1>8. Append(end.reads, last) = rows
  <2>1. IsList(end.reads)
    BY <1>6, SeqIsList
  <2>2. /\ IsList(Append(end.reads, last)) /\ Len(Append(end.reads, last)) = Len(end.reads) + 1
        /\ \A i \in 1 .. Len(end.reads) : Append(end.reads, last)[i] = end.reads[i]
        /\ Append(end.reads, last)[Len(end.reads) + 1] = last
    BY <2>1, ListAppend
  <2>. HIDE DEF L
  <2>3. Len(end.reads) + 1 = L /\ \A i \in 1 .. L : i \in 1 .. L - 1 \/ i = L
    BY <1>2, <1>5
  <2>4. \A i \in 1 .. L : Append(end.reads, last)[i] = rows[i]
    BY <1>5, <2>2, <2>3
  <2>. QED
    BY <1>2, <2>2, <2>3, <2>4, SameList DEF L
<1>. QED
  BY <1>4, <1>5, <1>7, <1>8

PipeStart(val, one, two) == [val |-> val, b1 |-> one, b2 |-> two, reads |-> <<>>]
PipeStep(rows, n, acc, i) ==
  LET v == Write(acc.val, acc.b2, rows[i])
  IN [val |-> v, b1 |-> acc.b2, b2 |-> acc.b1, reads |-> Append(acc.reads, Take(v, acc.b1, n))]
IsPipeline(rows, n, val, one, two, at) ==
  at = [i \in 0 .. Len(rows) |->
          IF i = 0 THEN [val |-> val, b1 |-> one, b2 |-> two, reads |-> <<>>]
          ELSE LET acc == at[i - 1]
                   v == Write(acc.val, acc.b2, rows[i])
               IN [val |-> v, b1 |-> acc.b2, b2 |-> acc.b1,
                   reads |-> Append(acc.reads, Take(v, acc.b1, n))]]

LEMMA PipelineSteps ==
  ASSUME NEW X, NEW m \in Nat, NEW n \in 0 .. m, NEW rows, Len(rows) \in Nat \ {0},
         \A i \in 1 .. Len(rows) : rows[i] \in Seq(X) /\ Len(rows[i]) = n,
         NEW val \in Pairs(X, m), NEW one \in 1 .. 2, NEW two \in 1 .. 2
  PROVE  /\ PipeStart(val, one, two) \in States(X, m)
         /\ \A i \in 1 .. Len(rows) : \A acc \in States(X, m) : PipeStep(rows, n, acc, i) \in States(X, m)
<1>1. PipeStart(val, one, two) \in States(X, m)
  BY DEF PipeStart, States
<1>2. ASSUME NEW i \in 1 .. Len(rows), NEW acc \in States(X, m)
      PROVE  PipeStep(rows, n, acc, i) \in States(X, m)
  <2>1. /\ acc.val \in Pairs(X, m) /\ acc.b1 \in 1 .. 2 /\ acc.b2 \in 1 .. 2 /\ acc.reads \in Seq(Seq(X))
        /\ rows[i] \in Seq(X) /\ Len(rows[i]) <= m
    BY DEF States
  <2>. DEFINE v == Write(acc.val, acc.b2, rows[i])
  <2>2. v \in Pairs(X, m)
    BY <2>1, WriteIs
  <2>. HIDE DEF v
  <2>3. Take(v, acc.b1, n) \in Seq(X)
    BY <2>1, <2>2, TakeIs
  <2>4. Append(acc.reads, Take(v, acc.b1, n)) \in Seq(Seq(X))
    BY <2>1, <2>3
  <2>5. [val |-> v, b1 |-> acc.b2, b2 |-> acc.b1, reads |-> Append(acc.reads, Take(v, acc.b1, n))] \in States(X, m)
    BY <2>1, <2>2, <2>4 DEF States
  <2>. QED
    BY <2>5 DEF PipeStep, v
<1>. QED
  BY <1>1, <1>2

LEMMA PipelineExists ==
  ASSUME NEW X, NEW m \in Nat, NEW n \in 0 .. m, NEW rows, Len(rows) \in Nat \ {0},
         \A i \in 1 .. Len(rows) : rows[i] \in Seq(X) /\ Len(rows[i]) = n,
         NEW val \in Pairs(X, m), NEW one \in 1 .. 2, NEW two \in 1 .. 2
  PROVE  \E at : IsPipeline(rows, n, val, one, two, at)
<1>. DEFINE V == States(X, m)
            L == Len(rows)
            c == PipeStart(val, one, two)
            G == [p \in (1 .. L) \X V |-> PipeStep(rows, n, p[2], p[1])]
<1>1. c \in V /\ \A i \in 1 .. L : \A acc \in V : PipeStep(rows, n, acc, i) \in V
  BY PipelineSteps
<1>2. G \in [(1 .. L) \X V -> V]
  <2>. HIDE DEF V, c, L
  <2>1. \A p \in (1 .. L) \X V : PipeStep(rows, n, p[2], p[1]) \in V
    <3>1. \A p \in (1 .. L) \X V : p[1] \in 1 .. L /\ p[2] \in V
      OBVIOUS
    <3>. QED
      BY <1>1, <3>1
  <2>. QED
    BY <2>1
<1>3. L \in Nat /\ L >= 1
  OBVIOUS
<1>. HIDE DEF V, c, L
<1>4. PICK g \in [0 .. L -> V] : IsRecursive(g, L, c, G)
  <2>. HIDE DEF G
  <2>. QED
    BY <1>1, <1>2, <1>3, RecursionExists
<1>5. \A i \in 1 .. L : G[<<i, g[i - 1]>>] = PipeStep(rows, n, g[i - 1], i)
  <2>1. \A i \in 1 .. L : <<i, g[i - 1]>> \in (1 .. L) \X V
    <3>1. \A i \in 1 .. L : i - 1 \in 0 .. L
      BY <1>3
    <3>2. \A i \in 1 .. L : g[i - 1] \in V
      BY <3>1
    <3>. QED
      BY <3>2
  <2>. QED
    BY <2>1
<1>. HIDE DEF G
<1>6. g = [i \in 0 .. L |-> IF i = 0 THEN c ELSE PipeStep(rows, n, g[i - 1], i)]
  <2>1. g = [j \in 0 .. L |-> IF j = 0 THEN c ELSE G[<<j, g[j - 1]>>]]
    BY <1>4 DEF IsRecursive
  <2>2. \A i \in 0 .. L : i # 0 => i \in 1 .. L
    BY <1>3
  <2>3. \A i \in 0 .. L : (IF i = 0 THEN c ELSE G[<<i, g[i - 1]>>])
                          = IF i = 0 THEN c ELSE PipeStep(rows, n, g[i - 1], i)
    BY <1>5, <2>2
  <2>4. [j \in 0 .. L |-> IF j = 0 THEN c ELSE G[<<j, g[j - 1]>>]]
        = [i \in 0 .. L |-> IF i = 0 THEN c ELSE PipeStep(rows, n, g[i - 1], i)]
    BY <2>3
  <2>. QED
    BY <2>1, <2>4
<1>7. IsPipeline(rows, n, val, one, two, g)
  BY <1>6 DEF IsPipeline, PipeStart, PipeStep, c, L
<1>. QED
  BY <1>7

\* What a pipeline has done after i rows.
Piped(rows, n, val, one, two, s, i) ==
  /\ s.b1 # s.b2 /\ Len(s.reads) = i
  /\ KeepsWritten(val, s.val, Len(val[1]))
  /\ i = 0 => s.b1 = one /\ s.b2 = two /\ s.val = val
  /\ i > 0 => /\ s.reads[1] = Take(val, one, n)
              /\ Take(s.val, s.b1, n) = rows[i]
              /\ \A k \in 1 .. n : s.val[two][k] # Unwritten
  /\ \A j \in 2 .. i : s.reads[j] = rows[j - 1]
  /\ i = 1 => s.b1 = two /\ s.val[one] = val[one]

LEMMA PipelineRun ==
  ASSUME NEW X, NEW m \in Nat, NEW n \in 0 .. m, NEW rows, IsRows(rows, n), Len(rows) # 0,
         \A i \in 1 .. Len(rows) : rows[i] \in Seq(X),
         NEW val \in Pairs(X, m), NEW one \in 1 .. 2, NEW two \in 1 .. 2, one # two,
         NEW at, IsPipeline(rows, n, val, one, two, at)
  PROVE  /\ at[Len(rows)] \in States(X, m)
         /\ Piped(rows, n, val, one, two, at[Len(rows)], Len(rows))
<1>. DEFINE L == Len(rows)
            H == {i \in 0 .. L : at[i] \in States(X, m) /\ Piped(rows, n, val, one, two, at[i], i)}
<1>1. L \in Nat \ {0} /\ \A i \in 1 .. L : /\ rows[i] \in Seq(X) /\ Len(rows[i]) = n /\ IsList(rows[i])
                                           /\ AllWritten(rows[i])
  BY DEF IsRows, IsList, AllWritten
<1>2. \A i \in 0 .. L : at[i] = IF i = 0 THEN PipeStart(val, one, two) ELSE PipeStep(rows, n, at[i - 1], i)
  <2>. DEFINE h == [i \in 0 .. L |-> IF i = 0 THEN PipeStart(val, one, two) ELSE PipeStep(rows, n, at[i - 1], i)]
  <2>1. at = h
    BY DEF IsPipeline, PipeStart, PipeStep
  <2>2. \A i \in 0 .. L : h[i] = IF i = 0 THEN PipeStart(val, one, two) ELSE PipeStep(rows, n, at[i - 1], i)
    OBVIOUS
  <2>. HIDE DEF h
  <2>. QED
    BY <2>1, <2>2
<1>3. /\ PipeStart(val, one, two) \in States(X, m)
      /\ \A i \in 1 .. L : \A acc \in States(X, m) : PipeStep(rows, n, acc, i) \in States(X, m)
  BY <1>1, PipelineSteps
<1>4. Len(val[1]) = m
  BY PairIs
<1>. HIDE DEF L
<1>5. 0 \in H
  <2>1. at[0] = PipeStart(val, one, two) /\ 0 \in 0 .. L
    BY <1>1, <1>2
  <2>2. KeepsWritten(val, val, m)
    BY DEF KeepsWritten
  <2>3. /\ at[0].val = val /\ at[0].b1 = one /\ at[0].b2 = two
        /\ at[0].reads = <<>>
    BY <2>1 DEF PipeStart
  <2>4. Piped(rows, n, val, one, two, at[0], 0)
    BY <1>4, <2>2, <2>3, EmptyList DEF Piped
  <2>. QED
    BY <1>3, <2>1, <2>4
<1>6. ASSUME NEW i \in 0 .. L - 1, i \in H PROVE i + 1 \in H
  <2>. DEFINE acc == at[i]
              row == rows[i + 1]
              v == Write(acc.val, acc.b2, row)
              new == at[i + 1]
  <2>1. acc \in States(X, m) /\ Piped(rows, n, val, one, two, acc, i)
    BY <1>6
  <2>2. i + 1 \in 1 .. L /\ i + 1 # 0 /\ i + 1 \in 0 .. L /\ (i + 1) - 1 = i
    BY <1>1
  <2>3. new = PipeStep(rows, n, acc, i + 1)
    BY <1>2, <2>2
  <2>4. row \in Seq(X) /\ Len(row) = n /\ Len(row) <= m /\ AllWritten(row)
    BY <1>1, <2>2
  <2>5. new.val = v /\ new.b1 = acc.b2 /\ new.b2 = acc.b1 /\ new.reads = Append(acc.reads, Take(v, acc.b1, n))
    BY <2>3 DEF PipeStep
  <2>6. new \in States(X, m)
    BY <1>3, <2>1, <2>2, <2>3
  <2>. HIDE DEF acc, new, row
  <2>7. /\ acc.val \in Pairs(X, m) /\ acc.b1 \in 1 .. 2 /\ acc.b2 \in 1 .. 2 /\ acc.reads \in Seq(Seq(X))
        /\ acc.b1 # acc.b2 /\ KeepsWritten(val, acc.val, m) /\ Len(acc.reads) = i
    BY <1>4, <2>1 DEF States, Piped
  <2>8. /\ KeepsWritten(val, v, m) /\ KeepsWritten(acc.val, v, m)
        /\ Take(v, acc.b2, n) = row
        /\ \A k \in Nat : Take(v, acc.b1, k) = Take(acc.val, acc.b1, k)
        /\ \A k \in 1 .. n : v[acc.b2][k] # Unwritten
        /\ v[acc.b1] = acc.val[acc.b1]
    <3>1. KeepsWritten(acc.val, acc.val, m)
      BY DEF KeepsWritten
    <3>2. v[acc.b1] = acc.val[acc.b1]
      BY <2>4, <2>7, <3>1, WriteKeeps
    <3>3. KeepsWritten(acc.val, v, m)
      BY <2>4, <2>7, <3>1, WriteKeeps
    <3>4. /\ KeepsWritten(val, v, m)
          /\ Take(v, acc.b2, Len(row)) = row
          /\ \A k \in Nat : Take(v, acc.b1, k) = Take(acc.val, acc.b1, k)
          /\ \A k \in 1 .. Len(row) : v[acc.b2][k] # Unwritten
      BY <2>4, <2>7, WriteKeeps
    <3>. HIDE DEF v
    <3>. QED
      BY <2>4, <3>2, <3>3, <3>4
  <2>. HIDE DEF v
  <2>9. /\ Len(new.reads) = i + 1 /\ \A j \in 1 .. i : new.reads[j] = acc.reads[j]
        /\ new.reads[i + 1] = Take(acc.val, acc.b1, n)
    <3>1. IsList(acc.reads)
      BY <2>7, SeqIsList
    <3>2. LET q == Append(acc.reads, Take(v, acc.b1, n))
          IN /\ Len(q) = Len(acc.reads) + 1
             /\ \A j \in 1 .. Len(acc.reads) : q[j] = acc.reads[j]
             /\ q[Len(acc.reads) + 1] = Take(v, acc.b1, n)
      BY <3>1, ListAppend
    <3>3. n \in Nat
      OBVIOUS
    <3>. QED
      BY <2>5, <2>7, <2>8, <3>2, <3>3
  <2>10. /\ i = 0 => acc.b1 = one /\ acc.b2 = two /\ acc.val = val
         /\ i > 0 => /\ acc.reads[1] = Take(val, one, n) /\ Take(acc.val, acc.b1, n) = rows[i]
                     /\ \A k \in 1 .. n : acc.val[two][k] # Unwritten
         /\ \A j \in 2 .. i : acc.reads[j] = rows[j - 1]
    BY <2>1 DEF Piped
  <2>11. new.reads[1] = Take(val, one, n)
    <3>1. CASE i = 0
      BY <2>9, <2>10, <3>1
    <3>2. CASE i > 0
      BY <2>9, <2>10, <3>2
    <3>. QED
      BY <3>1, <3>2
  <2>12. \A k \in 1 .. n : new.val[two][k] # Unwritten
    <3>1. CASE i = 0
      BY <2>5, <2>8, <2>10, <3>1
    <3>2. CASE i > 0
      <4>1. \A k \in 1 .. n : k \in 1 .. m /\ acc.val[two][k] # Unwritten
        BY <2>10, <3>2
      <4>. QED
        BY <2>5, <2>8, <4>1 DEF KeepsWritten
    <3>. QED
      BY <3>1, <3>2
  <2>13. \A j \in 2 .. i + 1 : new.reads[j] = rows[j - 1]
    <3>1. ASSUME NEW j \in 2 .. i + 1 PROVE new.reads[j] = rows[j - 1]
      <4>1. CASE j = i + 1
        BY <2>9, <2>10, <4>1
      <4>2. CASE j # i + 1
        <5>1. j \in 2 .. i /\ j \in 1 .. i
          BY <4>2
        <5>. QED
          BY <2>9, <2>10, <5>1
      <4>. QED
        BY <4>1, <4>2
    <3>. QED
      BY <3>1
  <2>14. i + 1 = 1 => new.b1 = two /\ new.val[one] = val[one]
    BY <2>5, <2>8, <2>10
  <2>15. Piped(rows, n, val, one, two, new, i + 1)
    BY <1>4, <2>5, <2>7, <2>8, <2>9, <2>11, <2>12, <2>13, <2>14 DEF Piped, row
  <2>. QED
    BY <2>2, <2>6, <2>15 DEF new
<1>7. \A i \in 0 .. L : i \in H
  <2>. HIDE DEF H
  <2>1. H \subseteq 0 .. L
    BY DEF H
  <2>2. \A i \in 0 .. L - 1 : i \in H => i + 1 \in H
    BY <1>6
  <2>3. 0 \in Int /\ L \in Int
    BY <1>1
  <2>. QED
    BY <1>5, <2>2, <2>3, InductionTo
<1>. QED
  BY <1>1, <1>7 DEF L

\* A pipeline reads what was left in the buffer it starts at, then row by row,
\* and leaves the last row to be read.
PipelineDone(rows, n, val, one, two, m, p) ==
  /\ IsBuffers(p.val, m) /\ KeepsWritten(val, p.val, m)
  /\ p.b1 \in 1 .. 2 /\ p.b2 \in 1 .. 2 /\ p.b1 # p.b2
  /\ IsList(p.reads) /\ Len(p.reads) = Len(rows)
  /\ p.reads[1] = Take(val, one, n)
  /\ \A j \in 2 .. Len(rows) : p.reads[j] = rows[j - 1]
  /\ Take(p.val, p.b1, n) = rows[Len(rows)]
  /\ Append(Tail(p.reads), Take(p.val, p.b1, n)) = rows
  /\ \A k \in 1 .. n : p.val[two][k] # Unwritten
  /\ Len(rows) = 1 => p.b1 = two /\ p.val[one] = val[one]

LEMMA PipelineIs ==
  ASSUME NEW m \in Nat, NEW n \in 0 .. m, NEW rows, IsRows(rows, n), Len(rows) # 0,
         NEW val, IsBuffers(val, m), NEW one \in 1 .. 2, NEW two \in 1 .. 2, one # two
  PROVE  PipelineDone(rows, n, val, one, two, m, Pipeline(rows, n, val, one, two))
<1>. DEFINE X == IndicesIn(rows, val)
            L == Len(rows)
            at == CHOOSE h : IsPipeline(rows, n, val, one, two, h)
            p == at[L]
            last == Take(p.val, p.b1, n)
<1>1. val \in Pairs(X, m) /\ \A i \in 1 .. Len(rows) : rows[i] \in Seq(X)
  BY IndicesAre
<1>2. IsList(rows) /\ L \in Nat \ {0} /\ \A i \in 1 .. Len(rows) : Len(rows[i]) = n
  BY DEF IsRows, IsList
<1>. HIDE DEF X
<1>3. IsPipeline(rows, n, val, one, two, at)
  <2>1. \E h : IsPipeline(rows, n, val, one, two, h)
    BY <1>1, <1>2, PipelineExists
  <2>. QED
    BY <2>1
<1>4. Pipeline(rows, n, val, one, two) = p
  BY DEF Pipeline, IsPipeline
<1>. HIDE DEF at
<1>5. p \in States(X, m) /\ Piped(rows, n, val, one, two, p, L)
  <2>1. at[Len(rows)] \in States(X, m) /\ Piped(rows, n, val, one, two, at[Len(rows)], Len(rows))
    BY <1>1, <1>3, PipelineRun
  <2>. QED
    BY <2>1
<1>. HIDE DEF p
<1>6. /\ p.val \in Pairs(X, m) /\ p.reads \in Seq(Seq(X)) /\ p.b1 \in 1 .. 2 /\ p.b2 \in 1 .. 2
      /\ p.b1 # p.b2 /\ Len(p.reads) = L
  BY <1>5 DEF States, Piped
<1>7. IsBuffers(p.val, m) /\ IsList(p.reads)
  BY <1>6, PairsAreBuffers, SeqIsList
<1>. HIDE DEF L
<1>8. /\ p.reads[1] = Take(val, one, n) /\ last = rows[L]
      /\ \A k \in 1 .. n : p.val[two][k] # Unwritten
      /\ \A j \in 2 .. L : p.reads[j] = rows[j - 1]
      /\ L = 1 => p.b1 = two /\ p.val[one] = val[one]
  <2>1. L > 0
    BY <1>2
  <2>. QED
    BY <1>5, <2>1 DEF Piped
<1>9. KeepsWritten(val, p.val, m)
  <2>1. Len(val[1]) = m
    BY <1>1, PairIs
  <2>. QED
    BY <1>5, <2>1 DEF Piped
<1>10. Append(Tail(p.reads), last) = rows
  <2>. DEFINE t == Tail(p.reads)
  <2>. HIDE DEF last
  <2>1. IsList(t) /\ Len(t) = L - 1 /\ \A i \in 1 .. L - 1 : t[i] = p.reads[i + 1]
    BY <1>2, <1>6, <1>7, ListTail
  <2>2. \A i \in 1 .. L - 1 : t[i] = rows[i]
    <3>1. \A i \in 1 .. L - 1 : i + 1 \in 2 .. L /\ (i + 1) - 1 = i
      BY <1>2
    <3>. QED
      BY <1>8, <2>1, <3>1
  <2>. HIDE DEF t
  <2>3. /\ IsList(Append(t, last)) /\ Len(Append(t, last)) = Len(t) + 1
        /\ \A i \in 1 .. Len(t) : Append(t, last)[i] = t[i]
        /\ Append(t, last)[Len(t) + 1] = last
    BY <2>1, ListAppend
  <2>4. Len(t) + 1 = L /\ \A i \in 1 .. L : i \in 1 .. L - 1 \/ i = L
    BY <1>2, <2>1
  <2>5. \A i \in 1 .. L : Append(t, last)[i] = rows[i]
    BY <1>8, <2>1, <2>2, <2>3, <2>4
  <2>6. Append(t, last) = rows
    BY <1>2, <2>3, <2>4, <2>5, SameList DEF L
  <2>. QED
    BY <2>6 DEF t
<1>11. PipelineDone(rows, n, val, one, two, m, p)
  BY <1>6, <1>7, <1>8, <1>9, <1>10 DEF L, PipelineDone
<1>. QED
  BY <1>4, <1>11

\* The loop over unigrams of the generated code.
LEMMA UnigramLoopIs ==
  ASSUME NEW m \in Nat, NEW n \in 0 .. m, NEW rows, IsRows(rows, n), Len(rows) # 0,
         NEW val, IsBuffers(val, m)
  PROVE  LET u == UnigramLoop(rows, n, val)
         IN /\ u.reads = rows /\ u.stale = Take(val, 1, n)
            /\ IsBuffers(u.val, m) /\ KeepsWritten(val, u.val, m)
            /\ \A k \in 1 .. n : u.val[2][k] # Unwritten
<1>. DEFINE p == Pipeline(rows, n, val, 1, 2)
<1>1. /\ IsBuffers(p.val, m) /\ KeepsWritten(val, p.val, m)
      /\ IsList(p.reads) /\ Len(p.reads) = Len(rows) /\ p.reads[1] = Take(val, 1, n)
      /\ Append(Tail(p.reads), Take(p.val, p.b1, n)) = rows
      /\ \A k \in 1 .. n : p.val[2][k] # Unwritten
  <2>1. 1 \in 1 .. 2 /\ 2 \in 1 .. 2 /\ 1 # 2
    OBVIOUS
  <2>2. PipelineDone(rows, n, val, 1, 2, m, p)
    BY <2>1, PipelineIs
  <2>. HIDE DEF p
  <2>. QED
    BY <2>2 DEF PipelineDone
<1>. HIDE DEF p
<1>2. Head(p.reads) = p.reads[1]
  BY <1>1, ListTail
<1>3. UnigramLoop(rows, n, val) =
        [val |-> p.val, stale |-> Head(p.reads), reads |-> Append(Tail(p.reads), Take(p.val, p.b1, n))]
  BY DEF UnigramLoop, p
<1>. QED
  BY <1>1, <1>2, <1>3

-----------------------------------------------------------------------------
(* The n-grams of each order, and the size of the buffers *)

LEMMA GreatestIs ==
  ASSUME NEW S, S \subseteq Nat, S # {}, NEW c \in Nat, \A x \in S : x <= c
  PROVE  Max(S) \in S /\ \A x \in S : x <= Max(S)
<1>. DEFINE T == {c - x : x \in S}
<1>1. T \subseteq Nat /\ T # {}
  <2>1. \A x \in S : c - x \in Nat
    <3>1. \A x \in S : x \in Nat
      OBVIOUS
    <3>. QED
      BY <3>1
  <2>. QED
    BY <2>1
<1>2. PICK d \in T : \A t \in T : d <= t
  <2>. HIDE DEF T
  <2>. QED
    BY <1>1, LeastNumber
<1>3. PICK m \in S : d = c - m
  BY <1>2
<1>4. \A x \in S : c - m <= c - x
  BY <1>2, <1>3
<1>5. \A x \in S : m >= x
  BY <1>4
<1>6. Max(S) \in S /\ \A x \in S : Max(S) >= x
  BY <1>5 DEF Max
<1>. QED
  BY <1>6

Spoken == Specs[cfg.spec]
OfOrder(k) == {i \in DOMAIN Spoken.ngrams : Len(Spoken.ngrams[i]) = k}

LEMMA GramsAre ==
  ASSUME Chosen, NEW k \in 1 .. 3
  PROVE  LET grams == NgramsOf(compiled, k)
         IN /\ IsList(grams) /\ Len(grams) \in Nat /\ DOMAIN grams = 1 .. Len(grams)
            /\ IsFiniteSet(OfOrder(k)) /\ Len(grams) = Cardinality(OfOrder(k))
            /\ \A j \in 1 .. Len(grams) :
                 /\ grams[j][1] \in OfOrder(k)
                 /\ \A h \in 1 .. k :
                      grams[j][h + 1] = Number(Grouped(Spoken), Spoken.ngrams[grams[j][1]][h])
            /\ \A i \in OfOrder(k) : \E j \in 1 .. Len(grams) : grams[j][1] = i
            /\ \A i, j \in 1 .. Len(grams) : grams[i][1] = grams[j][1] => i = j
<1>. DEFINE s == Spoken
            q == s.ngrams
            number(i, h) == Number(Grouped(s), q[i][h])
            c == compiled.ngrams
            I == {i \in DOMAIN c : Len(c[i]) = k}
            those == InOrder(I)
            grams == NgramsOf(compiled, k)
<1>1. s \in ToSet(Specs) /\ compiled = Compile(s)
  BY CompiledSpec DEF Spoken
<1>2. /\ DOMAIN q = 1 .. Len(q) /\ Len(q) \in Nat
      /\ \A i \in DOMAIN q : IsList(q[i]) /\ DOMAIN q[i] = 1 .. Len(q[i])
  <2>. DEFINE C == UNION {ToSet(q[i]) : i \in DOMAIN q}
  <2>1. q \in Seq(Seq(C))
    BY <1>1, NgramsOfCombos
  <2>. HIDE DEF C, q
  <2>2. \A i \in DOMAIN q : q[i] \in Seq(C)
    BY <2>1
  <2>. QED
    BY <2>1, <2>2, SeqIsList
<1>3. c = [i \in DOMAIN q |-> [h \in DOMAIN q[i] |-> number(i, h)]]
  BY <1>1 DEF Compile, Compiled, FillNgramFeatures
<1>. HIDE DEF c, s, number
<1>4. ASSUME NEW i \in DOMAIN q
      PROVE  /\ IsList(c[i]) /\ Len(c[i]) = Len(q[i])
             /\ \A h \in 1 .. Len(q[i]) : c[i][h] = number(i, h)
  <2>. DEFINE m == Len(q[i])
              g == [h \in 1 .. m |-> number(i, h)]
  <2>1. c[i] = g
    BY <1>2, <1>3
  <2>2. m \in Nat
    BY <1>2 DEF IsList
  <2>3. g = [h \in 1 .. m |-> g[h]] /\ \A h \in 1 .. m : g[h] = number(i, h)
    OBVIOUS
  <2>. HIDE DEF m, g
  <2>4. IsList(g) /\ Len(g) = m
    BY <2>2, <2>3, ListOf
  <2>. QED
    BY <2>1, <2>3, <2>4 DEF m
<1>5. DOMAIN c = DOMAIN q
  BY <1>3
<1>6. I = OfOrder(k)
  BY <1>4, <1>5 DEF OfOrder, s
<1>7. IsFiniteSet(I) /\ I \subseteq Int
  <2>1. I \in SUBSET (1 .. Len(q))
    BY <1>2, <1>5
  <2>2. IsFiniteSet(1 .. Len(q))
    BY <1>2, IntervalFinite
  <2>. QED
    BY <2>1, <2>2, FS_Subset
<1>8. /\ Cardinality(I) \in Nat /\ DOMAIN those = 1 .. Cardinality(I)
      /\ \A j \in DOMAIN those : those[j] \in I
      /\ \A x \in I : \E j \in DOMAIN those : those[j] = x
      /\ \A i, j \in DOMAIN those : i < j => those[i] < those[j]
  <2>. HIDE DEF I
  <2>. QED
    BY <1>7, InOrderNumbers
<1>9. grams = [j \in DOMAIN those |-> <<those[j]>> \o c[those[j]]]
  BY DEF NgramsOf, c
<1>. DEFINE m == Cardinality(I)
<1>. HIDE DEF those, grams
<1>10. IsList(grams) /\ Len(grams) = m /\ DOMAIN grams = 1 .. m
  <2>1. m \in Nat /\ grams = [j \in 1 .. m |-> grams[j]]
    BY <1>8, <1>9
  <2>. HIDE DEF m
  <2>. QED
    BY <2>1, ListOf
<1>11. ASSUME NEW j \in 1 .. m
       PROVE  /\ grams[j][1] = those[j] /\ those[j] \in I
              /\ \A h \in 1 .. k : grams[j][h + 1] = number(those[j], h)
  <2>1. those[j] \in I /\ grams[j] = <<those[j]>> \o c[those[j]]
    BY <1>8, <1>9
  <2>2. IsList(c[those[j]]) /\ Len(c[those[j]]) = k /\ \A h \in 1 .. k : c[those[j]][h] = number(those[j], h)
    BY <1>4, <1>5, <2>1
  <2>3. IsList(<<those[j]>>) /\ Len(<<those[j]>>) = 1 /\ <<those[j]>>[1] = those[j]
    <3>1. <<those[j]>> \in Seq({those[j]})
      OBVIOUS
    <3>. QED
      BY <3>1, SeqIsList
  <2>. DEFINE x == <<those[j]>>
              y == c[those[j]]
  <2>. HIDE DEF x, y
  <2>4. /\ \A i \in 1 .. Len(x) : (x \o y)[i] = x[i]
        /\ \A i \in 1 .. Len(y) : (x \o y)[Len(x) + i] = y[i]
    BY <2>2, <2>3, ListConcat DEF x, y
  <2>5. (x \o y)[1] = x[1] /\ \A h \in 1 .. k : (x \o y)[1 + h] = y[h]
    BY <2>2, <2>3, <2>4 DEF x, y
  <2>6. \A h \in 1 .. k : 1 + h = h + 1
    OBVIOUS
  <2>. QED
    BY <2>1, <2>2, <2>3, <2>5, <2>6 DEF x, y
<1>12. \A i, j \in 1 .. m : those[i] = those[j] => i = j
  <2>1. ASSUME NEW i \in 1 .. m, NEW j \in 1 .. m, those[i] = those[j], i # j PROVE FALSE
    <3>1. i < j \/ j < i
      BY <1>8, <2>1
    <3>2. those[i] \in Int /\ those[j] \in Int
      BY <1>7, <1>8
    <3>. QED
      BY <1>8, <2>1, <3>1, <3>2
  <2>. QED
    BY <2>1
<1>13. \A i \in I : \E j \in 1 .. m : those[j] = i
  BY <1>8
<1>14. \A j \in 1 .. m : /\ grams[j][1] \in I
                         /\ \A h \in 1 .. k : grams[j][h + 1] = Number(Grouped(Spoken), Spoken.ngrams[grams[j][1]][h])
  BY <1>11 DEF number, s
<1>15. \A i \in I : \E j \in 1 .. m : grams[j][1] = i
  BY <1>11, <1>13
<1>16. \A i, j \in 1 .. m : grams[i][1] = grams[j][1] => i = j
  BY <1>11, <1>12
<1>. HIDE DEF I
<1>. QED
  BY <1>6, <1>7, <1>8, <1>10, <1>14, <1>15, <1>16 DEF grams, m

Most == Max({Len(Unigrams), Len(Bigrams), Len(Trigrams)})

\* There is room for a row of indices of any order.
LEMMA MostIs ==
  ASSUME Chosen
  PROVE  /\ Most \in Nat
         /\ Len(Unigrams) \in 0 .. Most /\ Len(Bigrams) \in 0 .. Most /\ Len(Trigrams) \in 0 .. Most
         /\ IsList(Unigrams) /\ IsList(Bigrams) /\ IsList(Trigrams)
         /\ Most = Max({Len(NgramsOf(compiled, k)) : k \in 1 .. 3})
<1>1. /\ IsList(Unigrams) /\ Len(Unigrams) \in Nat
      /\ IsList(Bigrams) /\ Len(Bigrams) \in Nat
      /\ IsList(Trigrams) /\ Len(Trigrams) \in Nat
  BY GramsAre DEF Unigrams, Bigrams, Trigrams
<1>. DEFINE a == Len(Unigrams)
            b == Len(Bigrams)
            c == Len(Trigrams)
            S == {a, b, c}
<1>2. S = {Len(NgramsOf(compiled, k)) : k \in 1 .. 3}
  <2>1. 1 .. 3 = {1, 2, 3}
    OBVIOUS
  <2>. QED
    BY <2>1 DEF Unigrams, Bigrams, Trigrams
<1>. HIDE DEF a, b, c
<1>3. a + b + c \in Nat /\ \A x \in S : x <= a + b + c
  BY <1>1 DEF a, b, c
<1>4. a \in Nat /\ b \in Nat /\ c \in Nat
  BY <1>1 DEF a, b, c
<1>8. S \subseteq Nat /\ S # {} /\ a \in S /\ b \in S /\ c \in S
  BY <1>4
<1>. HIDE DEF S
<1>5. Max(S) \in S /\ \A x \in S : x <= Max(S)
  BY <1>3, <1>8, GreatestIs
<1>6. Most = Max(S)
  BY DEF Most, S, a, b, c
<1>7. Max(S) \in Nat /\ a \in 0 .. Max(S) /\ b \in 0 .. Max(S) /\ c \in 0 .. Max(S)
  <2>. DEFINE x == Max(S)
  <2>1. x \in Nat /\ a <= x /\ b <= x /\ c <= x
    BY <1>5, <1>8
  <2>. HIDE DEF x
  <2>2. x \in Nat /\ a \in 0 .. x /\ b \in 0 .. x /\ c \in 0 .. x
    BY <1>4, <2>1
  <2>. QED
    BY <2>2 DEF x
<1>. QED
  BY <1>1, <1>2, <1>6, <1>7 DEF a, b, c

-----------------------------------------------------------------------------
(* The rows of indices *)

BiIndex(f, r0, r1) == <<4, f[1], "bi", r0[f[2]], r1[f[3]]>>
TriIndex(f, r0, r1, r2) == <<5, f[1], "tri", r0[f[2]], r1[f[3]], r2[f[4]]>>
BiRow(r0, r1) == [i \in DOMAIN Bigrams |-> BiIndex(Bigrams[i], r0, r1)]
TriRow(r0, r1, r2) == [i \in DOMAIN Trigrams |-> TriIndex(Trigrams[i], r0, r1, r2)]

LEMMA ShortLists ==
  ASSUME NEW a, NEW b, NEW c, NEW d, NEW e, NEW g
  PROVE  /\ IsList(<<a, b, c, d>>) /\ Len(<<a, b, c, d>>) = 4
         /\ IsList(<<a, b, c, d, e>>) /\ Len(<<a, b, c, d, e>>) = 5
         /\ IsList(<<a, b, c, d, e, g>>) /\ Len(<<a, b, c, d, e, g>>) = 6
<1>. DEFINE C == {a, b, c, d, e, g}
<1>1. <<a, b, c, d>> \in Seq(C) /\ <<a, b, c, d, e>> \in Seq(C) /\ <<a, b, c, d, e, g>> \in Seq(C)
  OBVIOUS
<1>2. IsList(<<a, b, c, d>>) /\ IsList(<<a, b, c, d, e>>) /\ IsList(<<a, b, c, d, e, g>>)
  BY <1>1, SeqIsList
<1>. QED
  BY <1>2

LEMMA MixOne ==
  ASSUME NEW a, NEW b, NEW c, NEW d, NEW e
  PROVE  Append(<<a, b, c, d>>, e) = <<a, b, c, d, e>>
<1>. DEFINE x == <<a, b, c, d>>
            y == <<a, b, c, d, e>>
<1>1. /\ IsList(x) /\ Len(x) = 4 /\ x[1] = a /\ x[2] = b /\ x[3] = c /\ x[4] = d
      /\ IsList(y) /\ Len(y) = 5 /\ y[1] = a /\ y[2] = b /\ y[3] = c /\ y[4] = d /\ y[5] = e
  BY ShortLists
<1>. HIDE DEF x, y
<1>2. /\ IsList(Append(x, e)) /\ Len(Append(x, e)) = Len(x) + 1
      /\ \A i \in 1 .. Len(x) : Append(x, e)[i] = x[i]
      /\ Append(x, e)[Len(x) + 1] = e
  <2>1. IsList(x)
    BY <1>1
  <2>. QED
    BY <2>1, ListAppend
<1>3. \A i \in 1 .. 5 : i \in 1 .. 4 \/ i = 5
  OBVIOUS
<1>4. 1 .. 4 = {1, 2, 3, 4} /\ 4 + 1 = 5
  OBVIOUS
<1>5. \A i \in 1 .. 5 : Append(x, e)[i] = y[i]
  BY <1>1, <1>2, <1>3, <1>4
<1>6. Append(x, e) = y
  BY <1>1, <1>2, <1>4, <1>5, SameList
<1>. QED
  BY <1>6 DEF x, y

LEMMA MixTwo ==
  ASSUME NEW a, NEW b, NEW c, NEW d, NEW e, NEW g
  PROVE  Append(<<a, b, c, d, e>>, g) = <<a, b, c, d, e, g>>
<1>. DEFINE x == <<a, b, c, d, e>>
            y == <<a, b, c, d, e, g>>
<1>1. /\ IsList(x) /\ Len(x) = 5 /\ x[1] = a /\ x[2] = b /\ x[3] = c /\ x[4] = d /\ x[5] = e
      /\ IsList(y) /\ Len(y) = 6 /\ y[1] = a /\ y[2] = b /\ y[3] = c /\ y[4] = d /\ y[5] = e /\ y[6] = g
  BY ShortLists
<1>. HIDE DEF x, y
<1>2. /\ IsList(Append(x, g)) /\ Len(Append(x, g)) = Len(x) + 1
      /\ \A i \in 1 .. Len(x) : Append(x, g)[i] = x[i]
      /\ Append(x, g)[Len(x) + 1] = g
  <2>1. IsList(x)
    BY <1>1
  <2>. QED
    BY <2>1, ListAppend
<1>3. \A i \in 1 .. 6 : i \in 1 .. 5 \/ i = 6
  OBVIOUS
<1>4. 1 .. 5 = {1, 2, 3, 4, 5} /\ 5 + 1 = 6
  OBVIOUS
<1>5. \A i \in 1 .. 6 : Append(x, g)[i] = y[i]
  BY <1>1, <1>2, <1>3, <1>4
<1>6. Append(x, g) = y
  BY <1>1, <1>2, <1>4, <1>5, SameList
<1>. QED
  BY <1>6 DEF x, y

LEMMA IndicesAreWritten ==
  ASSUME NEW f, NEW r0, NEW r1, NEW r2
  PROVE  /\ UniIndex(f, r0) # Unwritten /\ BiIndex(f, r0, r1) # Unwritten
         /\ TriIndex(f, r0, r1, r2) # Unwritten
<1>1. /\ Len(UniIndex(f, r0)) = 4 /\ Len(BiIndex(f, r0, r1)) = 5 /\ Len(TriIndex(f, r0, r1, r2)) = 6
  BY ShortLists DEF UniIndex, BiIndex, TriIndex
<1>2. Len(Unwritten) = 0
  BY EmptyList DEF Unwritten
<1>. QED
  BY <1>1, <1>2

\* What the steps over the n-grams of an order come to, and that they write
\* every index.
LEMMA IndexRows ==
  ASSUME Chosen, NEW r0, NEW r1, NEW r2
  PROVE  /\ BiStep1(BiStep0(r0), r1) = BiRow(r0, r1)
         /\ TriStep2(TriStep1(TriStep0(r0), r1), r2) = TriRow(r0, r1, r2)
         /\ IsList(UniRow(r0)) /\ Len(UniRow(r0)) = Len(Unigrams) /\ AllWritten(UniRow(r0))
         /\ IsList(BiRow(r0, r1)) /\ Len(BiRow(r0, r1)) = Len(Bigrams) /\ AllWritten(BiRow(r0, r1))
         /\ IsList(TriRow(r0, r1, r2)) /\ Len(TriRow(r0, r1, r2)) = Len(Trigrams)
         /\ AllWritten(TriRow(r0, r1, r2))
<1>1. /\ DOMAIN Unigrams = 1 .. Len(Unigrams) /\ Len(Unigrams) \in Nat
      /\ DOMAIN Bigrams = 1 .. Len(Bigrams) /\ Len(Bigrams) \in Nat
      /\ DOMAIN Trigrams = 1 .. Len(Trigrams) /\ Len(Trigrams) \in Nat
  BY GramsAre DEF Unigrams, Bigrams, Trigrams
<1>2. BiStep1(BiStep0(r0), r1) = BiRow(r0, r1)
  <2>1. ASSUME NEW i \in DOMAIN Bigrams PROVE Mix1(Bigrams[i], BiStep0(r0)[i], r1) = BiIndex(Bigrams[i], r0, r1)
    <3>. DEFINE f == Bigrams[i]
    <3>1. BiStep0(r0)[i] = <<4, f[1], "bi", r0[f[2]]>>
      BY DEF BiStep0, BiState
    <3>. HIDE DEF f
    <3>2. Append(<<4, f[1], "bi", r0[f[2]]>>, r1[f[3]]) = <<4, f[1], "bi", r0[f[2]], r1[f[3]]>>
      BY MixOne
    <3>. QED
      BY <3>1, <3>2 DEF Mix1, BiIndex, f
  <2>. QED
    BY <2>1 DEF BiStep1, BiRow
<1>3. TriStep2(TriStep1(TriStep0(r0), r1), r2) = TriRow(r0, r1, r2)
  <2>1. ASSUME NEW i \in DOMAIN Trigrams
        PROVE  Mix2(Trigrams[i], TriStep1(TriStep0(r0), r1)[i], r2) = TriIndex(Trigrams[i], r0, r1, r2)
    <3>. DEFINE f == Trigrams[i]
                s == <<5, f[1], "tri", r0[f[2]]>>
                t == <<5, f[1], "tri", r0[f[2]], r1[f[3]]>>
    <3>1. TriStep0(r0)[i] = s
      BY DEF TriStep0, TriState
    <3>2. TriStep1(TriStep0(r0), r1)[i] = Append(s, r1[f[3]])
      BY <3>1 DEF TriStep1, Mix1
    <3>. HIDE DEF f
    <3>3. Append(s, r1[f[3]]) = t
      BY MixOne
    <3>4. Append(t, r2[f[4]]) = <<5, f[1], "tri", r0[f[2]], r1[f[3]], r2[f[4]]>>
      BY MixTwo
    <3>. HIDE DEF s, t
    <3>. QED
      BY <3>2, <3>3, <3>4 DEF Mix2, TriIndex, f
  <2>. QED
    BY <2>1 DEF TriStep2, TriRow
<1>4. IsList(UniRow(r0)) /\ Len(UniRow(r0)) = Len(Unigrams) /\ AllWritten(UniRow(r0))
  <2>. DEFINE q == UniRow(r0)
              m == Len(Unigrams)
  <2>1. q = [i \in 1 .. m |-> q[i]] /\ \A i \in 1 .. m : q[i] = UniIndex(Unigrams[i], r0)
    BY <1>1 DEF UniRow
  <2>2. \A i \in 1 .. m : UniIndex(Unigrams[i], r0) # Unwritten
    BY IndicesAreWritten
  <2>. HIDE DEF q, m
  <2>3. m \in Nat
    BY <1>1 DEF m
  <2>4. IsList(q) /\ Len(q) = m
    BY <2>1, <2>3, ListOf
  <2>. QED
    BY <2>1, <2>2, <2>4 DEF AllWritten, q, m
<1>5. IsList(BiRow(r0, r1)) /\ Len(BiRow(r0, r1)) = Len(Bigrams) /\ AllWritten(BiRow(r0, r1))
  <2>. DEFINE q == BiRow(r0, r1)
              m == Len(Bigrams)
  <2>1. q = [i \in 1 .. m |-> q[i]] /\ \A i \in 1 .. m : q[i] = BiIndex(Bigrams[i], r0, r1)
    BY <1>1 DEF BiRow
  <2>2. \A i \in 1 .. m : BiIndex(Bigrams[i], r0, r1) # Unwritten
    BY IndicesAreWritten
  <2>. HIDE DEF q, m
  <2>3. m \in Nat
    BY <1>1 DEF m
  <2>4. IsList(q) /\ Len(q) = m
    BY <2>1, <2>3, ListOf
  <2>. QED
    BY <2>1, <2>2, <2>4 DEF AllWritten, q, m
<1>6. IsList(TriRow(r0, r1, r2)) /\ Len(TriRow(r0, r1, r2)) = Len(Trigrams) /\ AllWritten(TriRow(r0, r1, r2))
  <2>. DEFINE q == TriRow(r0, r1, r2)
              m == Len(Trigrams)
  <2>1. q = [i \in 1 .. m |-> q[i]] /\ \A i \in 1 .. m : q[i] = TriIndex(Trigrams[i], r0, r1, r2)
    BY <1>1 DEF TriRow
  <2>2. \A i \in 1 .. m : TriIndex(Trigrams[i], r0, r1, r2) # Unwritten
    BY IndicesAreWritten
  <2>. HIDE DEF q, m
  <2>3. m \in Nat
    BY <1>1 DEF m
  <2>4. IsList(q) /\ Len(q) = m
    BY <2>1, <2>3, ListOf
  <2>. QED
    BY <2>1, <2>2, <2>4 DEF AllWritten, q, m
<1>. QED
  BY <1>2, <1>3, <1>4, <1>5, <1>6

\* A boundary has no more nodes than there are states for.
LEMMA StartsFit ==
  ASSUME NEW l, IsLattice(l), NEW b \in 2 .. l.n + 2
  PROVE  LET m == Max({Cardinality(RowOf(l, k)) : k \in 2 .. l.n + 2})
         IN m \in Nat /\ Cardinality(RowOf(l, b)) \in 0 .. m
<1>. DEFINE S == {Cardinality(RowOf(l, k)) : k \in 2 .. l.n + 2}
            c == Cardinality(NodesOf(l))
<1>1. \A k \in 2 .. l.n + 2 : Cardinality(RowOf(l, k)) \in Nat /\ Cardinality(RowOf(l, k)) <= c /\ c \in Nat
  <2>1. IsFiniteSet(NodesOf(l))
    BY NodesFinite
  <2>2. ASSUME NEW k \in 2 .. l.n + 2 PROVE IsFiniteSet(RowOf(l, k)) /\ Cardinality(RowOf(l, k)) <= c
    <3>1. RowOf(l, k) \in SUBSET NodesOf(l)
      BY DEF RowOf
    <3>. QED
      BY <2>1, <3>1, FS_Subset
  <2>. QED
    BY <2>1, <2>2, FS_CardinalityType
<1>2. S \subseteq Nat /\ S # {} /\ Cardinality(RowOf(l, b)) \in S
  BY <1>1
<1>3. c \in Nat /\ \A x \in S : x <= c
  BY <1>1
<1>. HIDE DEF S, c
<1>4. Max(S) \in S /\ \A x \in S : x <= Max(S)
  BY <1>2, <1>3, GreatestIs
<1>5. Max(S) \in Nat /\ Cardinality(RowOf(l, b)) \in Nat /\ Cardinality(RowOf(l, b)) <= Max(S)
  BY <1>2, <1>4
<1>6. Max(S) \in Nat /\ Cardinality(RowOf(l, b)) \in 0 .. Max(S)
  BY <1>5
<1>. QED
  BY <1>6 DEF S

LEMMA RowFits ==
  ASSUME NgInv, phase # "done"
  PROVE  /\ MaxStarts \in Nat /\ Len(Row(bnd)) \in 0 .. MaxStarts
         /\ MaxStarts = Max({Cardinality(RowOf(lat, k)) : k \in 2 .. lat.n + 2})
         /\ DOMAIN Row(bnd) = 1 .. Len(Row(bnd)) /\ IsList(Row(bnd))
<1>1. IsLattice(lat) /\ bnd \in 2 .. lat.n + 2
  BY LatticesAssumption DEF NgInv, Config, Standing
<1>2. ASSUME NEW b PROVE /\ Len(Row(b)) = Cardinality(RowOf(lat, b)) /\ Len(Row(b)) \in Nat
                         /\ DOMAIN Row(b) = 1 .. Len(Row(b)) /\ IsList(Row(b))
  <2>. DEFINE m == Cardinality(RowOf(lat, b))
  <2>1. Len(Row(b)) \in Nat /\ DOMAIN Row(b) = 1 .. Len(Row(b))
    BY <1>1, RowLists
  <2>2. Row(b) = [i \in 1 .. m |-> <<b, i>>]
    BY DEF Row
  <2>3. Row(b) = [i \in 1 .. m |-> Row(b)[i]]
    BY <2>2
  <2>4. m \in Nat
    <3>1. RowOf(lat, b) \in SUBSET NodesOf(lat)
      BY DEF RowOf
    <3>. QED
      BY <1>1, <3>1, NodesFinite, FS_Subset, FS_CardinalityType
  <2>. HIDE DEF m
  <2>5. IsList(Row(b)) /\ Len(Row(b)) = m
    BY <2>3, <2>4, ListOf
  <2>. QED
    BY <2>1, <2>5 DEF m
<1>3. MaxStarts = Max({Cardinality(RowOf(lat, k)) : k \in 2 .. lat.n + 2})
  BY <1>2 DEF MaxStarts
<1>. QED
  BY <1>1, <1>2, <1>3, StartsFit

-----------------------------------------------------------------------------
(* The shared buffers while a sentence is scored *)

At(i) == patterns[Row(bnd)[i]]
UniAt(i) == UniRow(IF Static THEN FullRow(Row(bnd)[i]) ELSE At(i))
LeftRow == patterns[Ends(bnd)[left]]
R1(i) == patterns[gb.elems[i][1]]
R2(i) == patterns[Previous(gb.elems[i])[1]]

\* The buffers are as long as the longest row of indices needs.  All of the
\* first one has been written since it was made, and of the second one what the
\* loop over unigrams of the generated code writes.
Shaped ==
  /\ IsBuffers(buf.val, Most)
  /\ \A k \in 1 .. Most : buf.val[1][k] # Unwritten
  /\ Static /\ phase \in {"gbeam", "prescores", "node"} =>
       \A k \in 1 .. Len(Unigrams) : buf.val[2][k] # Unwritten
  /\ IsList(buf.t1) /\ IsList(buf.t2a) /\ IsList(buf.t2b)
  /\ Len(buf.t1) = MaxStarts /\ Len(buf.t2a) = MaxStarts /\ Len(buf.t2b) = MaxStarts
  /\ IsList(result) /\ Len(result) = cfg.gbeam

\* Once a boundary has been started, the states of its nodes are there, and the
\* sums over their unigrams.
Hashed ==
  phase \notin {"t0", "done"} =>
    /\ buf.cur = Len(Row(bnd)) /\ IsList(t0s) /\ Len(t0s) = Len(Row(bnd))
    /\ \A i \in 1 .. Len(Row(bnd)) :
         /\ buf.t1[i] = BiStep0(At(i)) /\ buf.t2a[i] = TriStep0(At(i))
         /\ t0s[i] = ToBag(UniAt(i))

\* Between the node before and the node before that one.
Halfway ==
  phase = "t2" =>
    /\ IsList(t1s) /\ Len(t1s) = Len(Row(bnd))
    /\ \A i \in 1 .. Len(Row(bnd)) :
         /\ t1s[i] = t0s[i] (+) ToBag(BiRow(At(i), LeftRow))
         /\ buf.t2b[i] = TriStep1(TriStep0(At(i)), LeftRow)

\* The prescores are those of the best elements with each node of the boundary.
Prescored ==
  phase \in {"prescores", "node"} =>
    /\ IsList(pre)
    /\ Len(pre) <= Atmost(cfg.check, Len(gb.elems))
    /\ phase = "node" => Len(pre) = Atmost(cfg.check, Len(gb.elems))
    /\ \A i \in 1 .. Len(pre) :
         /\ IsList(pre[i]) /\ Len(pre[i]) = Len(Row(bnd))
         /\ \A j \in 1 .. Len(Row(bnd)) :
              pre[i][j] = (t0s[j] (+) ToBag(BiRow(At(j), R1(i)))) (+) ToBag(TriRow(At(j), R1(i), R2(i)))

BufferInv == RowsInv /\ Shaped /\ Hashed /\ Halfway /\ Prescored /\ IndicesWritten

\* What depends on the settings alone.
LEMMA GramsStay ==
  ASSUME UNCHANGED cfg
  PROVE  /\ Unigrams' = Unigrams /\ Bigrams' = Bigrams /\ Trigrams' = Trigrams
         /\ Most' = Most /\ MaxStarts' = MaxStarts /\ (Static <=> Static')
         /\ \A v : FullRow(v)' = FullRow(v)
<1>1. compiled' = compiled /\ lat' = lat /\ (Static <=> Static') /\ \A b : Row(b)' = Row(b)
  BY SameSettings
<1>2. Unigrams' = Unigrams /\ Bigrams' = Bigrams /\ Trigrams' = Trigrams
  BY <1>1 DEF Unigrams, Bigrams, Trigrams
<1>3. Most' = Most
  BY <1>2 DEF Most
<1>4. MaxStarts' = MaxStarts
  BY <1>1 DEF MaxStarts
<1>. QED
  BY <1>1, <1>2, <1>3, <1>4 DEF FullRow

\* And on the rows of patterns.
LEMMA StatesStay ==
  ASSUME UNCHANGED <<cfg, bnd>>, NEW i, NEW r, At(i)' = r
  PROVE  /\ BiStep0(At(i))' = BiStep0(r) /\ TriStep0(At(i))' = TriStep0(r)
         /\ \A x : BiRow(At(i), x)' = BiRow(r, x)
         /\ \A x, y : TriRow(At(i), x, y)' = TriRow(r, x, y)
         /\ \A x : TriStep1(TriStep0(At(i)), x)' = TriStep1(TriStep0(r), x)
         /\ ~Static => UniAt(i)' = UniRow(r)
         /\ Static => UniAt(i)' = UniRow(FullRow(Row(bnd)[i]))
<1>1. /\ Unigrams' = Unigrams /\ Bigrams' = Bigrams /\ Trigrams' = Trigrams /\ (Static <=> Static')
      /\ \A v : FullRow(v)' = FullRow(v)
      /\ Row(bnd)' = Row(bnd)
  BY GramsStay, RowsStay
<1>2. BiStep0(At(i))' = BiStep0(r) /\ TriStep0(At(i))' = TriStep0(r)
  BY <1>1 DEF BiStep0, TriStep0
<1>3. /\ \A x : BiRow(At(i), x)' = BiRow(r, x)
      /\ \A x, y : TriRow(At(i), x, y)' = TriRow(r, x, y)
  BY <1>1 DEF BiRow, TriRow
<1>4. \A x : TriStep1(TriStep0(At(i)), x)' = TriStep1(TriStep0(r), x)
  BY <1>1, <1>2 DEF TriStep1
<1>5. ~Static => UniAt(i)' = UniRow(r)
  BY <1>1 DEF UniAt, UniRow
<1>6. Static => UniAt(i)' = UniRow(FullRow(Row(bnd)[i]))
  <2>1. FullRow(Row(bnd)[i])' = FullRow(Row(bnd)[i])
    BY <1>1 DEF FullRow
  <2>. QED
    BY <1>1, <2>1 DEF UniAt, UniRow
<1>. QED
  BY <1>2, <1>3, <1>4, <1>5, <1>6

LEMMA HashedStays ==
  ASSUME Hashed, UNCHANGED <<cfg, bnd, patterns, t0s>>, phase \notin {"t0", "done"},
         buf'.cur = buf.cur, buf'.t1 = buf.t1, buf'.t2a = buf.t2a
  PROVE  Hashed' /\ \A i : At(i)' = At(i)
<1>1. Row(bnd)' = Row(bnd) /\ \A v : FullRow(v)' = FullRow(v)
  BY RowsStay, GramsStay
<1>2. \A i : At(i)' = At(i)
  BY <1>1 DEF At
<1>3. ASSUME NEW i \in 1 .. Len(Row(bnd))
      PROVE  /\ buf'.t1[i] = BiStep0(At(i))' /\ buf'.t2a[i] = TriStep0(At(i))'
             /\ t0s'[i] = ToBag(UniAt(i))'
  <2>1. buf.t1[i] = BiStep0(At(i)) /\ buf.t2a[i] = TriStep0(At(i)) /\ t0s[i] = ToBag(UniAt(i))
    BY DEF Hashed
  <2>2. BiStep0(At(i))' = BiStep0(At(i)) /\ TriStep0(At(i))' = TriStep0(At(i))
    BY <1>2, StatesStay
  <2>3. UniAt(i)' = UniAt(i)
    BY <1>2, StatesStay DEF UniAt
  <2>. QED
    BY <2>1, <2>2, <2>3
<1>. QED
  BY <1>1, <1>2, <1>3 DEF Hashed

LEMMA InitBuffers == Init => BufferInv
<1>. SUFFICES ASSUME Init PROVE BufferInv
  OBVIOUS
<1>1. RowsInv
  BY InitRows
<1>2. phase \in {"t0", "done"} /\ trouble = {}
  BY DEF Init
<1>3. Hashed /\ Halfway /\ Prescored /\ IndicesWritten
  BY <1>2 DEF Hashed, Halfway, Prescored, IndicesWritten
<1>4. Chosen /\ IsLattice(lat) /\ cfg.gbeam \in Nat /\ lat.n \in Nat
  BY <1>1, LatticesAssumption DEF RowsInv, NgInv, Config, IsLattice
<1>5. /\ Most \in Nat /\ Most = Max({Len(NgramsOf(compiled, k)) : k \in 1 .. 3})
  BY <1>4, MostIs
<1>. DEFINE starts == Max({Cardinality(RowOf(lat, k)) : k \in 2 .. lat.n + 2})
<1>6. MaxStarts = starts /\ starts \in Nat
  <2>1. \A b : Len(Row(b)) = Cardinality(RowOf(lat, b))
    <3>1. ASSUME NEW b PROVE Len(Row(b)) = Cardinality(RowOf(lat, b))
      <4>. DEFINE m == Cardinality(RowOf(lat, b))
      <4>1. RowOf(lat, b) \in SUBSET NodesOf(lat)
        BY DEF RowOf
      <4>2. m \in Nat
        BY <1>4, <4>1, NodesFinite, FS_Subset, FS_CardinalityType
      <4>3. Row(b) = [i \in 1 .. m |-> <<b, i>>]
        BY DEF Row
      <4>4. Row(b) = [i \in 1 .. m |-> Row(b)[i]]
        BY <4>3
      <4>. HIDE DEF m
      <4>5. Len(Row(b)) = m
        BY <4>2, <4>4, ListOf
      <4>. QED
        BY <4>5 DEF m
    <3>. QED
      BY <3>1
  <2>2. MaxStarts = starts
    BY <2>1 DEF MaxStarts
  <2>3. 2 \in 2 .. lat.n + 2
    BY <1>4
  <2>4. starts \in Nat
    BY <1>4, <2>3, StartsFit
  <2>. QED
    BY <2>2, <2>4
<1>. HIDE DEF starts
<1>7. buf = NewFeatureBuffer(lat, compiled)
  BY DEF Init, lat
<1>8. /\ buf.val = <<[i \in 1 .. Most |-> ZeroIndex], [i \in 1 .. Most |-> Unwritten]>>
      /\ buf.t1 = [r \in 1 .. starts |-> buf.t1[r]]
      /\ buf.t2a = [r \in 1 .. starts |-> buf.t2a[r]]
      /\ buf.t2b = [r \in 1 .. starts |-> buf.t2b[r]]
  BY <1>5, <1>7 DEF NewFeatureBuffer, BufferOf, starts
<1>9. /\ IsList(buf.t1) /\ IsList(buf.t2a) /\ IsList(buf.t2b)
      /\ Len(buf.t1) = MaxStarts /\ Len(buf.t2a) = MaxStarts /\ Len(buf.t2b) = MaxStarts
  BY <1>6, <1>8, ListOf
<1>10. IsBuffers(buf.val, Most) /\ \A k \in 1 .. Most : buf.val[1][k] # Unwritten
  <2>. DEFINE x == [i \in 1 .. Most |-> ZeroIndex]
              y == [i \in 1 .. Most |-> Unwritten]
  <2>1. x = [i \in 1 .. Most |-> x[i]] /\ y = [i \in 1 .. Most |-> y[i]]
    OBVIOUS
  <2>2. \A k \in 1 .. Most : x[k] # Unwritten
    <3>1. ZeroIndex # Unwritten
      BY DEF ZeroIndex, Unwritten
    <3>. QED
      BY <3>1
  <2>. HIDE DEF x, y
  <2>3. IsList(x) /\ Len(x) = Most /\ IsList(y) /\ Len(y) = Most
    BY <1>5, <2>1, ListOf
  <2>4. <<x, y>> = [b \in 1 .. 2 |-> <<x, y>>[b]] /\ <<x, y>>[1] = x /\ <<x, y>>[2] = y
    OBVIOUS
  <2>5. \A b \in 1 .. 2 : IsList(<<x, y>>[b]) /\ Len(<<x, y>>[b]) = Most
    <3>1. \A b \in 1 .. 2 : b = 1 \/ b = 2
      OBVIOUS
    <3>. QED
      BY <2>3, <2>4, <3>1
  <2>6. buf.val = <<x, y>>
    BY <1>8 DEF x, y
  <2>. QED
    BY <2>2, <2>4, <2>5, <2>6 DEF IsBuffers
<1>11. IsList(result) /\ Len(result) = cfg.gbeam
  <2>1. result = [i \in 1 .. cfg.gbeam |-> EmptyBag]
    BY DEF Init
  <2>2. result = [i \in 1 .. cfg.gbeam |-> result[i]]
    BY <2>1
  <2>. QED
    BY <1>4, <2>2, ListOf
<1>12. Shaped
  BY <1>2, <1>9, <1>10, <1>11 DEF Shaped
<1>. QED
  BY <1>1, <1>3, <1>12 DEF BufferInv

\* A step that leaves the buffers alone.
LEMMA ShapedStays ==
  ASSUME Shaped, UNCHANGED <<cfg, buf>>, IsList(result'), Len(result') = cfg.gbeam,
         phase' \in {"gbeam", "prescores", "node"} => phase \in {"gbeam", "prescores", "node"}
  PROVE  Shaped'
<1>1. /\ Unigrams' = Unigrams /\ Most' = Most /\ MaxStarts' = MaxStarts /\ (Static <=> Static')
  BY GramsStay
<1>. QED
  BY <1>1 DEF Shaped, IsBuffers

LEMMA WrittenStays ==
  ASSUME IndicesWritten, trouble' = trouble \/ trouble' = trouble \cup {"outside"}
  PROVE  IndicesWritten'
<1>1. "unwritten index" \notin trouble \cup {"outside"}
  BY DEF IndicesWritten
<1>. QED
  BY <1>1 DEF IndicesWritten

\* Sums of rows without an unwritten index.
LEMMA WatchClean ==
  ASSUME NEW reads, \A j \in DOMAIN reads : Unwritten \notin ToSet(reads[j])
  PROVE  Watch(reads) = trouble
BY DEF Watch

LEMMA RowsClean ==
  ASSUME NEW row, IsList(row), AllWritten(row)
  PROVE  Unwritten \notin ToSet(row)
<1>1. DOMAIN row = 1 .. Len(row)
  BY ListIn
<1>. QED
  BY <1>1 DEF AllWritten, ToSet

\* Going on with the buffers as they are: to the next node before, or from one
\* boundary to the next.
LEMMA LeavesBuffers ==
  ASSUME BufferInv, SkipBoundary \/ NextLeft \/ MakeBeams \/ EndBoundary
  PROVE  Shaped' /\ Hashed' /\ Halfway' /\ Prescored' /\ IndicesWritten'
<1>1. /\ UNCHANGED <<cfg, buf, result, patterns, t0s, trouble>>
      /\ phase' \in {"t0", "done"} \/ (phase = "t2" /\ phase' = "t1" /\ bnd' = bnd)
  BY DEF SkipBoundary, NextLeft, MakeBeams, EndBoundary, NextBoundary
<1>2. Shaped'
  BY <1>1, ShapedStays DEF BufferInv, Shaped
<1>3. Halfway' /\ Prescored'
  BY <1>1 DEF Halfway, Prescored
<1>4. Hashed'
  <2>1. CASE phase' \in {"t0", "done"}
    BY <2>1 DEF Hashed
  <2>2. CASE phase = "t2" /\ bnd' = bnd
    BY <1>1, <2>2, HashedStays DEF BufferInv
  <2>. QED
    BY <1>1, <2>1, <2>2
<1>5. IndicesWritten'
  BY <1>1 DEF BufferInv, IndicesWritten
<1>. QED
  BY <1>2, <1>3, <1>4, <1>5

LEMMA GlobalBeamLeavesBuffers ==
  ASSUME BufferInv, MakeGlobalBeam
  PROVE  Shaped' /\ Hashed' /\ Halfway' /\ Prescored' /\ IndicesWritten'
<1>1. /\ UNCHANGED <<cfg, bnd, buf, result, patterns, t0s, trouble>>
      /\ phase = "gbeam" /\ phase' = (IF cfg.check > 0 THEN "prescores" ELSE "node")
      /\ pre' = <<>>
  BY DEF MakeGlobalBeam
<1>2. Shaped'
  BY <1>1, ShapedStays DEF BufferInv, Shaped
<1>3. Hashed' /\ IndicesWritten'
  BY <1>1, HashedStays DEF BufferInv, IndicesWritten
<1>4. Halfway'
  BY <1>1 DEF Halfway
<1>5. IsList(gb'.elems) /\ Len(gb'.elems) \in Nat /\ cfg.check \in Nat
  <2>1. Copied'
    BY GlobalBeamKeepsRows DEF BufferInv
  <2>2. phase' \in {"prescores", "node"}
    BY <1>1
  <2>. QED
    BY <2>1, <2>2 DEF Copied, IsList, BufferInv, RowsInv, NgInv, Config
<1>6. Prescored'
  <2>1. IsList(pre') /\ Len(pre') = 0
    BY <1>1, EmptyList
  <2>2. 0 <= Atmost(cfg.check, Len(gb'.elems)) /\ (cfg.check = 0 => Atmost(cfg.check, Len(gb'.elems)) = 0)
    BY <1>5 DEF Atmost
  <2>3. phase' = "node" => cfg.check = 0
    BY <1>1, <1>5
  <2>4. Atmost(cfg.check, Len(gb.elems))' = Atmost(cfg.check, Len(gb'.elems))
    BY <1>1 DEF Atmost
  <2>5. 1 .. Len(pre') = {}
    BY <2>1
  <2>. QED
    BY <2>1, <2>2, <2>3, <2>4, <2>5 DEF Prescored
<1>. QED
  BY <1>2, <1>3, <1>4, <1>6

\* The order of the nodes is none of the prescores' concern.
LEMMA PrescoredStays ==
  ASSUME BufferInv, phase \in {"prescores", "node"}, UNCHANGED <<cfg, bnd, patterns, t0s, gb, pre>>,
         \A a \in Candidates(bnd) : Previous(a)' = Previous(a),
         phase' = "node" => Len(pre) = Atmost(cfg.check, Len(gb.elems))
  PROVE  Prescored'
<1>1. /\ Row(bnd)' = Row(bnd) /\ Atmost(cfg.check, Len(gb.elems))' = Atmost(cfg.check, Len(gb.elems))
      /\ \A i : At(i)' = At(i) /\ R1(i)' = R1(i)
  BY RowsStay DEF Atmost, At, R1
<1>2. /\ IsList(pre) /\ Len(pre) <= Atmost(cfg.check, Len(gb.elems))
      /\ cfg.check \in Nat /\ Len(gb.elems) \in Nat
      /\ \A i \in 1 .. Len(gb.elems) : gb.elems[i] \in Candidates(bnd)
  BY DEF BufferInv, Prescored, RowsInv, NgInv, Config, Copied, IsList
<1>3. \A i \in 1 .. Len(pre) : i \in 1 .. Len(gb.elems)
  <2>1. Len(pre) <= Len(gb.elems) /\ Len(pre) \in Nat
    BY <1>2 DEF Atmost, IsList
  <2>. QED
    BY <1>2, <2>1
<1>4. \A i \in 1 .. Len(pre) : R2(i)' = R2(i)
  BY <1>2, <1>3 DEF R2
<1>5. ASSUME NEW i \in 1 .. Len(pre), NEW j \in 1 .. Len(Row(bnd))
      PROVE  pre'[i][j] = ((t0s[j] (+) ToBag(BiRow(At(j), R1(i)))) (+) ToBag(TriRow(At(j), R1(i), R2(i))))'
  <2>1. pre[i][j] = (t0s[j] (+) ToBag(BiRow(At(j), R1(i)))) (+) ToBag(TriRow(At(j), R1(i), R2(i)))
    BY DEF BufferInv, Prescored
  <2>2. /\ Bigrams' = Bigrams /\ Trigrams' = Trigrams
    BY GramsStay
  <2>3. BiRow(At(j), R1(i))' = BiRow(At(j), R1(i)) /\ TriRow(At(j), R1(i), R2(i))' = TriRow(At(j), R1(i), R2(i))
    BY <1>1, <1>4, <2>2 DEF BiRow, TriRow
  <2>. QED
    BY <2>1, <2>3
<1>6. \A i \in 1 .. Len(pre) : IsList(pre[i]) /\ Len(pre[i]) = Len(Row(bnd))
  BY DEF BufferInv, Prescored
<1>. QED
  BY <1>1, <1>2, <1>5, <1>6 DEF Prescored

LEMMA CutoffLeavesBuffers ==
  ASSUME BufferInv, MakeT0cutoffBeam
  PROVE  Shaped' /\ Hashed' /\ Halfway' /\ Prescored' /\ IndicesWritten'
<1>1. /\ UNCHANGED <<cfg, bnd, buf, result, patterns, t0s, trouble, gb, pre, beams>>
      /\ phase = "prescores" /\ phase' = "node" /\ Len(pre) = Atmost(cfg.check, Len(gb.elems))
  BY DEF MakeT0cutoffBeam
<1>2. Shaped'
  BY <1>1, ShapedStays DEF BufferInv, Shaped
<1>3. Hashed' /\ IndicesWritten'
  BY <1>1, HashedStays DEF BufferInv, IndicesWritten
<1>4. Halfway'
  BY <1>1 DEF Halfway
<1>5. \A a \in Candidates(bnd) : Previous(a)' = Previous(a)
  BY <1>1 DEF Previous
<1>6. Prescored'
  BY <1>1, <1>5, PrescoredStays
<1>. QED
  BY <1>2, <1>3, <1>4, <1>6

\* The states of the nodes go to the front of the buffers.
LEMMA PreparedIs ==
  ASSUME NgInv, Shaped, phase # "done", NEW rows, IsList(rows), Len(rows) = Len(Row(bnd)), NEW val,
         NEW p, p = Prepared(rows, val)
  PROVE  /\ p.cur = Len(rows) /\ p.val = val /\ p.t2b = buf.t2b
         /\ IsList(p.t1) /\ Len(p.t1) = MaxStarts
         /\ IsList(p.t2a) /\ Len(p.t2a) = MaxStarts
         /\ \A i \in 1 .. Len(rows) : p.t1[i] = BiStep0(rows[i]) /\ p.t2a[i] = TriStep0(rows[i])
<1>. DEFINE x == [i \in DOMAIN rows |-> BiStep0(rows[i])]
            y == [i \in DOMAIN rows |-> TriStep0(rows[i])]
            m == Len(rows)
<1>1. DOMAIN rows = 1 .. m /\ m \in Nat /\ m <= MaxStarts
  BY RowFits, ListIn
<1>2. x = [i \in 1 .. m |-> x[i]] /\ y = [i \in 1 .. m |-> y[i]]
  BY <1>1
<1>3. \A i \in 1 .. m : x[i] = BiStep0(rows[i]) /\ y[i] = TriStep0(rows[i])
  BY <1>1
<1>4. DOMAIN buf = {"val", "cur", "t1", "t2a", "t2b"}
  BY DEF NgInv, Standing
<1>5. /\ p.cur = Len(rows) /\ p.val = val /\ p.t2b = buf.t2b
      /\ p.t1 = Over(buf.t1, x) /\ p.t2a = Over(buf.t2a, y)
  BY <1>4 DEF Prepared
<1>. HIDE DEF x, y, m
<1>6. IsList(x) /\ Len(x) = m /\ IsList(y) /\ Len(y) = m
  BY <1>1, <1>2, ListOf
<1>7. IsList(buf.t1) /\ Len(buf.t1) = MaxStarts /\ IsList(buf.t2a) /\ Len(buf.t2a) = MaxStarts
  BY DEF Shaped
<1>8. /\ IsList(Over(buf.t1, x)) /\ Len(Over(buf.t1, x)) = Len(buf.t1)
      /\ \A i \in 1 .. Len(x) : Over(buf.t1, x)[i] = x[i]
  BY <1>1, <1>6, <1>7, OverIs
<1>9. /\ IsList(Over(buf.t2a, y)) /\ Len(Over(buf.t2a, y)) = Len(buf.t2a)
      /\ \A i \in 1 .. Len(y) : Over(buf.t2a, y)[i] = y[i]
  BY <1>1, <1>6, <1>7, OverIs
<1>. QED
  BY <1>3, <1>5, <1>6, <1>7, <1>8, <1>9 DEF m

FirstWritten(val) == \A k \in 1 .. Most : val[1][k] # Unwritten
OtherWritten(val) == \A k \in 1 .. Len(Unigrams) : val[2][k] # Unwritten

LEMMA StartedBuffers ==
  ASSUME BufferInv, phase = "t0", phase' \in {"gbeam", "t1"}, UNCHANGED <<cfg, bnd, result>>,
         NEW rows, IsList(rows), Len(rows) = Len(Row(bnd)),
         \A i \in 1 .. Len(Row(bnd)) : rows[i] = At(i)',
         NEW val, IsBuffers(val, Most), FirstWritten(val),
         Static /\ phase' = "gbeam" => OtherWritten(val),
         buf' = Prepared(rows, val),
         IsList(t0s'), Len(t0s') = Len(Row(bnd)),
         \A i \in 1 .. Len(Row(bnd)) : t0s'[i] = ToBag(UniAt(i)')
  PROVE  Shaped' /\ Hashed' /\ Halfway' /\ Prescored'
<1>1. Halfway' /\ Prescored'
  BY DEF Halfway, Prescored
<1>2. /\ Unigrams' = Unigrams /\ Most' = Most /\ MaxStarts' = MaxStarts /\ (Static <=> Static')
      /\ Row(bnd)' = Row(bnd)
  BY GramsStay, RowsStay
<1>3. /\ buf'.cur = Len(rows) /\ buf'.val = val /\ buf'.t2b = buf.t2b
      /\ IsList(buf'.t1) /\ Len(buf'.t1) = MaxStarts
      /\ IsList(buf'.t2a) /\ Len(buf'.t2a) = MaxStarts
      /\ \A i \in 1 .. Len(rows) : buf'.t1[i] = BiStep0(rows[i]) /\ buf'.t2a[i] = TriStep0(rows[i])
  BY PreparedIs DEF BufferInv, RowsInv
<1>4. Shaped'
  BY <1>2, <1>3 DEF BufferInv, Shaped, FirstWritten, OtherWritten, IsBuffers
<1>5. ASSUME NEW i \in 1 .. Len(Row(bnd))
      PROVE  buf'.t1[i] = BiStep0(At(i))' /\ buf'.t2a[i] = TriStep0(At(i))'
  <2>1. At(i)' = rows[i]
    OBVIOUS
  <2>2. BiStep0(At(i))' = BiStep0(rows[i]) /\ TriStep0(At(i))' = TriStep0(rows[i])
    BY <2>1, StatesStay
  <2>. QED
    BY <1>3, <2>2
<1>6. Hashed'
  BY <1>2, <1>3, <1>5 DEF Hashed
<1>. QED
  BY <1>1, <1>4, <1>6

\* Rows of a boundary: a list as long as its nodes.
LEMMA UniRows ==
  ASSUME Chosen, NEW m \in Nat, NEW rows, IsList(rows), Len(rows) = m,
         NEW uni, uni = [i \in 1 .. m |-> UniRow(rows[i])]
  PROVE  IsRows(uni, Len(Unigrams)) /\ Len(uni) = m /\ IsList(uni)
<1>1. uni = [i \in 1 .. m |-> uni[i]]
  OBVIOUS
<1>2. IsList(uni) /\ Len(uni) = m
  BY <1>1, ListOf
<1>3. ASSUME NEW i \in 1 .. m
      PROVE  IsList(uni[i]) /\ Len(uni[i]) = Len(Unigrams) /\ \A k \in 1 .. Len(Unigrams) : uni[i][k] # Unwritten
  <2>1. uni[i] = UniRow(rows[i])
    OBVIOUS
  <2>. QED
    BY <2>1, IndexRows DEF AllWritten
<1>. QED
  BY <1>2, <1>3 DEF IsRows

LEMMA SumsAre ==
  ASSUME NEW rows, IsList(rows)
  PROVE  IsList(Sums(rows)) /\ Len(Sums(rows)) = Len(rows) /\ \A i \in 1 .. Len(rows) : Sums(rows)[i] = ToBag(rows[i])
<1>. DEFINE q == Sums(rows)
            m == Len(rows)
<1>1. DOMAIN rows = 1 .. m /\ m \in Nat
  BY ListIn
<1>2. q = [i \in 1 .. m |-> q[i]] /\ \A i \in 1 .. m : q[i] = ToBag(rows[i])
  BY <1>1 DEF Sums
<1>. HIDE DEF q, m
<1>3. IsList(q) /\ Len(q) = m
  BY <1>1, <1>2, ListOf
<1>. QED
  BY <1>2, <1>3 DEF q, m

LEMMA RowsAreClean ==
  ASSUME NEW rows, NEW n \in Nat, IsRows(rows, n), NEW reads, reads = rows
  PROVE  \A j \in DOMAIN reads : Unwritten \notin ToSet(reads[j])
<1>1. DOMAIN rows = 1 .. Len(rows)
  BY ListIn DEF IsRows
<1>2. ASSUME NEW j \in 1 .. Len(rows) PROVE Unwritten \notin ToSet(rows[j])
  <2>1. IsList(rows[j]) /\ AllWritten(rows[j])
    BY DEF IsRows, AllWritten
  <2>. QED
    BY <2>1, RowsClean
<1>. QED
  BY <1>1, <1>2

LEMMA TakeOf ==
  ASSUME NEW val, NEW m \in Nat, IsBuffers(val, m), NEW b \in 1 .. 2, NEW n \in 0 .. m
  PROVE  /\ IsList(Take(val, b, n)) /\ Len(Take(val, b, n)) = n
         /\ \A k \in 1 .. n : Take(val, b, n)[k] = val[b][k]
<1>. DEFINE x == val[b]
            t == SubSeq(x, 1, n)
<1>1. IsList(x) /\ Len(x) = m
  BY DEF IsBuffers
<1>2. 1 \in 1 .. Len(x) + 1 /\ n \in 1 - 1 .. Len(x) /\ n \in Nat
  BY <1>1
<1>. HIDE DEF x
<1>3. IsList(t) /\ Len(t) = n - 1 + 1 /\ \A i \in 1 .. n - 1 + 1 : t[i] = x[1 + i - 1]
  BY <1>1, <1>2, ListPart
<1>. HIDE DEF t
<1>4. n - 1 + 1 = n /\ \A k \in 1 .. n : 1 + k - 1 = k
  BY <1>2
<1>. QED
  BY <1>3, <1>4 DEF Take, t, x

LEMMA TakeClean ==
  ASSUME NEW val, NEW m \in Nat, IsBuffers(val, m), NEW b \in 1 .. 2, NEW n \in 0 .. m,
         \A k \in 1 .. n : val[b][k] # Unwritten
  PROVE  Unwritten \notin ToSet(Take(val, b, n))
<1>. DEFINE t == Take(val, b, n)
<1>1. IsList(t) /\ Len(t) = n /\ \A k \in 1 .. n : t[k] = val[b][k]
  BY TakeOf
<1>. HIDE DEF t
<1>2. AllWritten(t)
  BY <1>1 DEF AllWritten
<1>. QED
  BY <1>1, <1>2, RowsClean DEF t

\* Whatever keeps what has been written keeps the first buffer.
LEMMA FirstStays ==
  ASSUME Shaped, NEW val, KeepsWritten(buf.val, val, Most)
  PROVE  FirstWritten(val)
<1>1. \A k \in 1 .. Most : buf.val[1][k] # Unwritten
  BY DEF Shaped
<1>2. 1 \in 1 .. 2
  OBVIOUS
<1>. QED
  BY <1>1, <1>2 DEF KeepsWritten, FirstWritten

LEMMA ApplyT0KeepsBuffers ==
  ASSUME BufferInv, ApplyT0
  PROVE  Shaped' /\ Hashed' /\ Halfway' /\ Prescored' /\ IndicesWritten'
<1>. DEFINE rows == [i \in DOMAIN Row(bnd) |-> patterns[Row(bnd)[i]]]
            m == Len(Row(bnd))
            n == Len(Unigrams)
            uni == [i \in 1 .. m |-> UniRow(rows[i])]
            loop == RowLoop([i \in DOMAIN rows |-> UniRow(rows[i])], n, buf.val)
<1>1. /\ phase = "t0" /\ phase' \in {"gbeam", "t1"} /\ UNCHANGED <<cfg, bnd, result, patterns>> /\ ~Static
  BY DEF ApplyT0, StartBoundary
<1>2. Chosen /\ NgInv /\ Shaped /\ IndicesWritten
  BY DEF BufferInv, RowsInv
<1>3. DOMAIN Row(bnd) = 1 .. m /\ m \in Nat
  BY <1>1, <1>2, RowFits, ListIn
<1>4. rows = [i \in 1 .. m |-> rows[i]] /\ DOMAIN rows = 1 .. m
  BY <1>3
<1>5. \A i \in 1 .. m : rows[i] = At(i)'
  <2>1. Row(bnd)' = Row(bnd)
    BY <1>1, RowsStay
  <2>. QED
    BY <1>1, <1>3, <2>1 DEF At
<1>6. \/ rows = <<>> /\ t0s' = <<>> /\ buf' = Prepared(rows, buf.val) /\ UNCHANGED trouble
      \/ rows # <<>> /\ t0s' = Sums(loop.reads) /\ buf' = Prepared(rows, loop.val) /\ trouble' = Watch(loop.reads)
  BY DEF ApplyT0
<1>7. loop = RowLoop(uni, n, buf.val)
  BY <1>4
<1>8. \A i \in 1 .. m : uni[i] = UniRow(rows[i])
  OBVIOUS
<1>9. \A i \in 1 .. m : UniAt(i)' = UniRow(rows[i])
  <2>1. ASSUME NEW i \in 1 .. m PROVE UniAt(i)' = UniRow(rows[i])
    <3>1. At(i)' = rows[i]
      BY <1>5
    <3>. HIDE DEF rows
    <3>. QED
      BY <1>1, <3>1, StatesStay
  <2>. QED
    BY <2>1
<1>. HIDE DEF rows, m
<1>10. IsList(rows) /\ Len(rows) = m
  BY <1>3, <1>4, ListOf
<1>11. IsRows(uni, n) /\ Len(uni) = m /\ IsList(uni)
  BY <1>2, <1>3, <1>10, UniRows
<1>12. IsBuffers(buf.val, Most) /\ FirstWritten(buf.val)
  BY <1>2 DEF Shaped, FirstWritten
<1>. HIDE DEF uni, loop
<1>13. CASE rows = <<>>
  <2>1. m = 0 /\ t0s' = <<>> /\ buf' = Prepared(rows, buf.val) /\ UNCHANGED trouble
    BY <1>6, <1>10, <1>13, EmptyList
  <2>2. IsList(t0s') /\ Len(t0s') = m /\ 1 .. m = {}
    BY <2>1, EmptyList
  <2>3. Shaped' /\ Hashed' /\ Halfway' /\ Prescored'
    BY <1>1, <1>5, <1>10, <1>12, <2>1, <2>2, StartedBuffers DEF m
  <2>. QED
    BY <1>2, <2>1, <2>3 DEF IndicesWritten
<1>14. CASE rows # <<>>
  <2>1. m # 0
    BY <1>10, <1>14, EmptyList
  <2>2. Most \in Nat /\ n \in 0 .. Most
    BY <1>2, MostIs
  <2>3. loop.reads = uni /\ IsBuffers(loop.val, Most) /\ KeepsWritten(buf.val, loop.val, Most)
    BY <1>7, <1>11, <1>12, <2>1, <2>2, RowLoopIs
  <2>4. t0s' = Sums(uni) /\ buf' = Prepared(rows, loop.val) /\ trouble' = Watch(uni)
    BY <1>6, <1>14, <2>3
  <2>5. IsList(t0s') /\ Len(t0s') = m /\ \A i \in 1 .. m : t0s'[i] = ToBag(uni[i])
    BY <1>11, <2>4, SumsAre
  <2>6. \A i \in 1 .. m : t0s'[i] = ToBag(UniAt(i)')
    BY <1>8, <1>9, <2>5
  <2>7. FirstWritten(loop.val)
    BY <1>2, <2>3, FirstStays
  <2>8. Shaped' /\ Hashed' /\ Halfway' /\ Prescored'
    BY <1>1, <1>5, <1>10, <2>3, <2>4, <2>5, <2>6, <2>7, StartedBuffers DEF m
  <2>9. trouble' = trouble
    <3>1. n \in Nat
      BY <2>2
    <3>2. \A j \in DOMAIN uni : Unwritten \notin ToSet(uni[j])
      BY <1>11, <3>1, RowsAreClean
    <3>. QED
      BY <2>4, <3>2, WatchClean
  <2>. QED
    BY <1>2, <2>8, <2>9 DEF IndicesWritten
<1>. QED
  BY <1>13, <1>14

LEMMA ComputeT0AllKeepsBuffers ==
  ASSUME BufferInv, ComputeT0All
  PROVE  Shaped' /\ Hashed' /\ Halfway' /\ Prescored' /\ IndicesWritten'
<1>. DEFINE nodes == Row(bnd)
            m == Len(nodes)
            n == Len(Unigrams)
            rows == [i \in DOMAIN nodes |-> PatternRow(nodes[i])]
            full == [i \in DOMAIN nodes |-> FullRow(nodes[i])]
            uni == [i \in 1 .. m |-> UniRow(full[i])]
            loop == UnigramLoop([i \in DOMAIN full |-> UniRow(full[i])], n, buf.val)
<1>1. /\ phase = "t0" /\ phase' = (IF cfg.gbeam > 0 THEN "gbeam" ELSE "t1")
      /\ cfg.gbeam > 0 => Row(bnd) # <<>>
      /\ UNCHANGED <<cfg, bnd, result>> /\ Static
      /\ patterns' = [v \in DOMAIN patterns |-> IF v[1] = bnd THEN PatternRow(v) ELSE patterns[v]]
  BY DEF ComputeT0All, StartBoundary
<1>2. Chosen /\ NgInv /\ Shaped /\ IndicesWritten /\ IsLattice(lat) /\ DOMAIN patterns = NodesOf(lat)
  BY LatticesAssumption DEF BufferInv, RowsInv, NgInv, Config, Placed
<1>3. DOMAIN nodes = 1 .. m /\ m \in Nat /\ IsList(nodes)
  BY <1>1, <1>2, RowFits, ListIn
<1>4. /\ rows = [i \in 1 .. m |-> rows[i]] /\ DOMAIN rows = 1 .. m
      /\ full = [i \in 1 .. m |-> full[i]] /\ DOMAIN full = 1 .. m
  BY <1>3
<1>5. Row(bnd)' = Row(bnd)
  BY <1>1, RowsStay
<1>6. \A i \in 1 .. m : rows[i] = At(i)'
  <2>1. ASSUME NEW i \in 1 .. m PROVE rows[i] = At(i)'
    <3>1. nodes[i] \in ToSet(Row(bnd))
      BY <1>3 DEF ToSet
    <3>2. bnd \in 2 .. lat.n + 2
      BY <1>1, <1>2 DEF NgInv, Standing
    <3>3. nodes[i] \in RowOf(lat, bnd)
      BY <1>2, <3>1, <3>2, RowLists
    <3>4. nodes[i] \in NodesOf(lat) /\ nodes[i][1] = bnd
      BY <3>3 DEF RowOf
    <3>5. patterns'[nodes[i]] = PatternRow(nodes[i])
      BY <1>1, <1>2, <3>4
    <3>. QED
      BY <1>3, <1>5, <3>5 DEF At
  <2>. QED
    BY <2>1
<1>7. \/ /\ nodes = <<>> /\ t0s' = <<>> /\ buf' = [buf EXCEPT !.cur = 0]
         /\ trouble' = trouble \cup {"outside"}
      \/ /\ nodes # <<>> /\ t0s' = Sums(loop.reads) /\ buf' = Prepared(rows, loop.val)
         /\ \/ trouble' = Watch(Append(loop.reads, loop.stale))
            \/ trouble' = Watch(Append(loop.reads, loop.stale)) \cup {"outside"}
  BY DEF ComputeT0All
<1>8. loop = UnigramLoop(uni, n, buf.val)
  BY <1>4
<1>9. \A i \in 1 .. m : uni[i] = UniRow(full[i]) /\ full[i] = FullRow(nodes[i])
  BY <1>3
<1>10. \A i \in 1 .. m : UniAt(i)' = UniRow(full[i])
  <2>1. ASSUME NEW i \in 1 .. m PROVE UniAt(i)' = UniRow(FullRow(Row(bnd)[i]))
    <3>. DEFINE r == At(i)'
    <3>1. At(i)' = r
      OBVIOUS
    <3>. HIDE DEF r
    <3>. QED
      BY <1>1, <3>1, StatesStay
  <2>. QED
    BY <1>9, <2>1
<1>. HIDE DEF rows, full, m
<1>11. IsList(rows) /\ Len(rows) = m /\ IsList(full) /\ Len(full) = m
  BY <1>3, <1>4, ListOf
<1>12. IsRows(uni, n) /\ Len(uni) = m /\ IsList(uni)
  BY <1>2, <1>3, <1>11, UniRows
<1>13. IsBuffers(buf.val, Most) /\ FirstWritten(buf.val)
  BY <1>2 DEF Shaped, FirstWritten
<1>. HIDE DEF uni, loop
<1>14. CASE nodes = <<>>
  <2>1. m = 0 /\ t0s' = <<>> /\ buf' = [buf EXCEPT !.cur = 0] /\ trouble' = trouble \cup {"outside"}
        /\ phase' = "t1"
    <3>1. Len(nodes) = 0
      BY <1>14, EmptyList
    <3>2. cfg.gbeam \in Nat /\ ~(cfg.gbeam > 0)
      BY <1>1, <1>2, <1>14 DEF NgInv, Config
    <3>. QED
      BY <1>1, <1>7, <1>14, <3>1, <3>2 DEF m
  <2>2. DOMAIN buf = {"val", "cur", "t1", "t2a", "t2b"}
    BY <1>2 DEF NgInv, Standing
  <2>3. /\ buf'.cur = 0 /\ buf'.val = buf.val /\ buf'.t1 = buf.t1 /\ buf'.t2a = buf.t2a
        /\ buf'.t2b = buf.t2b
    BY <2>1, <2>2
  <2>4. Shaped'
    <3>1. /\ Unigrams' = Unigrams /\ Most' = Most /\ MaxStarts' = MaxStarts /\ (Static <=> Static')
      BY <1>1, GramsStay
    <3>. QED
      BY <1>1, <1>2, <2>1, <2>3, <3>1 DEF Shaped, IsBuffers
  <2>5. Hashed'
    <3>1. Len(Row(bnd)') = 0 /\ 1 .. 0 = {} /\ IsList(t0s') /\ Len(t0s') = 0
      BY <1>5, <2>1, EmptyList DEF m
    <3>. QED
      BY <2>3, <3>1 DEF Hashed
  <2>6. Halfway' /\ Prescored'
    BY <2>1 DEF Halfway, Prescored
  <2>. QED
    BY <1>2, <2>1, <2>4, <2>5, <2>6, WrittenStays
<1>15. CASE nodes # <<>>
  <2>1. m # 0
    BY <1>3, <1>15, EmptyList DEF m
  <2>2. Most \in Nat /\ n \in 0 .. Most
    BY <1>2, MostIs
  <2>3. /\ loop.reads = uni /\ loop.stale = Take(buf.val, 1, n)
        /\ IsBuffers(loop.val, Most) /\ KeepsWritten(buf.val, loop.val, Most)
        /\ OtherWritten(loop.val)
    <3>1. LET u == UnigramLoop(uni, n, buf.val)
          IN /\ u.reads = uni /\ u.stale = Take(buf.val, 1, n)
             /\ IsBuffers(u.val, Most) /\ KeepsWritten(buf.val, u.val, Most)
             /\ \A k \in 1 .. n : u.val[2][k] # Unwritten
      BY <1>12, <1>13, <2>1, <2>2, UnigramLoopIs
    <3>. QED
      BY <1>8, <3>1 DEF OtherWritten
  <2>4. /\ t0s' = Sums(uni) /\ buf' = Prepared(rows, loop.val)
        /\ \/ trouble' = Watch(Append(uni, loop.stale))
           \/ trouble' = Watch(Append(uni, loop.stale)) \cup {"outside"}
    BY <1>7, <1>15, <2>3
  <2>5. IsList(t0s') /\ Len(t0s') = m /\ \A i \in 1 .. m : t0s'[i] = ToBag(uni[i])
    BY <1>12, <2>4, SumsAre
  <2>6. \A i \in 1 .. m : t0s'[i] = ToBag(UniAt(i)')
    BY <1>9, <1>10, <2>5
  <2>7. FirstWritten(loop.val)
    BY <1>2, <2>3, FirstStays
  <2>8. phase' \in {"gbeam", "t1"}
    BY <1>1
  <2>9. Shaped' /\ Hashed' /\ Halfway' /\ Prescored'
    <3>. HIDE DEF nodes
    <3>1. Len(rows) = Len(Row(bnd)) /\ m = Len(Row(bnd))
      BY <1>11 DEF m, nodes
    <3>. QED
      BY <1>1, <1>6, <1>11, <2>3, <2>4, <2>5, <2>6, <2>7, <2>8, <3>1, StartedBuffers
  <2>10. Unwritten \notin ToSet(loop.stale)
    <3>1. \A k \in 1 .. n : buf.val[1][k] # Unwritten
      <4>1. \A k \in 1 .. n : k \in 1 .. Most
        BY <2>2
      <4>. QED
        BY <1>13, <4>1 DEF FirstWritten
    <3>2. 1 \in 1 .. 2
      OBVIOUS
    <3>. QED
      BY <1>13, <2>2, <2>3, <3>1, <3>2, TakeClean
  <2>11. Watch(Append(uni, loop.stale)) = trouble
    <3>1. n \in Nat
      BY <2>2
    <3>2. \A j \in DOMAIN uni : Unwritten \notin ToSet(uni[j])
      BY <1>12, <3>1, RowsAreClean
    <3>. DEFINE r == Append(uni, loop.stale)
    <3>3. /\ IsList(r) /\ Len(r) = Len(uni) + 1 /\ \A i \in 1 .. Len(uni) : r[i] = uni[i]
          /\ r[Len(uni) + 1] = loop.stale
      BY <1>12, ListAppend
    <3>. HIDE DEF r
    <3>4. DOMAIN r = 1 .. m + 1 /\ DOMAIN uni = 1 .. m
      BY <1>12, <3>3, ListIn
    <3>5. \A j \in 1 .. m + 1 : j \in 1 .. m \/ j = m + 1
      <4>1. m \in Nat
        BY <1>3 DEF m
      <4>. QED
        BY <4>1
    <3>6. \A j \in DOMAIN r : Unwritten \notin ToSet(r[j])
      BY <1>12, <2>10, <3>2, <3>3, <3>4, <3>5
    <3>7. Watch(r) = trouble
      BY <3>6, WatchClean
    <3>. QED
      BY <3>7 DEF r
  <2>. QED
    BY <1>2, <2>4, <2>9, <2>11, WrittenStays
<1>. QED
  BY <1>14, <1>15

Clean(reads) == \A j \in DOMAIN reads : Unwritten \notin ToSet(reads[j])

LEMMA RowsOf ==
  ASSUME NEW m \in Nat, NEW n \in Nat, NEW rows, rows = [i \in 1 .. m |-> rows[i]],
         \A i \in 1 .. m : IsList(rows[i]) /\ Len(rows[i]) = n /\ AllWritten(rows[i])
  PROVE  IsRows(rows, n) /\ IsList(rows) /\ Len(rows) = m /\ Clean(rows)
<1>1. IsList(rows) /\ Len(rows) = m
  BY ListOf
<1>2. IsRows(rows, n)
  BY <1>1 DEF IsRows, AllWritten
<1>3. Clean(rows)
  BY <1>2, RowsAreClean DEF Clean
<1>. QED
  BY <1>1, <1>2, <1>3

\* Where the states of the nodes are.
LEMMA StatesThere ==
  ASSUME BufferInv, phase \notin {"t0", "done"}
  PROVE  /\ Chosen /\ buf.cur = Len(Row(bnd)) /\ Len(Row(bnd)) \in 0 .. MaxStarts /\ MaxStarts \in Nat
         /\ \A i \in 1 .. Len(Row(bnd)) : buf.t1[i] = BiStep0(At(i)) /\ buf.t2a[i] = TriStep0(At(i))
         /\ DOMAIN buf = {"val", "cur", "t1", "t2a", "t2b"}
         /\ IsList(t0s) /\ Len(t0s) = Len(Row(bnd))
BY RowFits DEF BufferInv, RowsInv, Hashed, NgInv, Standing

\* applyBiStep2 reads the indices of the bigrams of all nodes with a row.
BiRead(r1, val, bi) ==
  /\ IsList(bi.reads) /\ Len(bi.reads) = Len(Row(bnd)) /\ Clean(bi.reads)
  /\ \A i \in 1 .. Len(Row(bnd)) : bi.reads[i] = BiRow(At(i), r1)
  /\ IsBuffers(bi.val, Most) /\ KeepsWritten(val, bi.val, Most)
TriRead(r1, r2, val, tri) ==
  /\ IsList(tri.reads) /\ Len(tri.reads) = Len(Row(bnd)) /\ Clean(tri.reads)
  /\ \A i \in 1 .. Len(Row(bnd)) : tri.reads[i] = TriRow(At(i), r1, r2)
  /\ IsBuffers(tri.val, Most) /\ KeepsWritten(val, tri.val, Most)

LEMMA BiStep2Is ==
  ASSUME BufferInv, phase \notin {"t0", "done"}, buf.cur # 0, NEW r1, NEW val, IsBuffers(val, Most)
  PROVE  BiRead(r1, val, BiStep2(r1, val))
<1>. DEFINE m == Len(Row(bnd))
            n == Len(Bigrams)
            rows == [i \in 1 .. buf.cur |-> BiStep1(buf.t1[i], r1)]
            loop == RowLoop(rows, n, val)
<1>1. Chosen /\ buf.cur = m /\ m \in Nat /\ \A i \in 1 .. m : buf.t1[i] = BiStep0(At(i))
  BY StatesThere
<1>2. Most \in Nat /\ n \in 0 .. Most /\ n \in Nat
  BY <1>1, MostIs
<1>3. \A i \in 1 .. m : rows[i] = BiRow(At(i), r1)
  <2>1. ASSUME NEW i \in 1 .. m PROVE rows[i] = BiRow(At(i), r1)
    <3>1. rows[i] = BiStep1(BiStep0(At(i)), r1)
      BY <1>1
    <3>. QED
      BY <1>1, <3>1, IndexRows
  <2>. QED
    BY <2>1
<1>4. rows = [i \in 1 .. m |-> rows[i]]
  BY <1>1
<1>5. \A i \in 1 .. m : IsList(rows[i]) /\ Len(rows[i]) = n /\ AllWritten(rows[i])
  BY <1>1, <1>3, IndexRows
<1>6. BiStep2(r1, val) = loop
  BY DEF BiStep2
<1>. HIDE DEF rows, n, loop
<1>7. IsRows(rows, n) /\ IsList(rows) /\ Len(rows) = m /\ Clean(rows)
  BY <1>1, <1>2, <1>4, <1>5, RowsOf
<1>8. loop.reads = rows /\ IsBuffers(loop.val, Most) /\ KeepsWritten(val, loop.val, Most)
  BY <1>1, <1>2, <1>7, RowLoopIs DEF loop
<1>. QED
  BY <1>3, <1>6, <1>7, <1>8 DEF BiRead

LEMMA TriStep3Is ==
  ASSUME BufferInv, phase \notin {"t0", "done"}, buf.cur # 0, NEW r1, NEW r2, NEW t2b,
         \A i \in 1 .. Len(Row(bnd)) : t2b[i] = TriStep1(TriStep0(At(i)), r1),
         NEW val, IsBuffers(val, Most)
  PROVE  TriRead(r1, r2, val, TriStep3(t2b, r2, val))
<1>. DEFINE m == Len(Row(bnd))
            n == Len(Trigrams)
            rows == [i \in 1 .. buf.cur |-> TriStep2(t2b[i], r2)]
            loop == RowLoop(rows, n, val)
<1>1. Chosen /\ buf.cur = m /\ m \in Nat
  BY StatesThere
<1>2. Most \in Nat /\ n \in 0 .. Most /\ n \in Nat
  BY <1>1, MostIs
<1>3. \A i \in 1 .. m : rows[i] = TriRow(At(i), r1, r2)
  <2>1. ASSUME NEW i \in 1 .. m PROVE rows[i] = TriRow(At(i), r1, r2)
    <3>1. rows[i] = TriStep2(TriStep1(TriStep0(At(i)), r1), r2)
      BY <1>1
    <3>. QED
      BY <1>1, <3>1, IndexRows
  <2>. QED
    BY <2>1
<1>4. rows = [i \in 1 .. m |-> rows[i]]
  BY <1>1
<1>5. \A i \in 1 .. m : IsList(rows[i]) /\ Len(rows[i]) = n /\ AllWritten(rows[i])
  BY <1>1, <1>3, IndexRows
<1>6. TriStep3(t2b, r2, val) = loop
  BY DEF TriStep3
<1>. HIDE DEF rows, n, loop
<1>7. IsRows(rows, n) /\ IsList(rows) /\ Len(rows) = m /\ Clean(rows)
  BY <1>1, <1>2, <1>4, <1>5, RowsOf
<1>8. loop.reads = rows /\ IsBuffers(loop.val, Most) /\ KeepsWritten(val, loop.val, Most)
  BY <1>1, <1>2, <1>7, RowLoopIs DEF loop
<1>. QED
  BY <1>3, <1>6, <1>7, <1>8 DEF TriRead

LEMMA PlusIs ==
  ASSUME NEW xs, NEW reads, IsList(xs)
  PROVE  /\ IsList(Plus(xs, reads)) /\ Len(Plus(xs, reads)) = Len(xs)
         /\ \A i \in 1 .. Len(xs) : Plus(xs, reads)[i] = xs[i] (+) ToBag(reads[i])
<1>. DEFINE q == Plus(xs, reads)
            m == Len(xs)
<1>1. DOMAIN xs = 1 .. m /\ m \in Nat
  BY ListIn
<1>2. q = [i \in 1 .. m |-> q[i]] /\ \A i \in 1 .. m : q[i] = xs[i] (+) ToBag(reads[i])
  BY <1>1 DEF Plus
<1>. HIDE DEF q, m
<1>3. IsList(q) /\ Len(q) = m
  BY <1>1, <1>2, ListOf
<1>. QED
  BY <1>2, <1>3 DEF q, m

\* applyTriStep2 goes on from the states of the trigrams.
LEMMA HalfIs ==
  ASSUME BufferInv, phase \notin {"t0", "done"}, NEW r1, NEW h, h = AfterTriStep2(r1)
  PROVE  /\ h.val = buf.val /\ h.cur = buf.cur /\ h.t1 = buf.t1 /\ h.t2a = buf.t2a
         /\ DOMAIN h = DOMAIN buf
         /\ IsList(h.t2b) /\ Len(h.t2b) = MaxStarts
         /\ \A i \in 1 .. Len(Row(bnd)) : h.t2b[i] = TriStep1(TriStep0(At(i)), r1)
<1>. DEFINE m == Len(Row(bnd))
            x == [i \in 1 .. buf.cur |-> TriStep1(buf.t2a[i], r1)]
<1>1. /\ buf.cur = m /\ m \in Nat /\ m <= MaxStarts /\ \A i \in 1 .. m : buf.t2a[i] = TriStep0(At(i))
      /\ DOMAIN buf = {"val", "cur", "t1", "t2a", "t2b"}
  BY StatesThere
<1>2. x = [i \in 1 .. m |-> x[i]] /\ \A i \in 1 .. m : x[i] = TriStep1(TriStep0(At(i)), r1)
  BY <1>1
<1>3. /\ h.val = buf.val /\ h.cur = buf.cur /\ h.t1 = buf.t1 /\ h.t2a = buf.t2a
      /\ DOMAIN h = DOMAIN buf /\ h.t2b = Over(buf.t2b, x)
  BY <1>1 DEF AfterTriStep2
<1>. HIDE DEF x, m
<1>4. IsList(x) /\ Len(x) = m
  BY <1>1, <1>2, ListOf
<1>5. IsList(buf.t2b) /\ Len(buf.t2b) = MaxStarts
  BY DEF BufferInv, Shaped
<1>6. /\ IsList(Over(buf.t2b, x)) /\ Len(Over(buf.t2b, x)) = Len(buf.t2b)
      /\ \A i \in 1 .. Len(x) : Over(buf.t2b, x)[i] = x[i]
  BY <1>1, <1>4, <1>5, OverIs
<1>. QED
  BY <1>2, <1>3, <1>4, <1>5, <1>6 DEF m

\* New values, where what was written stays written.
LEMMA ShapedKeeps ==
  ASSUME Shaped, Chosen, UNCHANGED cfg, IsList(result'), Len(result') = cfg.gbeam,
         IsBuffers(buf'.val, Most), KeepsWritten(buf.val, buf'.val, Most),
         buf'.t1 = buf.t1, buf'.t2a = buf.t2a, IsList(buf'.t2b), Len(buf'.t2b) = MaxStarts,
         phase' \in {"gbeam", "prescores", "node"} => phase \in {"gbeam", "prescores", "node"}
  PROVE  Shaped'
<1>1. /\ Unigrams' = Unigrams /\ Most' = Most /\ MaxStarts' = MaxStarts /\ (Static <=> Static')
  BY GramsStay
<1>2. 1 \in 1 .. 2 /\ 2 \in 1 .. 2 /\ \A k \in 1 .. Len(Unigrams) : k \in 1 .. Most
  <2>1. Most \in Nat /\ Len(Unigrams) \in 0 .. Most
    BY MostIs
  <2>. QED
    BY <2>1
<1>3. /\ \A k \in 1 .. Most : buf'.val[1][k] # Unwritten
      /\ Static /\ phase' \in {"gbeam", "prescores", "node"} =>
           \A k \in 1 .. Len(Unigrams) : buf'.val[2][k] # Unwritten
  BY <1>2 DEF Shaped, KeepsWritten
<1>. QED
  BY <1>1, <1>3 DEF Shaped, IsBuffers

LEMMA KeepsTrans ==
  ASSUME NEW m, NEW x, NEW y, NEW z, KeepsWritten(x, y, m), KeepsWritten(y, z, m)
  PROVE  KeepsWritten(x, z, m)
BY DEF KeepsWritten
LEMMA KeepsSame ==
  ASSUME NEW m, NEW x
  PROVE  KeepsWritten(x, x, m)
BY DEF KeepsWritten

LEMMA ApplyT1KeepsBuffers ==
  ASSUME BufferInv, ApplyT1
  PROVE  Shaped' /\ Hashed' /\ Halfway' /\ Prescored' /\ IndicesWritten'
<1>. DEFINE row == LeftRow
            m == Len(Row(bnd))
            bi == BiStep2(row, buf.val)
            half == AfterTriStep2(row)
<1>1. /\ phase = "t1" /\ phase' = "t2" /\ UNCHANGED <<cfg, bnd, result, patterns, t0s, left>>
  BY DEF ApplyT1
<1>2. Chosen /\ NgInv /\ Shaped /\ IndicesWritten /\ Hashed
  BY DEF BufferInv, RowsInv
<1>3. /\ buf.cur = m /\ IsList(t0s) /\ Len(t0s) = m /\ m \in Nat
      /\ DOMAIN buf = {"val", "cur", "t1", "t2a", "t2b"}
  BY <1>1, StatesThere
<1>4. \/ buf.cur = 0 /\ t1s' = t0s /\ UNCHANGED <<buf, trouble>>
      \/ /\ buf.cur # 0 /\ t1s' = Plus(t0s, bi.reads) /\ buf' = [half EXCEPT !.val = bi.val]
         /\ trouble' = Watch(bi.reads)
  BY DEF ApplyT1, LeftRow
<1>5. Prescored'
  BY <1>1 DEF Prescored
<1>6. LeftRow' = row /\ Row(bnd)' = Row(bnd) /\ IsBuffers(buf.val, Most)
  BY <1>1, <1>2, RowsStay DEF LeftRow, Shaped
<1>. HIDE DEF bi, half, row
<1>7. CASE buf.cur = 0
  <2>1. m = 0 /\ t1s' = t0s /\ UNCHANGED <<buf, trouble>>
    BY <1>3, <1>4, <1>7
  <2>2. Shaped'
    BY <1>1, <1>2, <2>1, ShapedStays DEF Shaped
  <2>3. Hashed'
    BY <1>1, <1>2, <2>1, HashedStays
  <2>4. Halfway'
    <3>1. 1 .. 0 = {}
      OBVIOUS
    <3>. QED
      BY <1>3, <1>6, <2>1, <3>1 DEF Halfway
  <2>. QED
    BY <1>2, <1>5, <2>1, <2>2, <2>3, <2>4 DEF IndicesWritten
<1>8. CASE buf.cur # 0
  <2>1. t1s' = Plus(t0s, bi.reads) /\ buf' = [half EXCEPT !.val = bi.val] /\ trouble' = Watch(bi.reads)
    BY <1>4, <1>8
  <2>2. BiRead(row, buf.val, bi)
    BY <1>1, <1>6, <1>8, BiStep2Is DEF bi
  <2>3. /\ half.val = buf.val /\ half.cur = buf.cur /\ half.t1 = buf.t1 /\ half.t2a = buf.t2a
        /\ DOMAIN half = DOMAIN buf
        /\ IsList(half.t2b) /\ Len(half.t2b) = MaxStarts
        /\ \A i \in 1 .. m : half.t2b[i] = TriStep1(TriStep0(At(i)), row)
    BY <1>1, HalfIs DEF half
  <2>4. /\ buf'.val = bi.val /\ buf'.cur = buf.cur /\ buf'.t1 = buf.t1 /\ buf'.t2a = buf.t2a
        /\ buf'.t2b = half.t2b
    BY <1>3, <2>1, <2>3
  <2>5. Shaped'
    BY <1>1, <1>2, <2>2, <2>3, <2>4, ShapedKeeps DEF BiRead, Shaped
  <2>6. Hashed' /\ \A i : At(i)' = At(i)
    BY <1>1, <1>2, <2>4, HashedStays
  <2>7. IsList(t1s') /\ Len(t1s') = m /\ \A i \in 1 .. m : t1s'[i] = t0s[i] (+) ToBag(BiRow(At(i), row))
    <3>1. /\ IsList(t1s') /\ Len(t1s') = Len(t0s)
          /\ \A i \in 1 .. Len(t0s) : t1s'[i] = t0s[i] (+) ToBag(bi.reads[i])
      BY <1>3, <2>1, PlusIs
    <3>. QED
      BY <1>3, <2>2, <3>1 DEF BiRead
  <2>8. Halfway'
    <3>1. ASSUME NEW i \in 1 .. m
          PROVE  /\ t1s'[i] = (t0s[i] (+) ToBag(BiRow(At(i), LeftRow)))'
                 /\ buf'.t2b[i] = TriStep1(TriStep0(At(i)), LeftRow)'
      <4>1. BiRow(At(i), LeftRow)' = BiRow(At(i), row)
        <5>1. Bigrams' = Bigrams
          BY <1>1, GramsStay
        <5>. QED
          BY <1>6, <2>6, <5>1 DEF BiRow
      <4>2. TriStep1(TriStep0(At(i)), LeftRow)' = TriStep1(TriStep0(At(i)), row)
        <5>1. Trigrams' = Trigrams
          BY <1>1, GramsStay
        <5>. QED
          BY <1>6, <2>6, <5>1 DEF TriStep1, TriStep0
      <4>. QED
        BY <1>1, <2>3, <2>4, <2>7, <4>1, <4>2
    <3>. QED
      BY <1>6, <2>7, <3>1 DEF Halfway
  <2>9. trouble' = trouble
    BY <2>1, <2>2, WatchClean DEF BiRead, Clean
  <2>. QED
    BY <1>2, <1>5, <2>5, <2>6, <2>8, <2>9 DEF IndicesWritten
<1>. QED
  BY <1>7, <1>8

LEMMA HalfwayStays ==
  ASSUME Halfway, UNCHANGED <<cfg, bnd, patterns, t0s, t1s, left>>, phase = "t2", phase' = "t2",
         buf'.t2b = buf.t2b
  PROVE  Halfway'
<1>1. LeftRow' = LeftRow /\ Row(bnd)' = Row(bnd) /\ \A i : At(i)' = At(i)
  BY RowsStay DEF LeftRow, At
<1>2. ASSUME NEW i \in 1 .. Len(Row(bnd))
      PROVE  /\ t1s'[i] = (t0s[i] (+) ToBag(BiRow(At(i), LeftRow)))'
             /\ buf'.t2b[i] = TriStep1(TriStep0(At(i)), LeftRow)'
  <2>1. Bigrams' = Bigrams /\ Trigrams' = Trigrams
    BY GramsStay
  <2>2. BiRow(At(i), LeftRow)' = BiRow(At(i), LeftRow)
    BY <1>1, <2>1 DEF BiRow
  <2>3. TriStep1(TriStep0(At(i)), LeftRow)' = TriStep1(TriStep0(At(i)), LeftRow)
    BY <1>1, <2>1 DEF TriStep1, TriStep0
  <2>4. t1s[i] = t0s[i] (+) ToBag(BiRow(At(i), LeftRow)) /\ buf.t2b[i] = TriStep1(TriStep0(At(i)), LeftRow)
    BY DEF Halfway
  <2>. QED
    BY <2>2, <2>3, <2>4
<1>3. IsList(t1s) /\ Len(t1s) = Len(Row(bnd))
  BY DEF Halfway
<1>. QED
  BY <1>1, <1>2, <1>3 DEF Halfway

LEMMA ApplyT2KeepsBuffers ==
  ASSUME BufferInv, ApplyT2
  PROVE  Shaped' /\ Hashed' /\ Halfway' /\ Prescored' /\ IndicesWritten'
<1>. DEFINE row == patterns[Previous(<<Ends(bnd)[left], elem>>)[1]]
            tri == TriStep3(buf.t2b, row, buf.val)
<1>1. /\ phase = "t2" /\ phase' = "t2" /\ UNCHANGED <<cfg, bnd, result, patterns, t0s, t1s, left>>
  BY DEF ApplyT2
<1>2. Chosen /\ NgInv /\ Shaped /\ IndicesWritten /\ Hashed /\ Halfway
  BY DEF BufferInv, RowsInv
<1>3. /\ buf.cur = Len(Row(bnd)) /\ DOMAIN buf = {"val", "cur", "t1", "t2a", "t2b"}
  BY <1>1, StatesThere
<1>4. \/ UNCHANGED <<buf, trouble>>
      \/ buf.cur # 0 /\ buf' = [buf EXCEPT !.val = tri.val] /\ trouble' = Watch(tri.reads)
  BY DEF ApplyT2
<1>5. Prescored'
  BY <1>1 DEF Prescored
<1>6. /\ LeftRow' = LeftRow /\ Row(bnd)' = Row(bnd) /\ IsBuffers(buf.val, Most)
      /\ IsList(buf.t2b) /\ Len(buf.t2b) = MaxStarts /\ IsList(result) /\ Len(result) = cfg.gbeam
  BY <1>1, <1>2, RowsStay DEF LeftRow, Shaped
<1>7. buf.cur # 0 => TriRead(LeftRow, row, buf.val, tri)
  <2>. HIDE DEF row
  <2>1. \A i \in 1 .. Len(Row(bnd)) : buf.t2b[i] = TriStep1(TriStep0(At(i)), LeftRow)
    BY <1>1, <1>2 DEF Halfway
  <2>. QED
    BY <1>1, <1>6, <2>1, TriStep3Is
<1>. HIDE DEF tri
<1>8. /\ DOMAIN buf' = DOMAIN buf /\ buf'.cur = buf.cur
      /\ buf'.t1 = buf.t1 /\ buf'.t2a = buf.t2a /\ buf'.t2b = buf.t2b
      /\ IsBuffers(buf'.val, Most) /\ KeepsWritten(buf.val, buf'.val, Most)
      /\ trouble' = trouble
  <2>1. CASE UNCHANGED <<buf, trouble>>
    BY <1>6, <2>1, KeepsSame
  <2>2. CASE buf.cur # 0 /\ buf' = [buf EXCEPT !.val = tri.val] /\ trouble' = Watch(tri.reads)
    <3>1. Watch(tri.reads) = trouble
      BY <1>7, <2>2, WatchClean DEF TriRead, Clean
    <3>2. /\ buf'.cur = buf.cur /\ buf'.val = tri.val /\ DOMAIN buf' = DOMAIN buf
          /\ buf'.t1 = buf.t1 /\ buf'.t2a = buf.t2a /\ buf'.t2b = buf.t2b
      BY <1>3, <2>2
    <3>. QED
      BY <1>7, <2>2, <3>1, <3>2 DEF TriRead
  <2>. QED
    BY <1>4, <2>1, <2>2
<1>9. Shaped'
  BY <1>1, <1>2, <1>6, <1>8, ShapedKeeps
<1>10. Hashed' /\ \A i : At(i)' = At(i)
  BY <1>1, <1>2, <1>8, HashedStays
<1>11. Halfway'
  BY <1>1, <1>2, <1>8, HalfwayStays
<1>. QED
  BY <1>2, <1>5, <1>8, <1>9, <1>10, <1>11 DEF IndicesWritten

\* One element more has been scored with every node of the boundary.
LEMMA PrescoresKeepBuffers ==
  ASSUME BufferInv, ComputeT0Prescores
  PROVE  Shaped' /\ Hashed' /\ Halfway' /\ Prescored' /\ IndicesWritten'
<1>. DEFINE i == Len(pre) + 1
            m == Len(Row(bnd))
            c == Atmost(cfg.check, Len(gb.elems))
            r1 == R1(i)
            r2 == R2(i)
            half == AfterTriStep2(r1)
            bi == BiStep2(r1, buf.val)
            tri == TriStep3(half.t2b, r2, bi.val)
            x == Plus(Plus(t0s, bi.reads), tri.reads)
<1>1. /\ phase = "prescores" /\ phase' = "prescores" /\ Len(pre) < c
      /\ UNCHANGED <<cfg, bnd, result, patterns, t0s, gb, beams>>
  BY DEF ComputeT0Prescores
<1>2. Chosen /\ NgInv /\ Shaped /\ IndicesWritten /\ Hashed /\ Prescored /\ Copied
  BY DEF BufferInv, RowsInv
<1>3. /\ buf.cur = m /\ IsList(t0s) /\ Len(t0s) = m /\ m \in Nat
      /\ DOMAIN buf = {"val", "cur", "t1", "t2a", "t2b"}
  BY <1>1, StatesThere
<1>4. /\ IsList(pre) /\ Len(pre) \in Nat /\ Len(gb.elems) \in Nat /\ cfg.check \in Nat
      /\ i \in 1 .. Len(gb.elems) /\ i <= c
  <2>1. IsList(pre) /\ Len(pre) \in Nat /\ Len(gb.elems) \in Nat /\ cfg.check \in Nat
    BY <1>1, <1>2 DEF Prescored, Copied, IsList, NgInv, Config
  <2>2. c \in Nat /\ c <= Len(gb.elems)
    BY <2>1 DEF Atmost
  <2>. QED
    BY <1>1, <2>1, <2>2
<1>5. gb.t1[gb.t1idx[i]] = r1 /\ gb.t2[i] = r2
  BY <1>1, <1>2, <1>4 DEF Copied, R1, R2
<1>6. /\ pre' = Append(pre, x) /\ buf' = [half EXCEPT !.val = tri.val]
      /\ trouble' = Watch(bi.reads \o tri.reads)
  BY <1>5 DEF ComputeT0Prescores
<1>7. buf.cur # 0
  <2>1. Row(bnd) # <<>> /\ IsList(Row(bnd))
    BY <1>1, <1>2, RowFits DEF NgInv, Standing
  <2>. QED
    BY <1>3, <2>1, EmptyList
<1>8. IsBuffers(buf.val, Most) /\ IsList(result) /\ Len(result) = cfg.gbeam
  BY <1>2 DEF Shaped
<1>. HIDE DEF i, m, c, r1, r2
<1>9. BiRead(r1, buf.val, bi)
  BY <1>1, <1>7, <1>8, BiStep2Is
<1>10. /\ half.val = buf.val /\ half.cur = buf.cur /\ half.t1 = buf.t1 /\ half.t2a = buf.t2a
       /\ DOMAIN half = DOMAIN buf
       /\ IsList(half.t2b) /\ Len(half.t2b) = MaxStarts
       /\ \A j \in 1 .. Len(Row(bnd)) : half.t2b[j] = TriStep1(TriStep0(At(j)), r1)
  BY <1>1, HalfIs
<1>. HIDE DEF half, bi
<1>11. TriRead(r1, r2, bi.val, tri)
  <2>. DEFINE t2b == half.t2b
              val == bi.val
  <2>1. IsBuffers(val, Most) /\ \A j \in 1 .. Len(Row(bnd)) : t2b[j] = TriStep1(TriStep0(At(j)), r1)
    BY <1>9, <1>10 DEF BiRead
  <2>2. tri = TriStep3(t2b, r2, val)
    OBVIOUS
  <2>. HIDE DEF t2b, val, tri
  <2>3. TriRead(r1, r2, val, tri)
    BY <1>1, <1>7, <2>1, <2>2, TriStep3Is
  <2>. QED
    BY <2>3 DEF val
<1>. HIDE DEF tri
<1>12. /\ buf'.val = tri.val /\ buf'.cur = buf.cur /\ buf'.t1 = buf.t1 /\ buf'.t2a = buf.t2a
       /\ buf'.t2b = half.t2b
  BY <1>3, <1>6, <1>10
<1>13. KeepsWritten(buf.val, tri.val, Most) /\ IsBuffers(tri.val, Most)
  BY <1>9, <1>11, KeepsTrans DEF BiRead, TriRead
<1>14. Shaped'
  BY <1>1, <1>2, <1>8, <1>10, <1>12, <1>13, ShapedKeeps
<1>15. Hashed' /\ \A j : At(j)' = At(j)
  BY <1>1, <1>2, <1>12, HashedStays
<1>16. Halfway'
  BY <1>1 DEF Halfway
<1>17. trouble' = trouble
  <2>. DEFINE y == bi.reads
              z == tri.reads
  <2>1. IsList(y) /\ Clean(y) /\ IsList(z) /\ Clean(z)
    BY <1>9, <1>11 DEF BiRead, TriRead
  <2>. HIDE DEF y, z
  <2>2. Clean(y \o z)
    <3>1. /\ IsList(y \o z) /\ Len(y \o z) = Len(y) + Len(z)
          /\ \A k \in 1 .. Len(y) : (y \o z)[k] = y[k]
          /\ \A k \in 1 .. Len(z) : (y \o z)[Len(y) + k] = z[k]
      BY <2>1, ListConcat
    <3>2. DOMAIN y = 1 .. Len(y) /\ DOMAIN z = 1 .. Len(z) /\ DOMAIN (y \o z) = 1 .. Len(y) + Len(z)
          /\ Len(y) \in Nat /\ Len(z) \in Nat
      BY <2>1, <3>1, ListIn
    <3>3. ASSUME NEW k \in 1 .. Len(y) + Len(z) PROVE Unwritten \notin ToSet((y \o z)[k])
      <4>1. CASE k \in 1 .. Len(y)
        BY <2>1, <3>1, <3>2, <4>1 DEF Clean
      <4>2. CASE k \notin 1 .. Len(y)
        <5>1. k - Len(y) \in 1 .. Len(z) /\ Len(y) + (k - Len(y)) = k
          BY <3>2, <4>2
        <5>. QED
          BY <2>1, <3>1, <3>2, <5>1 DEF Clean
      <4>. QED
        BY <4>1, <4>2
    <3>. QED
      BY <3>2, <3>3 DEF Clean
  <2>3. trouble' = Watch(y \o z)
    BY <1>6 DEF y, z
  <2>. QED
    BY <2>2, <2>3, WatchClean DEF Clean
<1>18. /\ IsList(x) /\ Len(x) = m
       /\ \A j \in 1 .. m : x[j] = (t0s[j] (+) ToBag(BiRow(At(j), r1))) (+) ToBag(TriRow(At(j), r1, r2))
  <2>. DEFINE p == Plus(t0s, bi.reads)
  <2>1. /\ IsList(p) /\ Len(p) = Len(t0s)
        /\ \A j \in 1 .. Len(t0s) : p[j] = t0s[j] (+) ToBag(bi.reads[j])
    BY <1>3, PlusIs
  <2>2. x = Plus(p, tri.reads)
    OBVIOUS
  <2>. HIDE DEF p, x
  <2>3. /\ IsList(x) /\ Len(x) = Len(p) /\ \A j \in 1 .. Len(p) : x[j] = p[j] (+) ToBag(tri.reads[j])
    BY <2>1, <2>2, PlusIs
  <2>. QED
    BY <1>3, <1>9, <1>11, <2>1, <2>3 DEF BiRead, TriRead, m
<1>. HIDE DEF x
<1>19. Prescored'
  <2>1. /\ IsList(pre') /\ Len(pre') = i
        /\ \A j \in 1 .. Len(pre) : pre'[j] = pre[j]
        /\ pre'[i] = x
    BY <1>4, <1>6, ListAppend DEF i
  <2>2. /\ Row(bnd)' = Row(bnd) /\ c' = c
    BY <1>1, RowsStay DEF c, Atmost
  <2>3. ASSUME NEW k \in 1 .. i
        PROVE  /\ IsList(pre'[k]) /\ Len(pre'[k]) = m
               /\ \A j \in 1 .. m :
                   pre'[k][j] = ((t0s[j] (+) ToBag(BiRow(At(j), R1(k)))) (+) ToBag(TriRow(At(j), R1(k), R2(k))))'
    <3>1. /\ IsList(pre'[k]) /\ Len(pre'[k]) = m
          /\ \A j \in 1 .. m :
               pre'[k][j] = (t0s[j] (+) ToBag(BiRow(At(j), R1(k)))) (+) ToBag(TriRow(At(j), R1(k), R2(k)))
      <4>1. CASE k \in 1 .. Len(pre)
        BY <1>1, <1>2, <2>1, <4>1 DEF Prescored, m
      <4>2. CASE k = i
        BY <1>18, <2>1, <4>2 DEF r1, r2
      <4>3. k \in 1 .. Len(pre) \/ k = i
        BY <1>4 DEF i
      <4>. QED
        BY <4>1, <4>2, <4>3
    <3>2. R1(k)' = R1(k) /\ R2(k)' = R2(k) /\ \A j : At(j)' = At(j)
      BY <1>1, <1>15 DEF R1, R2, Previous
    <3>3. Bigrams' = Bigrams /\ Trigrams' = Trigrams
      BY <1>1, GramsStay
    <3>4. \A j : BiRow(At(j), R1(k))' = BiRow(At(j), R1(k)) /\ TriRow(At(j), R1(k), R2(k))' = TriRow(At(j), R1(k), R2(k))
      BY <3>2, <3>3 DEF BiRow, TriRow
    <3>. QED
      BY <1>1, <3>1, <3>4
  <2>4. /\ Atmost(cfg.check, Len(gb.elems))' = c /\ i <= c /\ Len(Row(bnd))' = m
    BY <1>4, <2>2 DEF c, m
  <2>. QED
    BY <1>1, <2>1, <2>3, <2>4 DEF Prescored
<1>. QED
  BY <1>2, <1>14, <1>15, <1>16, <1>17, <1>19 DEF IndicesWritten

-----------------------------------------------------------------------------
(* The loop over the elements of the global beam *)

LEMMA TrigramsFew ==
  ASSUME Chosen
  PROVE  Len(Trigrams) <= Len(Unigrams) \/ Len(Trigrams) <= Len(Bigrams)
<1>1. /\ Len(Unigrams) = Cardinality(OfOrder(1)) /\ Len(Bigrams) = Cardinality(OfOrder(2))
      /\ Len(Trigrams) = Cardinality(OfOrder(3))
  BY GramsAre DEF Unigrams, Bigrams, Trigrams
<1>2. Spoken \in ToSet(Specs)
  BY CompiledSpec DEF Spoken
<1>3. Cardinality(OfOrder(3)) <= Cardinality(OfOrder(1)) \/ Cardinality(OfOrder(3)) <= Cardinality(OfOrder(2))
  BY <1>2, FewTrigrams DEF OfOrder
<1>. QED
  BY <1>1, <1>3

LEMMA CleanConcat ==
  ASSUME NEW x, NEW y, IsList(x), IsList(y), Clean(x), Clean(y)
  PROVE  IsList(x \o y) /\ Clean(x \o y)
<1>1. /\ IsList(x \o y) /\ Len(x \o y) = Len(x) + Len(y)
      /\ \A k \in 1 .. Len(x) : (x \o y)[k] = x[k]
      /\ \A k \in 1 .. Len(y) : (x \o y)[Len(x) + k] = y[k]
  BY ListConcat
<1>2. DOMAIN x = 1 .. Len(x) /\ DOMAIN y = 1 .. Len(y) /\ DOMAIN (x \o y) = 1 .. Len(x) + Len(y)
      /\ Len(x) \in Nat /\ Len(y) \in Nat
  BY <1>1, ListIn
<1>3. ASSUME NEW k \in 1 .. Len(x) + Len(y) PROVE Unwritten \notin ToSet((x \o y)[k])
  <2>1. CASE k \in 1 .. Len(x)
    BY <1>1, <1>2, <2>1 DEF Clean
  <2>2. CASE k \notin 1 .. Len(x)
    <3>1. k - Len(x) \in 1 .. Len(y) /\ Len(x) + (k - Len(x)) = k
      BY <1>2, <2>2
    <3>. QED
      BY <1>1, <1>2, <3>1 DEF Clean
  <2>. QED
    BY <2>1, <2>2
<1>. QED
  BY <1>1, <1>2, <1>3 DEF Clean

\* The rows of indices of a node with rows of nodes before it.
LEMMA BiRowsAre ==
  ASSUME Chosen, NEW r0, NEW t1, IsList(t1), NEW rows,
         rows = [i \in DOMAIN t1 |-> BiStep1(BiStep0(r0), t1[i])]
  PROVE  /\ IsRows(rows, Len(Bigrams)) /\ IsList(rows) /\ Len(rows) = Len(t1) /\ Clean(rows)
         /\ \A i \in 1 .. Len(t1) : rows[i] = BiRow(r0, t1[i])
<1>. DEFINE m == Len(t1)
            n == Len(Bigrams)
<1>1. DOMAIN t1 = 1 .. m /\ m \in Nat
  BY ListIn
<1>2. n \in Nat
  BY MostIs, ListIn
<1>3. \A i \in 1 .. m : rows[i] = BiRow(r0, t1[i])
  <2>1. ASSUME NEW i \in 1 .. m PROVE rows[i] = BiRow(r0, t1[i])
    <3>1. rows[i] = BiStep1(BiStep0(r0), t1[i])
      BY <1>1
    <3>. QED
      BY <3>1, IndexRows
  <2>. QED
    BY <2>1
<1>4. rows = [i \in 1 .. m |-> rows[i]]
  BY <1>1
<1>5. \A i \in 1 .. m : IsList(rows[i]) /\ Len(rows[i]) = n /\ AllWritten(rows[i])
  BY <1>3, IndexRows
<1>. HIDE DEF m, n
<1>6. IsRows(rows, n) /\ IsList(rows) /\ Len(rows) = m /\ Clean(rows)
  BY <1>1, <1>2, <1>4, <1>5, RowsOf
<1>. QED
  BY <1>3, <1>6 DEF m, n

LEMMA TriRowsAre ==
  ASSUME Chosen, NEW r0, NEW t1, NEW t2, IsList(t2), NEW idx, NEW rows,
         rows = [i \in DOMAIN t2 |-> TriStep2(TriStep1(TriStep0(r0), t1[idx[i]]), t2[i])]
  PROVE  /\ IsRows(rows, Len(Trigrams)) /\ IsList(rows) /\ Len(rows) = Len(t2) /\ Clean(rows)
         /\ \A i \in 1 .. Len(t2) : rows[i] = TriRow(r0, t1[idx[i]], t2[i])
<1>. DEFINE m == Len(t2)
            n == Len(Trigrams)
<1>1. DOMAIN t2 = 1 .. m /\ m \in Nat
  BY ListIn
<1>2. n \in Nat
  BY MostIs, ListIn
<1>3. \A i \in 1 .. m : rows[i] = TriRow(r0, t1[idx[i]], t2[i])
  <2>1. ASSUME NEW i \in 1 .. m PROVE rows[i] = TriRow(r0, t1[idx[i]], t2[i])
    <3>1. rows[i] = TriStep2(TriStep1(TriStep0(r0), t1[idx[i]]), t2[i])
      BY <1>1
    <3>. QED
      BY <3>1, IndexRows
  <2>. QED
    BY <2>1
<1>4. rows = [i \in 1 .. m |-> rows[i]]
  BY <1>1
<1>5. \A i \in 1 .. m : IsList(rows[i]) /\ Len(rows[i]) = n /\ AllWritten(rows[i])
  BY <1>3, IndexRows
<1>. HIDE DEF m, n
<1>6. IsRows(rows, n) /\ IsList(rows) /\ Len(rows) = m /\ Clean(rows)
  BY <1>1, <1>2, <1>4, <1>5, RowsOf
<1>. QED
  BY <1>3, <1>6 DEF m, n

\* What both loops come to: the indices of a node with the elements tail, and
\* none that nobody wrote.
ResultDone(r0, t1, t2, idx, res) ==
  /\ IsList(res) /\ Len(res) = Len(t2)
  /\ \A i \in 1 .. Len(t2) :
       res[i] = ToBag(BiRow(r0, t1[idx[i]])) (+) ToBag(TriRow(r0, t1[idx[i]], t2[i]))
BiTriDone(r0, t1, t2, idx, x) ==
  /\ IsBuffers(x.val, Most) /\ KeepsWritten(buf.val, x.val, Most)
  /\ Clean(x.reads) /\ ResultDone(r0, t1, t2, idx, x.result)

\* Rows to go through, and where each finds the one of the node before.
BeamRows(t1, t2, idx) ==
  /\ IsList(t1) /\ IsList(t2) /\ Len(t2) # 0
  /\ \A i \in 1 .. Len(t2) : idx[i] \in 1 .. Len(t1)

LEMMA ResultIs ==
  ASSUME NEW r0, NEW t1, NEW t2, NEW idx, BeamRows(t1, t2, idx), NEW biRows, NEW triRows,
         \A i \in 1 .. Len(t1) : biRows[i] = BiRow(r0, t1[i]),
         \A i \in 1 .. Len(t2) : triRows[i] = TriRow(r0, t1[idx[i]], t2[i]),
         NEW res, res = Plus([i \in DOMAIN t2 |-> ToBag(biRows[idx[i]])], triRows)
  PROVE  ResultDone(r0, t1, t2, idx, res)
<1>. DEFINE m == Len(t2)
            q == [i \in DOMAIN t2 |-> ToBag(biRows[idx[i]])]
<1>1. DOMAIN t2 = 1 .. m /\ m \in Nat /\ \A i \in 1 .. m : idx[i] \in 1 .. Len(t1)
  BY ListIn DEF BeamRows
<1>2. q = [i \in 1 .. m |-> q[i]] /\ \A i \in 1 .. m : q[i] = ToBag(BiRow(r0, t1[idx[i]]))
  BY <1>1
<1>3. res = Plus(q, triRows)
  OBVIOUS
<1>. HIDE DEF q, m
<1>4. IsList(q) /\ Len(q) = m
  BY <1>1, <1>2, ListOf
<1>5. /\ IsList(res) /\ Len(res) = Len(q) /\ \A i \in 1 .. Len(q) : res[i] = q[i] (+) ToBag(triRows[i])
  BY <1>3, <1>4, PlusIs
<1>. QED
  BY <1>2, <1>4, <1>5 DEF m, ResultDone

LEMMA BiTriDynamicIs ==
  ASSUME Chosen, IsBuffers(buf.val, Most), NEW t0, NEW t1, NEW t2, NEW idx, BeamRows(t1, t2, idx)
  PROVE  BiTriDone(patterns[t0], t1, t2, idx, BiTriDynamic(t0, t1, t2, idx))
<1>. DEFINE r0 == patterns[t0]
            biRows == [i \in DOMAIN t1 |-> BiStep1(BiStep0(r0), t1[i])]
            triRows == [i \in DOMAIN t2 |-> TriStep2(TriStep1(TriStep0(r0), t1[idx[i]]), t2[i])]
            bi == RowLoop(biRows, Len(Bigrams), buf.val)
            tri == RowLoop(triRows, Len(Trigrams), bi.val)
            res == Plus([i \in DOMAIN t2 |-> ToBag(bi.reads[idx[i]])], tri.reads)
            x == [val |-> tri.val, reads |-> bi.reads \o tri.reads, result |-> res]
<1>1. BiTriDynamic(t0, t1, t2, idx) = x
  BY DEF BiTriDynamic
<1>2. IsList(t1) /\ IsList(t2) /\ Len(t1) # 0 /\ Len(t2) # 0
  <2>1. IsList(t1) /\ IsList(t2) /\ Len(t2) # 0 /\ Len(t1) \in Nat /\ Len(t2) \in Nat
    BY DEF BeamRows, IsList
  <2>2. 1 \in 1 .. Len(t2)
    BY <2>1
  <2>3. idx[1] \in 1 .. Len(t1)
    BY <2>2 DEF BeamRows
  <2>. QED
    BY <2>1, <2>3
<1>3. Most \in Nat /\ Len(Bigrams) \in 0 .. Most /\ Len(Trigrams) \in 0 .. Most
  BY MostIs
<1>. HIDE DEF r0
<1>4. /\ IsRows(biRows, Len(Bigrams)) /\ IsList(biRows) /\ Len(biRows) = Len(t1) /\ Clean(biRows)
      /\ \A i \in 1 .. Len(t1) : biRows[i] = BiRow(r0, t1[i])
  BY <1>2, BiRowsAre
<1>5. /\ IsRows(triRows, Len(Trigrams)) /\ IsList(triRows) /\ Len(triRows) = Len(t2) /\ Clean(triRows)
      /\ \A i \in 1 .. Len(t2) : triRows[i] = TriRow(r0, t1[idx[i]], t2[i])
  BY <1>2, TriRowsAre
<1>. HIDE DEF biRows, triRows
<1>6. bi.reads = biRows /\ IsBuffers(bi.val, Most) /\ KeepsWritten(buf.val, bi.val, Most)
  BY <1>2, <1>3, <1>4, RowLoopIs
<1>. HIDE DEF bi
<1>7. tri.reads = triRows /\ IsBuffers(tri.val, Most) /\ KeepsWritten(bi.val, tri.val, Most)
  <2>. DEFINE v == bi.val
  <2>1. IsBuffers(v, Most) /\ tri = RowLoop(triRows, Len(Trigrams), v)
    BY <1>6
  <2>. HIDE DEF v, tri
  <2>2. tri.reads = triRows /\ IsBuffers(tri.val, Most) /\ KeepsWritten(v, tri.val, Most)
    BY <1>2, <1>3, <1>5, <2>1, RowLoopIs
  <2>. QED
    BY <2>2 DEF v
<1>. HIDE DEF tri
<1>8. KeepsWritten(buf.val, tri.val, Most)
  BY <1>6, <1>7, KeepsTrans
<1>9. Clean(bi.reads \o tri.reads)
  BY <1>4, <1>5, <1>6, <1>7, CleanConcat
<1>10. ResultDone(r0, t1, t2, idx, res)
  <2>1. res = Plus([i \in DOMAIN t2 |-> ToBag(biRows[idx[i]])], triRows)
    BY <1>6, <1>7
  <2>. HIDE DEF res
  <2>. QED
    BY <1>4, <1>5, <2>1, ResultIs
<1>. HIDE DEF res
<1>11. BiTriDone(r0, t1, t2, idx, x)
  BY <1>7, <1>8, <1>9, <1>10 DEF BiTriDone
<1>. QED
  BY <1>1, <1>11 DEF r0

\* A pipeline reads no index that nobody wrote, if there is none in what was
\* left in its first buffer.
LEMMA PipelineClean ==
  ASSUME NEW m, NEW n \in Nat, NEW rows, IsRows(rows, n), Len(rows) # 0, Clean(rows),
         NEW val, NEW one, NEW two, NEW p, PipelineDone(rows, n, val, one, two, m, p),
         Unwritten \notin ToSet(Take(val, one, n))
  PROVE  IsList(p.reads) /\ Clean(p.reads)
<1>1. /\ IsList(p.reads) /\ Len(p.reads) = Len(rows) /\ p.reads[1] = Take(val, one, n)
      /\ \A j \in 2 .. Len(rows) : p.reads[j] = rows[j - 1]
  BY DEF PipelineDone
<1>2. DOMAIN p.reads = 1 .. Len(rows) /\ DOMAIN rows = 1 .. Len(rows) /\ Len(rows) \in Nat
  BY <1>1, ListIn DEF IsRows
<1>3. ASSUME NEW j \in 1 .. Len(rows) PROVE Unwritten \notin ToSet(p.reads[j])
  <2>1. CASE j = 1
    BY <1>1, <2>1
  <2>2. CASE j # 1
    <3>1. j \in 2 .. Len(rows) /\ j - 1 \in 1 .. Len(rows)
      BY <1>2, <2>2
    <3>. QED
      BY <1>1, <1>2, <3>1 DEF Clean
  <2>. QED
    BY <2>1, <2>2
<1>. QED
  BY <1>1, <1>2, <1>3 DEF Clean

\* What the loop over trigrams of the generated code finds in the buffer the
\* loop over bigrams leaves: its last row, or what the loop over unigrams wrote.
LEMMA LeftForTrigrams ==
  ASSUME Chosen, IsBuffers(buf.val, Most), FirstWritten(buf.val), OtherWritten(buf.val),
         NEW rows, IsRows(rows, Len(Bigrams)), Len(rows) # 0,
         NEW bi, PipelineDone(rows, Len(Bigrams), buf.val, 1, 2, Most, bi)
  PROVE  Unwritten \notin ToSet(Take(bi.val, bi.b1, Len(Trigrams)))
<1>. DEFINE nt == Len(Trigrams)
            nb == Len(Bigrams)
            nu == Len(Unigrams)
<1>1. Most \in Nat /\ nt \in 0 .. Most /\ nb \in 0 .. Most /\ nu \in 0 .. Most
  BY MostIs
<1>2. /\ IsBuffers(bi.val, Most) /\ KeepsWritten(buf.val, bi.val, Most) /\ bi.b1 \in 1 .. 2
      /\ Take(bi.val, bi.b1, nb) = rows[Len(rows)]
  BY DEF PipelineDone
<1>3. ASSUME NEW k \in 1 .. nt PROVE bi.val[bi.b1][k] # Unwritten
  <2>1. CASE nt <= nb
    <3>1. k \in 1 .. nb
      BY <1>1, <2>1
    <3>2. Take(bi.val, bi.b1, nb)[k] = bi.val[bi.b1][k]
      BY <1>1, <1>2, <3>1, TakeOf
    <3>3. rows[Len(rows)][k] # Unwritten
      <4>1. Len(rows) \in 1 .. Len(rows)
        BY DEF IsRows, IsList
      <4>. QED
        BY <3>1, <4>1 DEF IsRows
    <3>. QED
      BY <1>2, <3>2, <3>3
  <2>2. CASE nt <= nu
    <3>1. k \in 1 .. nu /\ k \in 1 .. Most
      BY <1>1, <2>2
    <3>2. buf.val[1][k] # Unwritten /\ buf.val[2][k] # Unwritten
      BY <3>1 DEF FirstWritten, OtherWritten
    <3>3. bi.b1 = 1 \/ bi.b1 = 2
      BY <1>2
    <3>. QED
      BY <1>2, <3>1, <3>2, <3>3 DEF KeepsWritten
  <2>. QED
    BY <2>1, <2>2, TrigramsFew
<1>. QED
  BY <1>1, <1>2, <1>3, TakeClean

LEMMA BiTriStaticIs ==
  ASSUME Chosen, IsBuffers(buf.val, Most), FirstWritten(buf.val), OtherWritten(buf.val),
         NEW r0, NEW t0, buf.t1[t0[2]] = BiStep0(r0), buf.t2a[t0[2]] = TriStep0(r0),
         NEW t1, NEW t2, NEW idx, BeamRows(t1, t2, idx)
  PROVE  BiTriDone(r0, t1, t2, idx, BiTriStatic(t0, t1, t2, idx))
<1>. DEFINE nb == Len(Bigrams)
            nt == Len(Trigrams)
            biRows == [i \in DOMAIN t1 |-> BiStep1(BiStep0(r0), t1[i])]
            triRows == [i \in DOMAIN t2 |-> TriStep2(TriStep1(TriStep0(r0), t1[idx[i]]), t2[i])]
            bi == Pipeline(biRows, nb, buf.val, 1, 2)
            one == SubSeq(triRows, 1, 1)
            first == Pipeline(one, nt, bi.val, bi.b1, bi.b2)
            tri == Pipeline(triRows, nt, bi.val, bi.b1, bi.b2)
            biReads == Append(Tail(bi.reads), Take(first.val, bi.b1, nb))
            triReads == Append(Tail(tri.reads), Take(tri.val, tri.b1, nt))
            res == Plus([i \in DOMAIN t2 |-> ToBag(biReads[idx[i]])], triReads)
            x == [val |-> tri.val, reads |-> bi.reads \o tri.reads \o biReads \o triReads, result |-> res]
<1>1. BiTriStatic(t0, t1, t2, idx) = x
  BY DEF BiTriStatic
<1>2. IsList(t1) /\ IsList(t2) /\ Len(t1) # 0 /\ Len(t2) # 0
  <2>1. IsList(t1) /\ IsList(t2) /\ Len(t2) # 0 /\ Len(t1) \in Nat /\ Len(t2) \in Nat
    BY DEF BeamRows, IsList
  <2>2. 1 \in 1 .. Len(t2)
    BY <2>1
  <2>3. idx[1] \in 1 .. Len(t1)
    BY <2>2 DEF BeamRows
  <2>. QED
    BY <2>1, <2>3
<1>3. Most \in Nat /\ nb \in 0 .. Most /\ nt \in 0 .. Most /\ nb \in Nat /\ nt \in Nat
  BY MostIs
<1>4. /\ IsRows(biRows, nb) /\ IsList(biRows) /\ Len(biRows) = Len(t1) /\ Clean(biRows)
      /\ \A i \in 1 .. Len(t1) : biRows[i] = BiRow(r0, t1[i])
  BY <1>2, BiRowsAre
<1>5. /\ IsRows(triRows, nt) /\ IsList(triRows) /\ Len(triRows) = Len(t2) /\ Clean(triRows)
      /\ \A i \in 1 .. Len(t2) : triRows[i] = TriRow(r0, t1[idx[i]], t2[i])
  BY <1>2, TriRowsAre
<1>. HIDE DEF biRows, triRows, nb, nt
<1>6. PipelineDone(biRows, nb, buf.val, 1, 2, Most, bi)
  <2>1. 1 \in 1 .. 2 /\ 2 \in 1 .. 2 /\ 1 # 2
    OBVIOUS
  <2>. QED
    BY <1>2, <1>3, <1>4, <2>1, PipelineIs
<1>. HIDE DEF bi
<1>7. /\ IsBuffers(bi.val, Most) /\ KeepsWritten(buf.val, bi.val, Most)
      /\ bi.b1 \in 1 .. 2 /\ bi.b2 \in 1 .. 2 /\ bi.b1 # bi.b2
      /\ Append(Tail(bi.reads), Take(bi.val, bi.b1, nb)) = biRows
  BY <1>6 DEF PipelineDone
<1>8. PipelineDone(triRows, nt, bi.val, bi.b1, bi.b2, Most, tri)
  <2>. DEFINE v == bi.val
              a == bi.b1
              b == bi.b2
  <2>1. IsBuffers(v, Most) /\ a \in 1 .. 2 /\ b \in 1 .. 2 /\ a # b
    BY <1>7
  <2>. HIDE DEF v, a, b
  <2>2. PipelineDone(triRows, nt, v, a, b, Most, Pipeline(triRows, nt, v, a, b))
    BY <1>2, <1>3, <1>5, <2>1, PipelineIs
  <2>. QED
    BY <2>2 DEF v, a, b
<1>9. PipelineDone(one, nt, bi.val, bi.b1, bi.b2, Most, first) /\ Len(one) = 1
  <2>. DEFINE v == bi.val
              a == bi.b1
              b == bi.b2
  <2>1. IsBuffers(v, Most) /\ a \in 1 .. 2 /\ b \in 1 .. 2 /\ a # b
    BY <1>7
  <2>2. IsList(one) /\ Len(one) = 1 /\ one[1] = triRows[1] /\ 1 \in 1 .. Len(triRows)
    <3>1. IsList(triRows) /\ Len(triRows) \in Nat /\ Len(triRows) # 0
      BY <1>2, <1>5 DEF IsList
    <3>2. 1 \in 1 .. Len(triRows) + 1 /\ 1 \in 1 - 1 .. Len(triRows) /\ 1 - 1 + 1 = 1 /\ 1 \in 1 .. 1
          /\ 1 + 1 - 1 = 1
      BY <3>1
    <3>3. IsList(one) /\ Len(one) = 1 - 1 + 1 /\ \A i \in 1 .. 1 - 1 + 1 : one[i] = triRows[1 + i - 1]
      BY <3>1, <3>2, ListPart
    <3>. HIDE DEF one
    <3>4. one[1] = triRows[1 + 1 - 1]
      BY <3>2, <3>3
    <3>. QED
      BY <3>1, <3>2, <3>3, <3>4
  <2>. HIDE DEF one, v, a, b
  <2>3. IsRows(one, nt) /\ Len(one) # 0
    <3>1. \A i \in 1 .. 1 : i = 1
      OBVIOUS
    <3>. QED
      BY <1>5, <2>2, <3>1 DEF IsRows
  <2>4. PipelineDone(one, nt, v, a, b, Most, Pipeline(one, nt, v, a, b))
    BY <1>3, <2>1, <2>3, PipelineIs
  <2>. QED
    BY <2>2, <2>4 DEF v, a, b
<1>. HIDE DEF tri, first, one
<1>10. biReads = biRows
  <2>1. first.val[bi.b1] = bi.val[bi.b1]
    BY <1>9 DEF PipelineDone
  <2>2. Take(first.val, bi.b1, nb) = Take(bi.val, bi.b1, nb)
    BY <2>1 DEF Take
  <2>. QED
    BY <1>7, <2>2
<1>11. /\ triReads = triRows /\ IsBuffers(tri.val, Most) /\ KeepsWritten(bi.val, tri.val, Most)
  BY <1>8 DEF PipelineDone
<1>. HIDE DEF biReads, triReads
<1>12. KeepsWritten(buf.val, tri.val, Most)
  BY <1>7, <1>11, KeepsTrans
<1>13. Clean(bi.reads) /\ IsList(bi.reads)
  <2>1. Unwritten \notin ToSet(Take(buf.val, 1, nb))
    <3>1. \A k \in 1 .. nb : buf.val[1][k] # Unwritten
      <4>1. \A k \in 1 .. nb : k \in 1 .. Most
        BY <1>3
      <4>. QED
        BY <4>1 DEF FirstWritten
    <3>2. 1 \in 1 .. 2
      OBVIOUS
    <3>. QED
      BY <1>3, <3>1, <3>2, TakeClean
  <2>. QED
    BY <1>2, <1>3, <1>4, <1>6, <2>1, PipelineClean
<1>14. Clean(tri.reads) /\ IsList(tri.reads)
  <2>1. Unwritten \notin ToSet(Take(bi.val, bi.b1, nt))
    BY <1>2, <1>4, <1>6, LeftForTrigrams DEF nb, nt
  <2>. DEFINE v == bi.val
              a == bi.b1
              b == bi.b2
  <2>2. Unwritten \notin ToSet(Take(v, a, nt)) /\ PipelineDone(triRows, nt, v, a, b, Most, tri)
    BY <1>8, <2>1
  <2>. HIDE DEF v, a, b
  <2>. QED
    BY <1>2, <1>3, <1>5, <2>2, PipelineClean
<1>15. Clean(bi.reads \o tri.reads \o biReads \o triReads)
  <2>. DEFINE c == bi.reads
              d == tri.reads
  <2>1. IsList(c) /\ Clean(c) /\ IsList(d) /\ Clean(d)
    BY <1>13, <1>14
  <2>2. IsList(biReads) /\ Clean(biReads) /\ IsList(triReads) /\ Clean(triReads)
    BY <1>4, <1>5, <1>10, <1>11
  <2>. HIDE DEF c, d
  <2>3. IsList(c \o d) /\ Clean(c \o d)
    BY <2>1, CleanConcat
  <2>4. IsList((c \o d) \o biReads) /\ Clean((c \o d) \o biReads)
    BY <2>2, <2>3, CleanConcat
  <2>5. Clean(((c \o d) \o biReads) \o triReads)
    BY <2>2, <2>4, CleanConcat
  <2>. QED
    BY <2>5 DEF c, d
<1>16. ResultDone(r0, t1, t2, idx, res)
  <2>1. res = Plus([i \in DOMAIN t2 |-> ToBag(biRows[idx[i]])], triRows)
    BY <1>10, <1>11
  <2>. HIDE DEF res
  <2>. QED
    BY <1>4, <1>5, <2>1, ResultIs
<1>. HIDE DEF res
<1>17. BiTriDone(r0, t1, t2, idx, x)
  BY <1>11, <1>12, <1>15, <1>16 DEF BiTriDone
<1>. QED
  BY <1>1, <1>17

-----------------------------------------------------------------------------
(* Scoring a node with the global beam *)

LEMMA HeadFits ==
  ASSUME BufferInv, phase = "node"
  PROVE  /\ HeadLength \in 0 .. Len(gb.elems) /\ HeadLength <= Len(pre)
         /\ Len(gb.elems) \in Nat /\ Len(gb.elems) <= cfg.gbeam /\ cfg.gbeam \in Nat
<1>1. /\ cfg.check \in Nat /\ cfg.gbeam \in Nat /\ Len(gb.elems) \in Nat /\ Len(gb.elems) <= cfg.gbeam
      /\ Len(pre) = Atmost(cfg.check, Len(gb.elems))
  BY DEF BufferInv, RowsInv, NgInv, Config, Copied, IsList, Prescored
<1>2. Len(Row(bnd)) \in Nat
  BY StatesThere
<1>. QED
  BY <1>1, <1>2 DEF HeadLength, Atmost

\* The node to score.
LEMMA NodeIs ==
  ASSUME BufferInv, phase = "node", order # <<>>
  PROVE  /\ Head(order) \in ToSet(Row(bnd)) /\ Head(order)[2] \in 1 .. Len(Row(bnd))
         /\ Row(bnd)[Head(order)[2]] = Head(order) /\ At(Head(order)[2]) = patterns[Head(order)]
         /\ Head(order)[1] = bnd
         /\ IsList(order) /\ Len(order) # 0
<1>1. IsList(order) /\ ToSet(order) \subseteq ToSet(Row(bnd))
  BY DEF BufferInv, RowsInv, Queued
<1>2. Len(order) # 0
  BY <1>1, EmptyList
<1>3. Head(order) = order[1] /\ 1 \in DOMAIN order
  <2>1. DOMAIN order = 1 .. Len(order) /\ Len(order) \in Nat
    BY <1>1, ListIn
  <2>. QED
    BY <1>1, <1>2, <2>1, ListTail
<1>4. Head(order) \in ToSet(Row(bnd))
  BY <1>1, <1>3 DEF ToSet
<1>5. DOMAIN Row(bnd) = 1 .. Len(Row(bnd))
  BY RowFits DEF BufferInv, RowsInv
<1>6. PICK i \in 1 .. Len(Row(bnd)) : Head(order) = Row(bnd)[i]
  BY <1>4, <1>5 DEF ToSet
<1>7. Row(bnd)[i] = <<bnd, i>>
  <2>1. i \in DOMAIN [j \in 1 .. Cardinality(RowOf(lat, bnd)) |-> <<bnd, j>>]
    BY <1>5 DEF Row
  <2>. QED
    BY <2>1 DEF Row
<1>8. Head(order)[2] = i /\ Head(order)[1] = bnd
  BY <1>6, <1>7
<1>. QED
  BY <1>1, <1>2, <1>4, <1>6, <1>8 DEF At

LEMMA ListBehind ==
  ASSUME NEW x, IsList(x), NEW h \in 0 .. Len(x)
  PROVE  /\ IsList(SubSeq(x, h + 1, Len(x))) /\ Len(SubSeq(x, h + 1, Len(x))) = Len(x) - h
         /\ \A i \in 1 .. Len(x) - h : SubSeq(x, h + 1, Len(x))[i] = x[h + i] /\ h + i \in 1 .. Len(x)
<1>. DEFINE m == Len(x)
            a == h + 1
            y == SubSeq(x, a, m)
<1>1. m \in Nat /\ h \in 0 .. m
  BY ListIn
<1>2. a \in 1 .. m + 1 /\ m \in a - 1 .. m
  BY <1>1
<1>. HIDE DEF a
<1>3. IsList(y) /\ Len(y) = m - a + 1 /\ \A i \in 1 .. m - a + 1 : y[i] = x[a + i - 1]
  BY <1>2, ListPart
<1>. HIDE DEF y, m
<1>4. m - a + 1 = m - h /\ \A i \in 1 .. m - h : a + i - 1 = h + i /\ h + i \in 1 .. m
  BY <1>1 DEF a
<1>5. IsList(y) /\ Len(y) = m - h /\ \A i \in 1 .. m - h : y[i] = x[h + i] /\ h + i \in 1 .. m
  BY <1>3, <1>4
<1>. QED
  BY <1>5 DEF y, m, a

\* The rows of the elements behind the head.
LEMMA TailFits ==
  ASSUME BufferInv, phase = "node", NEW h, h = HeadLength,
         NEW tail, tail = SubSeq(gb.t2, h + 1, Len(gb.t2)),
         NEW idx, idx = SubSeq(gb.t1idx, h + 1, Len(gb.t1idx))
  PROVE  /\ IsList(tail) /\ Len(tail) = Len(gb.elems) - h
         /\ \A i \in 1 .. Len(tail) :
              /\ h + i \in 1 .. Len(gb.elems)
              /\ tail[i] = R2(h + i) /\ gb.t1[idx[i]] = R1(h + i)
         /\ tail # <<>> => BeamRows(gb.t1, tail, idx)
<1>. DEFINE m == Len(gb.elems)
            k == m - h
<1>1. h \in 0 .. m /\ m \in Nat /\ h \in Nat
  BY HeadFits
<1>2. /\ IsList(gb.t2) /\ Len(gb.t2) = m /\ IsList(gb.t1idx) /\ Len(gb.t1idx) = m /\ IsList(gb.t1)
      /\ \A i \in 1 .. m : /\ gb.t1idx[i] \in 1 .. Len(gb.t1)
                           /\ gb.t1[gb.t1idx[i]] = R1(i) /\ gb.t2[i] = R2(i)
  BY DEF BufferInv, RowsInv, Copied, R1, R2
<1>. HIDE DEF m
<1>4. /\ IsList(tail) /\ Len(tail) = k
      /\ \A i \in 1 .. k : tail[i] = gb.t2[h + i] /\ h + i \in 1 .. m
  <2>. DEFINE x == gb.t2
  <2>1. IsList(x) /\ Len(x) = m /\ h \in 0 .. Len(x) /\ tail = SubSeq(x, h + 1, Len(x))
    BY <1>1, <1>2
  <2>. HIDE DEF x
  <2>2. /\ IsList(SubSeq(x, h + 1, Len(x))) /\ Len(SubSeq(x, h + 1, Len(x))) = Len(x) - h
        /\ \A i \in 1 .. Len(x) - h : SubSeq(x, h + 1, Len(x))[i] = x[h + i] /\ h + i \in 1 .. Len(x)
    BY <2>1, ListBehind
  <2>3. IsList(tail) /\ Len(tail) = k /\ \A i \in 1 .. k : tail[i] = x[h + i] /\ h + i \in 1 .. m
    BY <2>1, <2>2
  <2>. QED
    BY <2>3 DEF x
<1>5. \A i \in 1 .. k : idx[i] = gb.t1idx[h + i]
  <2>. DEFINE x == gb.t1idx
  <2>1. IsList(x) /\ Len(x) = m /\ h \in 0 .. Len(x) /\ idx = SubSeq(x, h + 1, Len(x))
    BY <1>1, <1>2
  <2>. HIDE DEF x
  <2>2. \A i \in 1 .. k : idx[i] = x[h + i]
    BY <2>1, ListBehind
  <2>. QED
    BY <2>2 DEF x
<1>. HIDE DEF k
<1>6. \A i \in 1 .. k : /\ h + i \in 1 .. m /\ tail[i] = R2(h + i) /\ gb.t1[idx[i]] = R1(h + i)
                        /\ idx[i] \in 1 .. Len(gb.t1)
  <2>1. ASSUME NEW i \in 1 .. k
        PROVE  /\ h + i \in 1 .. m /\ tail[i] = R2(h + i) /\ gb.t1[idx[i]] = R1(h + i)
               /\ idx[i] \in 1 .. Len(gb.t1)
    <3>. DEFINE j == h + i
    <3>1. j \in 1 .. m /\ tail[i] = gb.t2[j] /\ idx[i] = gb.t1idx[j]
      BY <1>4, <1>5
    <3>. HIDE DEF j
    <3>2. tail[i] = R2(j) /\ gb.t1[idx[i]] = R1(j) /\ idx[i] \in 1 .. Len(gb.t1)
      BY <1>2, <3>1
    <3>. QED
      BY <3>1, <3>2 DEF j
  <2>. QED
    BY <2>1
<1>7. tail # <<>> => BeamRows(gb.t1, tail, idx)
  <2>1. tail # <<>> => Len(tail) # 0
    BY <1>4, EmptyList
  <2>. QED
    BY <1>2, <1>4, <1>6, <2>1 DEF BeamRows
<1>. QED
  BY <1>4, <1>6, <1>7 DEF m, k

LEMMA BiTriIs ==
  ASSUME BufferInv, phase = "node", order # <<>>, NEW tail, NEW idx, BeamRows(gb.t1, tail, idx),
         NEW x, x = IF Static THEN BiTriStatic(Head(order), gb.t1, tail, idx)
                              ELSE BiTriDynamic(Head(order), gb.t1, tail, idx)
  PROVE  BiTriDone(patterns[Head(order)], gb.t1, tail, idx, x)
<1>. DEFINE t0 == Head(order)
            r0 == patterns[t0]
            t1 == gb.t1
<1>1. Chosen /\ IsBuffers(buf.val, Most) /\ FirstWritten(buf.val) /\ (Static => OtherWritten(buf.val))
  BY DEF BufferInv, RowsInv, Shaped, FirstWritten, OtherWritten
<1>2. buf.t1[t0[2]] = BiStep0(r0) /\ buf.t2a[t0[2]] = TriStep0(r0)
  <2>1. t0[2] \in 1 .. Len(Row(bnd)) /\ At(t0[2]) = r0
    BY NodeIs
  <2>. QED
    BY <2>1, StatesThere
<1>. HIDE DEF r0, t1
<1>3. BeamRows(t1, tail, idx)
  BY DEF t1
<1>4. CASE Static
  <2>1. BiTriDone(r0, t1, tail, idx, BiTriStatic(t0, t1, tail, idx))
    BY <1>1, <1>2, <1>3, <1>4, BiTriStaticIs
  <2>. QED
    BY <1>4, <2>1 DEF r0, t1
<1>5. CASE ~Static
  <2>1. BiTriDone(patterns[t0], t1, tail, idx, BiTriDynamic(t0, t1, tail, idx))
    BY <1>1, <1>3, BiTriDynamicIs
  <2>. QED
    BY <1>5, <2>1 DEF t1
<1>. QED
  BY <1>4, <1>5

LEMMA TotalsAre ==
  ASSUME NEW local, IsList(local), NEW first
  PROVE  /\ IsList(Totals(local, first)) /\ Len(Totals(local, first)) = Len(local)
         /\ \A i \in 1 .. Len(local) :
              Totals(local, first)[i] = local[i] (+) TotalOf(gb.elems[first + i - 1])
<1>. DEFINE q == Totals(local, first)
            m == Len(local)
<1>1. DOMAIN local = 1 .. m /\ m \in Nat
  BY ListIn
<1>2. q = [i \in 1 .. m |-> q[i]] /\ \A i \in 1 .. m : q[i] = local[i] (+) TotalOf(gb.elems[first + i - 1])
  BY <1>1 DEF Totals
<1>. HIDE DEF q, m
<1>3. IsList(q) /\ Len(q) = m
  BY <1>1, <1>2, ListOf
<1>. QED
  BY <1>2, <1>3 DEF q, m

\* The elements the node is scored with: the head from the prescores, the rest
\* from the loop.
HeadOf == [i \in 1 .. HeadLength |-> pre[i][Head(order)[2]]]
TailOf == SubSeq(gb.t2, HeadLength + 1, Len(gb.t2))
IdxOf == SubSeq(gb.t1idx, HeadLength + 1, Len(gb.t1idx))
LoopOf == IF Static THEN BiTriStatic(Head(order), gb.t1, TailOf, IdxOf)
                    ELSE BiTriDynamic(Head(order), gb.t1, TailOf, IdxOf)
RestOf == [i \in DOMAIN TailOf |-> t0s[Head(order)[2]] (+) LoopOf.result[i]]

\* A node with an element of the global beam.
NodeBi(i) == ToBag(BiRow(patterns[Head(order)], R1(i)))
NodeTri(i) == ToBag(TriRow(patterns[Head(order)], R1(i), R2(i)))
NodeUni == t0s[Head(order)[2]]

LEMMA HeadIs ==
  ASSUME BufferInv, phase = "node", order # <<>>
  PROVE  /\ IsList(HeadOf) /\ Len(HeadOf) = HeadLength
         /\ \A i \in 1 .. HeadLength : HeadOf[i] = (NodeUni (+) NodeBi(i)) (+) NodeTri(i)
<1>. DEFINE h == HeadLength
            q == HeadOf
<1>1. h \in Nat /\ Len(pre) \in Nat /\ h <= Len(pre)
  <2>1. Len(pre) \in Nat
    BY DEF BufferInv, Prescored, IsList
  <2>. QED
    BY <2>1, HeadFits
<1>2. q = [i \in 1 .. h |-> q[i]] /\ \A i \in 1 .. h : q[i] = pre[i][Head(order)[2]]
  BY DEF HeadOf
<1>3. ASSUME NEW i \in 1 .. h PROVE pre[i][Head(order)[2]] = (NodeUni (+) NodeBi(i)) (+) NodeTri(i)
  <2>1. i \in 1 .. Len(pre)
    BY <1>1
  <2>2. Head(order)[2] \in 1 .. Len(Row(bnd)) /\ At(Head(order)[2]) = patterns[Head(order)]
    BY NodeIs
  <2>. QED
    BY <2>1, <2>2 DEF BufferInv, Prescored, NodeUni, NodeBi, NodeTri
<1>. HIDE DEF q, h
<1>4. IsList(q) /\ Len(q) = h
  BY <1>1, <1>2, ListOf
<1>. QED
  BY <1>2, <1>3, <1>4 DEF q, h

LEMMA RestIs ==
  ASSUME BufferInv, phase = "node", order # <<>>, TailOf # <<>>
  PROVE  /\ IsList(RestOf) /\ Len(RestOf) = Len(gb.elems) - HeadLength
         /\ \A i \in 1 .. Len(RestOf) :
              /\ HeadLength + i \in 1 .. Len(gb.elems)
              /\ RestOf[i] = NodeUni (+) (NodeBi(HeadLength + i) (+) NodeTri(HeadLength + i))
         /\ IsBuffers(LoopOf.val, Most) /\ KeepsWritten(buf.val, LoopOf.val, Most) /\ Clean(LoopOf.reads)
<1>. DEFINE q == RestOf
            tail == TailOf
            idx == IdxOf
            h == HeadLength
            x == LoopOf
            m == Len(tail)
<1>1. /\ IsList(tail) /\ m = Len(gb.elems) - h
      /\ \A i \in 1 .. m : /\ h + i \in 1 .. Len(gb.elems)
                           /\ tail[i] = R2(h + i) /\ gb.t1[idx[i]] = R1(h + i)
      /\ BeamRows(gb.t1, tail, idx)
  BY TailFits DEF TailOf, IdxOf
<1>2. BiTriDone(patterns[Head(order)], gb.t1, tail, idx, x)
  BY <1>1, BiTriIs DEF LoopOf
<1>3. DOMAIN tail = 1 .. m /\ m \in Nat
  BY <1>1, ListIn
<1>4. q = [i \in 1 .. m |-> q[i]] /\ \A i \in 1 .. m : q[i] = NodeUni (+) x.result[i]
  BY <1>3 DEF RestOf, NodeUni
<1>. HIDE DEF q, tail, idx, h, x, m
<1>5. IsList(q) /\ Len(q) = m
  BY <1>3, <1>4, ListOf
<1>6. ASSUME NEW i \in 1 .. m PROVE x.result[i] = NodeBi(h + i) (+) NodeTri(h + i)
  BY <1>1, <1>2 DEF BiTriDone, ResultDone, NodeBi, NodeTri, m
<1>7. IsBuffers(x.val, Most) /\ KeepsWritten(buf.val, x.val, Most) /\ Clean(x.reads)
  BY <1>2 DEF BiTriDone
<1>. QED
  BY <1>1, <1>4, <1>5, <1>6, <1>7 DEF q, h, x

LEMMA ScoreNodeIs ==
  ASSUME ScoreNode
  PROVE  /\ phase = "node" /\ order # <<>>
         /\ UNCHANGED <<cfg, phase, bnd, patterns, t0s, t1s, left, elem, gb, pre>>
         /\ \/ /\ Keep /\ TailOf # <<>>
               /\ scores' = Merge(Stored(Head(order), HeadOf, 1),
                                  Merge(Stored(Head(order), RestOf, HeadLength + 1), scores))
               /\ result' = Over(result, Totals(HeadOf, 1) \o Totals(RestOf, HeadLength + 1))
               /\ buf' = [buf EXCEPT !.val = LoopOf.val]
               /\ trouble' = Watch(LoopOf.reads)
            \/ /\ ~(Keep /\ TailOf # <<>>)
               /\ scores' = Merge(Stored(Head(order), HeadOf, 1), scores)
               /\ result' = Over(result, Totals(HeadOf, 1))
               /\ trouble' = trouble \/ trouble' = trouble \cup {"outside"}
               /\ UNCHANGED buf
         /\ \E s \in Selections({gb.elems[i] : i \in 1 .. Considered}, BeamSize) :
              beams' = Merge([v \in {Head(order)} |-> s], beams)
BY DEF ScoreNode, TailOf, IdxOf, HeadOf, RestOf, LoopOf

\* What makeT0Beam finds in the result buffer: a total for every element the
\* node considers.
LEMMA ResultsAre ==
  ASSUME BufferInv, ScoreNode
  PROVE  /\ IsList(result') /\ Len(result') = cfg.gbeam
         /\ \A i \in 1 .. Considered :
              /\ i \in 1 .. Len(gb.elems)
              /\ \/ result'[i] = ((NodeUni (+) NodeBi(i)) (+) NodeTri(i)) (+) TotalOf(gb.elems[i])
                 \/ result'[i] = (NodeUni (+) (NodeBi(i) (+) NodeTri(i))) (+) TotalOf(gb.elems[i])
<1>. DEFINE m == Len(gb.elems)
            h == HeadLength
            x == Totals(HeadOf, 1)
            y == Totals(RestOf, h + 1)
            One(i) == ((NodeUni (+) NodeBi(i)) (+) NodeTri(i)) (+) TotalOf(gb.elems[i])
            Other(i) == (NodeUni (+) (NodeBi(i) (+) NodeTri(i))) (+) TotalOf(gb.elems[i])
<1>1. phase = "node" /\ order # <<>>
  BY ScoreNodeIs
<1>2. h \in 0 .. m /\ m \in Nat /\ m <= cfg.gbeam /\ cfg.gbeam \in Nat
  BY <1>1, HeadFits
<1>3. IsList(result) /\ Len(result) = cfg.gbeam
  BY DEF BufferInv, Shaped
<1>4. IsList(x) /\ Len(x) = h /\ \A i \in 1 .. h : x[i] = One(i)
  <2>1. /\ IsList(HeadOf) /\ Len(HeadOf) = h
        /\ \A i \in 1 .. h : HeadOf[i] = (NodeUni (+) NodeBi(i)) (+) NodeTri(i)
    BY <1>1, HeadIs
  <2>2. /\ IsList(x) /\ Len(x) = Len(HeadOf)
        /\ \A i \in 1 .. Len(HeadOf) : x[i] = HeadOf[i] (+) TotalOf(gb.elems[1 + i - 1])
    BY <2>1, TotalsAre
  <2>3. \A i \in 1 .. h : 1 + i - 1 = i
    BY <1>2
  <2>. QED
    BY <2>1, <2>2, <2>3
<1>5. TailOf # <<>> => /\ IsList(y) /\ Len(y) = m - h
                       /\ \A i \in 1 .. m - h : y[i] = Other(h + i)
  <2>. SUFFICES ASSUME TailOf # <<>>
                PROVE  IsList(y) /\ Len(y) = m - h /\ \A i \in 1 .. m - h : y[i] = Other(h + i)
    OBVIOUS
  <2>1. /\ IsList(RestOf) /\ Len(RestOf) = m - h
        /\ \A i \in 1 .. Len(RestOf) : RestOf[i] = NodeUni (+) (NodeBi(h + i) (+) NodeTri(h + i))
    BY <1>1, RestIs
  <2>2. /\ IsList(y) /\ Len(y) = Len(RestOf)
        /\ \A i \in 1 .. Len(RestOf) : y[i] = RestOf[i] (+) TotalOf(gb.elems[(h + 1) + i - 1])
    BY <2>1, TotalsAre
  <2>3. \A i \in 1 .. m - h : (h + 1) + i - 1 = h + i
    BY <1>2
  <2>. HIDE DEF y, m, h
  <2>. QED
    BY <2>1, <2>2, <2>3
<1>6. TailOf = <<>> => h = m
  <2>1. IsList(TailOf) /\ Len(TailOf) = m - h
    BY <1>1, TailFits DEF TailOf
  <2>. HIDE DEF m, h
  <2>. QED
    BY <1>2, <2>1, EmptyList
<1>7. \/ Keep /\ TailOf # <<>> /\ result' = Over(result, x \o y)
      \/ ~(Keep /\ TailOf # <<>>) /\ result' = Over(result, x)
  BY ScoreNodeIs
<1>8. Considered = IF Keep THEN m ELSE h
  BY DEF Considered
<1>. HIDE DEF x, y, m, h, One, Other
<1>9. CASE Keep /\ TailOf # <<>>
  <2>. DEFINE z == x \o y
  <2>1. /\ IsList(z) /\ Len(z) = Len(x) + Len(y)
        /\ \A i \in 1 .. Len(x) : z[i] = x[i]
        /\ \A i \in 1 .. Len(y) : z[Len(x) + i] = y[i]
    BY <1>4, <1>5, <1>9, ListConcat
  <2>. HIDE DEF z
  <2>2. Len(z) = m /\ Len(z) <= Len(result)
    BY <1>2, <1>3, <1>4, <1>5, <1>9, <2>1
  <2>3. /\ IsList(Over(result, z)) /\ Len(Over(result, z)) = Len(result)
        /\ \A i \in 1 .. Len(z) : Over(result, z)[i] = z[i]
    BY <1>3, <2>1, <2>2, OverIs
  <2>4. result' = Over(result, z)
    BY <1>7, <1>9 DEF z
  <2>5. ASSUME NEW i \in 1 .. m PROVE z[i] = One(i) \/ z[i] = Other(i)
    <3>1. CASE i \in 1 .. h
      BY <1>4, <2>1, <3>1
    <3>2. CASE i \notin 1 .. h
      <4>. DEFINE j == i - h
      <4>1. j \in 1 .. m - h /\ h + j = i
        BY <1>2, <3>2
      <4>. HIDE DEF j
      <4>2. z[h + j] = y[j]
        BY <1>4, <1>5, <1>9, <2>1, <4>1
      <4>. QED
        BY <1>5, <1>9, <4>1, <4>2
    <3>. QED
      BY <3>1, <3>2
  <2>6. Considered = m
    BY <1>8, <1>9
  <2>. QED
    BY <1>3, <2>2, <2>3, <2>4, <2>5, <2>6 DEF One, Other, m
<1>10. CASE ~(Keep /\ TailOf # <<>>)
  <2>1. Considered = h
    BY <1>6, <1>8, <1>10
  <2>2. Len(x) <= Len(result)
    BY <1>2, <1>3, <1>4
  <2>3. /\ IsList(Over(result, x)) /\ Len(Over(result, x)) = Len(result)
        /\ \A i \in 1 .. Len(x) : Over(result, x)[i] = x[i]
    BY <1>3, <1>4, <2>2, OverIs
  <2>4. \A i \in 1 .. h : i \in 1 .. m
    BY <1>2
  <2>5. result' = Over(result, x)
    BY <1>7, <1>10
  <2>6. \A i \in 1 .. h : result'[i] = One(i)
    BY <1>4, <2>3, <2>5
  <2>. QED
    BY <1>3, <2>1, <2>3, <2>4, <2>5, <2>6 DEF One, Other, m
<1>. QED
  BY <1>9, <1>10

LEMMA ScoreNodeKeepsBuffers ==
  ASSUME BufferInv, ScoreNode
  PROVE  Shaped' /\ Hashed' /\ Halfway' /\ Prescored' /\ IndicesWritten'
<1>1. /\ phase = "node" /\ phase' = "node" /\ order # <<>>
      /\ UNCHANGED <<cfg, bnd, patterns, t0s, t1s, left, elem, gb, pre>>
  BY ScoreNodeIs
<1>2. IsList(result') /\ Len(result') = cfg.gbeam
  BY ResultsAre
<1>3. Chosen /\ NgInv /\ Shaped /\ IndicesWritten /\ Hashed /\ Prescored
  BY DEF BufferInv, RowsInv
<1>4. DOMAIN buf = {"val", "cur", "t1", "t2a", "t2b"}
  BY <1>1, StatesThere
<1>5. /\ buf'.cur = buf.cur /\ buf'.t1 = buf.t1 /\ buf'.t2a = buf.t2a /\ buf'.t2b = buf.t2b
      /\ IsBuffers(buf'.val, Most) /\ KeepsWritten(buf.val, buf'.val, Most)
      /\ trouble' = trouble \/ trouble' = trouble \cup {"outside"}
  <2>1. CASE TailOf # <<>> /\ buf' = [buf EXCEPT !.val = LoopOf.val] /\ trouble' = Watch(LoopOf.reads)
    <3>1. IsBuffers(LoopOf.val, Most) /\ KeepsWritten(buf.val, LoopOf.val, Most) /\ Clean(LoopOf.reads)
      BY <1>1, <2>1, RestIs
    <3>2. Watch(LoopOf.reads) = trouble
      BY <3>1, WatchClean DEF Clean
    <3>. QED
      BY <1>4, <2>1, <3>1, <3>2
  <2>2. CASE UNCHANGED buf /\ (trouble' = trouble \/ trouble' = trouble \cup {"outside"})
    BY <1>3, <2>2, KeepsSame DEF Shaped
  <2>. QED
    BY <2>1, <2>2, ScoreNodeIs
<1>6. Shaped'
  <2>1. IsList(buf.t2b) /\ Len(buf.t2b) = MaxStarts
    BY <1>3 DEF Shaped
  <2>. QED
    BY <1>1, <1>2, <1>3, <1>5, <2>1, ShapedKeeps
<1>7. Hashed'
  BY <1>1, <1>3, <1>5, HashedStays
<1>8. Halfway'
  BY <1>1 DEF Halfway
<1>9. IndicesWritten'
  BY <1>3, <1>5, WrittenStays
<1>10. Prescored'
  <2>1. PICK s : beams' = Merge([v \in {Head(order)} |-> s], beams)
    BY ScoreNodeIs
  <2>2. Head(order)[1] = bnd
    BY <1>1, NodeIs
  <2>3. ASSUME NEW v \in DOMAIN beams, v[1] < bnd PROVE beams'[v] = beams[v]
    <3>1. bnd \in Int
      BY <1>3 DEF NgInv, Standing
    <3>2. v # Head(order)
      BY <2>2, <2>3, <3>1
    <3>. DEFINE f == [u \in {Head(order)} |-> s]
    <3>3. DOMAIN f = {Head(order)}
      OBVIOUS
    <3>. HIDE DEF f
    <3>4. beams' = Merge(f, beams)
      BY <2>1 DEF f
    <3>5. v \notin DOMAIN f
      BY <3>2, <3>3
    <3>6. Merge(f, beams)[v] = beams[v]
      BY <3>5 DEF Merge
    <3>. QED
      BY <3>4, <3>6
  <2>4. \A a \in Candidates(bnd) : Previous(a)' = Previous(a)
    BY <1>1, <2>3, SameCandidates DEF BufferInv
  <2>5. Len(pre) = Atmost(cfg.check, Len(gb.elems))
    BY <1>1, <1>3 DEF Prescored
  <2>. QED
    BY <1>1, <2>4, <2>5, PrescoredStays
<1>. QED
  BY <1>6, <1>7, <1>8, <1>9, <1>10

LEMMA QuietKeepsBuffers ==
  ASSUME BufferInv, UNCHANGED vars
  PROVE  Shaped' /\ Hashed' /\ Halfway' /\ Prescored' /\ IndicesWritten'
<1>1. UNCHANGED <<cfg, phase, bnd, patterns, buf, t0s, t1s, beams, left, gb, pre, result, trouble>>
  BY DEF vars
<1>2. Shaped /\ Hashed /\ Halfway /\ Prescored /\ IndicesWritten
  BY DEF BufferInv
<1>3. Shaped'
  BY <1>1, <1>2, ShapedStays DEF Shaped
<1>4. Hashed'
  <2>1. CASE phase \in {"t0", "done"}
    BY <1>1, <2>1 DEF Hashed
  <2>2. CASE phase \notin {"t0", "done"}
    BY <1>1, <1>2, <2>2, HashedStays
  <2>. QED
    BY <2>1, <2>2
<1>5. Halfway'
  <2>1. CASE phase # "t2"
    BY <1>1, <2>1 DEF Halfway
  <2>2. CASE phase = "t2"
    BY <1>1, <1>2, <2>2, HalfwayStays
  <2>. QED
    BY <2>1, <2>2
<1>6. Prescored'
  <2>1. CASE phase \notin {"prescores", "node"}
    BY <1>1, <2>1 DEF Prescored
  <2>2. CASE phase \in {"prescores", "node"}
    <3>1. \A a \in Candidates(bnd) : Previous(a)' = Previous(a)
      BY <1>1 DEF Previous
    <3>2. phase' = "node" => Len(pre) = Atmost(cfg.check, Len(gb.elems))
      BY <1>1, <1>2 DEF Prescored
    <3>. QED
      BY <1>1, <2>2, <3>1, <3>2, PrescoredStays
  <2>. QED
    BY <2>1, <2>2
<1>7. IndicesWritten'
  BY <1>1, <1>2 DEF IndicesWritten
<1>. QED
  BY <1>3, <1>4, <1>5, <1>6, <1>7

LEMMA KeepsBuffers == BufferInv /\ [Next]_vars => BufferInv'
<1>. SUFFICES ASSUME BufferInv, [Next]_vars PROVE BufferInv'
  OBVIOUS
<1>1. RowsInv'
  BY KeepsRows DEF BufferInv
<1>2. Shaped' /\ Hashed' /\ Halfway' /\ Prescored' /\ IndicesWritten'
  BY LeavesBuffers, ApplyT0KeepsBuffers, ComputeT0AllKeepsBuffers, ApplyT1KeepsBuffers,
     ApplyT2KeepsBuffers, GlobalBeamLeavesBuffers, PrescoresKeepBuffers, CutoffLeavesBuffers,
     ScoreNodeKeepsBuffers, QuietKeepsBuffers DEF Next
<1>. QED
  BY <1>1, <1>2 DEF BufferInv

\* No weight is looked up with an index nobody wrote, although the loops read a
\* buffer before its first row is there and only one of the buffers was filled:
\* the loops over trigrams of the generated code read no more of what was left
\* than the loops before them have written.
THEOREM IndicesAlwaysWritten == Spec => []IndicesWritten
<1>1. BufferInv => IndicesWritten
  BY DEF BufferInv
<1>. QED
  BY InitBuffers, KeepsBuffers, <1>1, PTL DEF Spec

-----------------------------------------------------------------------------
(* Sums of weights *)

\* The indices of a row of scores are those of different features, so that a
\* sum over a row has each of them once.
LEMMA OnceEach ==
  ASSUME NEW q, \A i, j \in DOMAIN q : q[i] = q[j] => i = j
  PROVE  ToBag(q) = SetToBag({q[i] : i \in DOMAIN q})
<1>1. ASSUME NEW x \in Range(q) PROVE Cardinality({i \in DOMAIN q : q[i] = x}) = 1
  <2>1. PICK k \in DOMAIN q : q[k] = x
    BY DEF Range
  <2>2. {i \in DOMAIN q : q[i] = x} = {k}
    BY <2>1
  <2>. QED
    BY <2>2, FS_Singleton
<1>2. Range(q) = {q[i] : i \in DOMAIN q}
  BY DEF Range
<1>. QED
  BY <1>1, <1>2 DEF ToBag, SetToBag

LEMMA SumsJoin ==
  ASSUME NEW A, NEW B, \A x \in A : x \notin B
  PROVE  SetToBag(A) (+) SetToBag(B) = SetToBag(A \cup B)
BY DEF SetToBag, (+)

LEMMA SumsCommute ==
  ASSUME NEW A, NEW B
  PROVE  SetToBag(A) (+) SetToBag(B) = SetToBag(B) (+) SetToBag(A)
<1>1. /\ DOMAIN SetToBag(A) = A /\ \A e \in A : SetToBag(A)[e] = 1
      /\ DOMAIN SetToBag(B) = B /\ \A e \in B : SetToBag(B)[e] = 1
  BY DEF SetToBag
<1>2. SetToBag(A) (+) SetToBag(B) = [e \in A \cup B |-> IF e \in A /\ e \in B THEN 2 ELSE 1]
  BY <1>1 DEF (+)
<1>3. SetToBag(B) (+) SetToBag(A) = [e \in B \cup A |-> IF e \in A /\ e \in B THEN 2 ELSE 1]
  BY <1>1 DEF (+)
<1>4. A \cup B = B \cup A
  OBVIOUS
<1>. QED
  BY <1>2, <1>3, <1>4

\* Three sums over different features are one, however they are added up.
LEMMA ThreeSums ==
  ASSUME NEW A, NEW B, NEW C, \A x \in A : x \notin B /\ x \notin C, \A x \in B : x \notin C
  PROVE  /\ (SetToBag(A) (+) SetToBag(B)) (+) SetToBag(C) = SetToBag(A \cup B \cup C)
         /\ SetToBag(A) (+) (SetToBag(B) (+) SetToBag(C)) = SetToBag(A \cup B \cup C)
<1>1. SetToBag(A) (+) SetToBag(B) = SetToBag(A \cup B)
  BY SumsJoin
<1>2. SetToBag(B) (+) SetToBag(C) = SetToBag(B \cup C)
  BY SumsJoin
<1>3. SetToBag(A \cup B) (+) SetToBag(C) = SetToBag((A \cup B) \cup C)
  <2>1. \A x \in A \cup B : x \notin C
    OBVIOUS
  <2>. QED
    BY <2>1, SumsJoin
<1>4. SetToBag(A) (+) SetToBag(B \cup C) = SetToBag(A \cup (B \cup C))
  <2>1. \A x \in A : x \notin B \cup C
    OBVIOUS
  <2>. QED
    BY <2>1, SumsJoin
<1>5. A \cup (B \cup C) = (A \cup B) \cup C
  OBVIOUS
<1>. QED
  BY <1>1, <1>2, <1>3, <1>4, <1>5
-----------------------------------------------------------------------------
(* The features of a connection *)

\* The index of an n-gram by what its patterns mean.
IndexOf(i, t2, t1, t0) ==
  LET g == Spoken.ngrams[i]
  IN CASE Len(g) = 1 -> <<3, i, "uni", cfg.means[t0][g[1]]>>
       [] Len(g) = 2 -> <<4, i, "bi", cfg.means[t0][g[1]], cfg.means[t1][g[2]]>>
       [] Len(g) = 3 -> <<5, i, "tri", cfg.means[t0][g[1]], cfg.means[t1][g[2]], cfg.means[t2][g[3]]>>
IndicesOf(k, t2, t1, t0) == {IndexOf(i, t2, t1, t0) : i \in OfOrder(k)}

\* The patterns of the n-grams are those the compiler numbers.
LEMMA NamedCombos ==
  ASSUME NEW s \in ToSet(Specs), NEW i \in DOMAIN s.ngrams, NEW h \in DOMAIN s.ngrams[i]
  PROVE  s.ngrams[i][h] \in ToSet(Combos(s))
<1>. DEFINE q == s.ngrams
            C == UNION {ToSet(q[j]) : j \in DOMAIN q}
            e == FlattenSeq(q)
<1>1. q \in Seq(Seq(C))
  BY NgramsOfCombos
<1>. HIDE DEF C, q
<1>2. e \in Seq(C) /\ \A v : v \in ToSet(e) <=> \E k \in DOMAIN q : v \in ToSet(q[k])
  BY <1>1, FlattenMembers
<1>3. q[i][h] \in ToSet(e)
  <2>1. i \in DOMAIN q /\ h \in DOMAIN q[i]
    BY DEF q
  <2>2. q[i][h] \in ToSet(q[i])
    BY <2>1 DEF ToSet
  <2>. QED
    BY <1>2, <2>1, <2>2
<1>4. Combos(s) = Distinct(e)
  BY DEF Combos, q
<1>. HIDE DEF e
<1>5. ToSet(Distinct(e)) = ToSet(e)
  BY <1>2, DistinctKeeps
<1>. QED
  BY <1>3, <1>4, <1>5 DEF q

\* The patterns of n-grams are numbered, and where longer n-grams read them all
\* are stored.
LEMMA PartMeans ==
  ASSUME Chosen, NEW k \in 1 .. 3, NEW i \in OfOrder(k), NEW h \in 1 .. k, NEW v \in NodesOf(lat)
  PROVE  LET combo == Spoken.ngrams[i][h]
             p == Number(Grouped(Spoken), combo)
         IN /\ p \in Patterns(compiled)
            /\ FullRow(v)[p] = cfg.means[v][combo]
            /\ k # 1 \/ ~Static => Stores(p)
<1>. DEFINE s == Spoken
            q == s.ngrams
            combo == q[i][h]
            p == Number(Grouped(s), combo)
<1>1. /\ s \in ToSet(Specs) /\ Patterns(compiled) = DOMAIN Grouped(s)
      /\ \A x \in Patterns(compiled) : compiled.patterns[x].usage = Usage(s, Grouped(s)[x])
  BY CompiledSpec DEF Spoken
<1>2. i \in DOMAIN q /\ Len(q[i]) = k
  BY DEF OfOrder
<1>. DEFINE C == UNION {ToSet(q[j]) : j \in DOMAIN q}
<1>3. q \in Seq(Seq(C))
  BY <1>1, NgramsOfCombos
<1>. HIDE DEF C
<1>4. h \in DOMAIN q[i] /\ DOMAIN q[i] = 1 .. Len(q[i])
  <2>. HIDE DEF q
  <2>1. q[i] \in Seq(C)
    BY <1>2, <1>3
  <2>. QED
    BY <1>2, <2>1
<1>5. combo \in ToSet(Combos(s))
  BY <1>1, <1>2, <1>4, NamedCombos
<1>6. p \in DOMAIN Grouped(s) /\ Grouped(s)[p] = combo
  <2>1. ToSet(Grouped(s)) = ToSet(Combos(s))
    BY <1>1, UnigramPatternsLast
  <2>. QED
    BY <1>5, <2>1, NumberOf
<1>7. FullRow(v)[p] = cfg.means[v][combo]
  BY <1>1, <1>6, RowMeans DEF Spoken
<1>8. k \in Usage(s, combo)
  <2>1. Contains(q[i], combo)
    BY <1>4 DEF Contains
  <2>. QED
    BY <1>2, <2>1 DEF Usage
<1>9. k # 1 \/ ~Static => Stores(p)
  <2>1. k # 1 => compiled.patterns[p].usage # {1}
    BY <1>1, <1>6, <1>8
  <2>. QED
    BY <1>1, <1>6, <2>1, StoredPatterns
<1>. QED
  BY <1>1, <1>6, <1>7, <1>9

LEMMA IndexShape ==
  ASSUME NEW k \in 1 .. 3, NEW i \in OfOrder(k), NEW t2, NEW t1, NEW t0
  PROVE  /\ IndexOf(i, t2, t1, t0)[1] = k + 2
         /\ IndexOf(i, t2, t1, t0)[2] = i
<1>1. Len(Spoken.ngrams[i]) = k
  BY DEF OfOrder
<1>2. CASE k = 1
  BY <1>1, <1>2 DEF IndexOf
<1>3. CASE k = 2
  BY <1>1, <1>3 DEF IndexOf
<1>4. CASE k = 3
  BY <1>1, <1>4 DEF IndexOf
<1>. QED
  BY <1>2, <1>3, <1>4

LEMMA OrdersAre ==
  ASSUME Chosen
  PROVE  /\ DOMAIN Spoken.ngrams = OfOrder(1) \cup OfOrder(2) \cup OfOrder(3)
         /\ \A i \in DOMAIN Spoken.ngrams : Len(Spoken.ngrams[i]) \in 1 .. 3
<1>1. Spoken \in ToSet(Specs)
  BY CompiledSpec DEF Spoken
<1>2. \A i \in DOMAIN Spoken.ngrams : Len(Spoken.ngrams[i]) \in 1 .. 3
  BY <1>1, SpecsAssumption
<1>3. \A n : n \in 1 .. 3 => n = 1 \/ n = 2 \/ n = 3
  OBVIOUS
<1>. QED
  BY <1>2, <1>3 DEF OfOrder

\* What a connection is meant to be scored with: the indices of the unigrams,
\* bigrams and trigrams, each once.
LEMMA ReferenceIs ==
  ASSUME Chosen, NEW t2, NEW t1, NEW t0
  PROVE  Reference(t2, t1, t0) = SetToBag(IndicesOf(1, t2, t1, t0) \cup IndicesOf(2, t2, t1, t0)
                                          \cup IndicesOf(3, t2, t1, t0))
<1>. DEFINE q == [i \in DOMAIN Spoken.ngrams |-> IndexOf(i, t2, t1, t0)]
            S == IndicesOf(1, t2, t1, t0) \cup IndicesOf(2, t2, t1, t0) \cup IndicesOf(3, t2, t1, t0)
<1>1. Reference(t2, t1, t0) = ToBag(q)
  BY DEF Reference, IndexOf, Spoken
<1>2. DOMAIN q = OfOrder(1) \cup OfOrder(2) \cup OfOrder(3)
  BY OrdersAre
<1>3. \A i \in DOMAIN q : q[i] = IndexOf(i, t2, t1, t0)
  OBVIOUS
<1>. HIDE DEF q
<1>4. \A i \in DOMAIN q : q[i][2] = i
  BY <1>2, <1>3, IndexShape
<1>5. ToBag(q) = SetToBag({q[i] : i \in DOMAIN q})
  BY <1>4, OnceEach
<1>6. {q[i] : i \in DOMAIN q} = S
  BY <1>2, <1>3 DEF IndicesOf
<1>. QED
  BY <1>1, <1>5, <1>6

\* A row of indices of the n-grams of one order.
LEMMA RowSum ==
  ASSUME Chosen, NEW k \in 1 .. 3, NEW t2, NEW t1, NEW t0,
         NEW q, DOMAIN q = DOMAIN NgramsOf(compiled, k),
         \A j \in DOMAIN q : q[j] = IndexOf(NgramsOf(compiled, k)[j][1], t2, t1, t0)
  PROVE  ToBag(q) = SetToBag(IndicesOf(k, t2, t1, t0))
<1>. DEFINE grams == NgramsOf(compiled, k)
<1>1. /\ DOMAIN grams = 1 .. Len(grams)
      /\ \A j \in 1 .. Len(grams) : grams[j][1] \in OfOrder(k)
      /\ \A i \in OfOrder(k) : \E j \in 1 .. Len(grams) : grams[j][1] = i
      /\ \A i, j \in 1 .. Len(grams) : grams[i][1] = grams[j][1] => i = j
  BY GramsAre
<1>. HIDE DEF grams
<1>2. DOMAIN q = 1 .. Len(grams) /\ \A j \in DOMAIN q : q[j] = IndexOf(grams[j][1], t2, t1, t0)
  BY <1>1 DEF grams
<1>3. \A j \in DOMAIN q : q[j][2] = grams[j][1]
  BY <1>1, <1>2, IndexShape
<1>4. ToBag(q) = SetToBag({q[j] : j \in DOMAIN q})
  BY <1>1, <1>2, <1>3, OnceEach
<1>5. {q[j] : j \in DOMAIN q} = IndicesOf(k, t2, t1, t0)
  BY <1>1, <1>2 DEF IndicesOf
<1>. QED
  BY <1>4, <1>5

\* A row has what the pattern means that an n-gram reads at place h.
Tells(r, v, k, h) ==
  \A i \in OfOrder(k) :
    r[Number(Grouped(Spoken), Spoken.ngrams[i][h])] = cfg.means[v][Spoken.ngrams[i][h]]

LEMMA UniSum ==
  ASSUME Chosen, NEW t2, NEW t1, NEW t0, NEW r, Tells(r, t0, 1, 1)
  PROVE  ToBag(UniRow(r)) = SetToBag(IndicesOf(1, t2, t1, t0))
<1>. DEFINE q == UniRow(r)
<1>1. DOMAIN q = DOMAIN Unigrams /\ \A j \in DOMAIN q : q[j] = UniIndex(Unigrams[j], r)
  BY DEF UniRow
<1>2. /\ DOMAIN Unigrams = 1 .. Len(Unigrams)
      /\ \A j \in 1 .. Len(Unigrams) :
           /\ Unigrams[j][1] \in OfOrder(1)
           /\ Unigrams[j][1 + 1] = Number(Grouped(Spoken), Spoken.ngrams[Unigrams[j][1]][1])
  BY GramsAre DEF Unigrams
<1>. HIDE DEF q
<1>3. ASSUME NEW j \in DOMAIN q PROVE q[j] = IndexOf(Unigrams[j][1], t2, t1, t0)
  <2>. DEFINE i == Unigrams[j][1]
  <2>1. i \in OfOrder(1) /\ Unigrams[j][2] = Number(Grouped(Spoken), Spoken.ngrams[i][1])
    BY <1>1, <1>2
  <2>. HIDE DEF i
  <2>2. r[Unigrams[j][2]] = cfg.means[t0][Spoken.ngrams[i][1]]
    BY <2>1 DEF Tells
  <2>3. Len(Spoken.ngrams[i]) = 1
    BY <2>1 DEF OfOrder
  <2>4. IndexOf(i, t2, t1, t0) = <<3, i, "uni", cfg.means[t0][Spoken.ngrams[i][1]]>>
    BY <2>3 DEF IndexOf
  <2>. QED
    BY <1>1, <2>2, <2>4 DEF UniIndex, i
<1>. QED
  BY <1>1, <1>3, RowSum DEF Unigrams, q

LEMMA BiSum ==
  ASSUME Chosen, NEW t2, NEW t1, NEW t0, NEW r0, NEW r1, Tells(r0, t0, 2, 1), Tells(r1, t1, 2, 2)
  PROVE  ToBag(BiRow(r0, r1)) = SetToBag(IndicesOf(2, t2, t1, t0))
<1>. DEFINE q == BiRow(r0, r1)
<1>1. DOMAIN q = DOMAIN Bigrams /\ \A j \in DOMAIN q : q[j] = BiIndex(Bigrams[j], r0, r1)
  BY DEF BiRow
<1>2. /\ DOMAIN Bigrams = 1 .. Len(Bigrams)
      /\ \A j \in 1 .. Len(Bigrams) :
           /\ Bigrams[j][1] \in OfOrder(2)
           /\ \A h \in 1 .. 2 :
                Bigrams[j][h + 1] = Number(Grouped(Spoken), Spoken.ngrams[Bigrams[j][1]][h])
  BY GramsAre DEF Bigrams
<1>. HIDE DEF q
<1>3. ASSUME NEW j \in DOMAIN q PROVE q[j] = IndexOf(Bigrams[j][1], t2, t1, t0)
  <2>. DEFINE i == Bigrams[j][1]
  <2>1. /\ i \in OfOrder(2)
        /\ Bigrams[j][1 + 1] = Number(Grouped(Spoken), Spoken.ngrams[i][1])
        /\ Bigrams[j][2 + 1] = Number(Grouped(Spoken), Spoken.ngrams[i][2])
    BY <1>1, <1>2
  <2>. HIDE DEF i
  <2>2. r0[Bigrams[j][2]] = cfg.means[t0][Spoken.ngrams[i][1]]
    BY <2>1 DEF Tells
  <2>3. r1[Bigrams[j][3]] = cfg.means[t1][Spoken.ngrams[i][2]]
    BY <2>1 DEF Tells
  <2>4. Len(Spoken.ngrams[i]) = 2
    BY <2>1 DEF OfOrder
  <2>5. IndexOf(i, t2, t1, t0)
          = <<4, i, "bi", cfg.means[t0][Spoken.ngrams[i][1]], cfg.means[t1][Spoken.ngrams[i][2]]>>
    BY <2>4 DEF IndexOf
  <2>. QED
    BY <1>1, <2>2, <2>3, <2>5 DEF BiIndex, i
<1>. QED
  BY <1>1, <1>3, RowSum DEF Bigrams, q

LEMMA TriSum ==
  ASSUME Chosen, NEW t2, NEW t1, NEW t0, NEW r0, NEW r1, NEW r2,
         Tells(r0, t0, 3, 1), Tells(r1, t1, 3, 2), Tells(r2, t2, 3, 3)
  PROVE  ToBag(TriRow(r0, r1, r2)) = SetToBag(IndicesOf(3, t2, t1, t0))
<1>. DEFINE q == TriRow(r0, r1, r2)
<1>1. DOMAIN q = DOMAIN Trigrams /\ \A j \in DOMAIN q : q[j] = TriIndex(Trigrams[j], r0, r1, r2)
  BY DEF TriRow
<1>2. /\ DOMAIN Trigrams = 1 .. Len(Trigrams)
      /\ \A j \in 1 .. Len(Trigrams) :
           /\ Trigrams[j][1] \in OfOrder(3)
           /\ \A h \in 1 .. 3 :
                Trigrams[j][h + 1] = Number(Grouped(Spoken), Spoken.ngrams[Trigrams[j][1]][h])
  BY GramsAre DEF Trigrams
<1>. HIDE DEF q
<1>3. ASSUME NEW j \in DOMAIN q PROVE q[j] = IndexOf(Trigrams[j][1], t2, t1, t0)
  <2>. DEFINE i == Trigrams[j][1]
  <2>1. /\ i \in OfOrder(3)
        /\ Trigrams[j][1 + 1] = Number(Grouped(Spoken), Spoken.ngrams[i][1])
        /\ Trigrams[j][2 + 1] = Number(Grouped(Spoken), Spoken.ngrams[i][2])
        /\ Trigrams[j][3 + 1] = Number(Grouped(Spoken), Spoken.ngrams[i][3])
    BY <1>1, <1>2
  <2>. HIDE DEF i
  <2>2. r0[Trigrams[j][2]] = cfg.means[t0][Spoken.ngrams[i][1]]
    BY <2>1 DEF Tells
  <2>3. r1[Trigrams[j][3]] = cfg.means[t1][Spoken.ngrams[i][2]]
    BY <2>1 DEF Tells
  <2>4. r2[Trigrams[j][4]] = cfg.means[t2][Spoken.ngrams[i][3]]
    BY <2>1 DEF Tells
  <2>5. Len(Spoken.ngrams[i]) = 3
    BY <2>1 DEF OfOrder
  <2>6. IndexOf(i, t2, t1, t0)
          = <<5, i, "tri", cfg.means[t0][Spoken.ngrams[i][1]], cfg.means[t1][Spoken.ngrams[i][2]],
              cfg.means[t2][Spoken.ngrams[i][3]]>>
    BY <2>5 DEF IndexOf
  <2>. QED
    BY <1>1, <2>2, <2>3, <2>4, <2>6 DEF TriIndex, i
<1>. QED
  BY <1>1, <1>3, RowSum DEF Trigrams, q

\* The row unigrams read tells what they mean, whether it is the stored one or
\* still in registers; a known row tells all longer n-grams.
LEMMA KnownTells ==
  ASSUME Chosen, NEW v \in NodesOf(lat), Known(v)
  PROVE  /\ \A k \in 2 .. 3 : \A h \in 1 .. k : Tells(patterns[v], v, k, h)
         /\ Tells(IF Static THEN FullRow(v) ELSE patterns[v], v, 1, 1)
<1>1. ASSUME NEW k \in 2 .. 3, NEW h \in 1 .. k, NEW i \in OfOrder(k)
      PROVE  patterns[v][Number(Grouped(Spoken), Spoken.ngrams[i][h])] = cfg.means[v][Spoken.ngrams[i][h]]
  <2>1. k \in 1 .. 3 /\ k # 1
    OBVIOUS
  <2>. QED
    BY <2>1, PartMeans DEF Known
<1>2. ASSUME NEW i \in OfOrder(1)
      PROVE  (IF Static THEN FullRow(v) ELSE patterns[v])[Number(Grouped(Spoken), Spoken.ngrams[i][1])]
               = cfg.means[v][Spoken.ngrams[i][1]]
  <2>. DEFINE p == Number(Grouped(Spoken), Spoken.ngrams[i][1])
  <2>1. /\ p \in Patterns(compiled) /\ FullRow(v)[p] = cfg.means[v][Spoken.ngrams[i][1]]
        /\ 1 # 1 \/ ~Static => Stores(p)
    BY PartMeans
  <2>. QED
    BY <2>1 DEF Known
<1>. QED
  BY <1>1, <1>2 DEF Tells

\* The sum over the n-grams of a connection, in either order.
UniOf(v) == ToBag(UniRow(IF Static THEN FullRow(v) ELSE patterns[v]))

LEMMA ConnectionSum ==
  ASSUME Chosen, NEW t2 \in NodesOf(lat), NEW t1 \in NodesOf(lat), NEW t0 \in NodesOf(lat),
         Known(t2), Known(t1), Known(t0)
  PROVE  LET bi == ToBag(BiRow(patterns[t0], patterns[t1]))
             tri == ToBag(TriRow(patterns[t0], patterns[t1], patterns[t2]))
         IN /\ (UniOf(t0) (+) bi) (+) tri = Reference(t2, t1, t0)
            /\ UniOf(t0) (+) (bi (+) tri) = Reference(t2, t1, t0)
<1>. DEFINE A == IndicesOf(1, t2, t1, t0)
            B == IndicesOf(2, t2, t1, t0)
            C == IndicesOf(3, t2, t1, t0)
<1>1. UniOf(t0) = SetToBag(A)
  BY KnownTells, UniSum DEF UniOf
<1>2. ToBag(BiRow(patterns[t0], patterns[t1])) = SetToBag(B)
  <2>1. Tells(patterns[t0], t0, 2, 1) /\ Tells(patterns[t1], t1, 2, 2)
    BY KnownTells
  <2>. QED
    BY <2>1, BiSum
<1>3. ToBag(TriRow(patterns[t0], patterns[t1], patterns[t2])) = SetToBag(C)
  <2>1. Tells(patterns[t0], t0, 3, 1) /\ Tells(patterns[t1], t1, 3, 2) /\ Tells(patterns[t2], t2, 3, 3)
    BY KnownTells
  <2>. QED
    BY <2>1, TriSum
<1>4. /\ \A x \in A : x[1] = 1 + 2
      /\ \A x \in B : x[1] = 2 + 2
      /\ \A x \in C : x[1] = 3 + 2
  BY IndexShape DEF IndicesOf
<1>5. Reference(t2, t1, t0) = SetToBag(A \cup B \cup C)
  BY ReferenceIs
<1>. HIDE DEF A, B, C
<1>6. (\A x \in A : x \notin B /\ x \notin C) /\ \A x \in B : x \notin C
  BY <1>4
<1>. QED
  BY <1>1, <1>2, <1>3, <1>5, <1>6, ThreeSums

-----------------------------------------------------------------------------
(* The scores of connections *)

\* A scored element belongs to a beam, and while a boundary is scored to one of
\* a node before it, which keeps its beam.
Keyed ==
  \A k \in DOMAIN scores :
    k[2][1] \in DOMAIN beams /\ (phase \notin {"t0", "done"} => k[2][1][1] < bnd)

ExactInv == BufferInv /\ Keyed /\ ScoresExact

\* A node of the boundary with an element that ends there.
LEMMA CandidateSum ==
  ASSUME RowsInv, phase \notin {"t0", "done"}, NEW a \in Candidates(bnd), NEW v \in ToSet(Row(bnd))
  PROVE  LET bi == ToBag(BiRow(patterns[v], patterns[a[1]]))
             tri == ToBag(TriRow(patterns[v], patterns[a[1]], patterns[Previous(a)[1]]))
         IN /\ (UniOf(v) (+) bi) (+) tri = Reference(Previous(a)[1], a[1], v)
            /\ UniOf(v) (+) (bi (+) tri) = Reference(Previous(a)[1], a[1], v)
<1>1. /\ a[1] \in NodesOf(lat) /\ EndIn(lat, a[1]) = bnd /\ Known(a[1])
      /\ Previous(a)[1] \in DOMAIN beams /\ Known(Previous(a)[1])
  BY CandidateIs
<1>2. Previous(a)[1] \in NodesOf(lat)
  BY <1>1 DEF RowsInv, Linked
<1>3. v \in NodesOf(lat) /\ v[1] = bnd
  <2>1. IsLattice(lat) /\ bnd \in 2 .. lat.n + 2
    BY LatticesAssumption DEF RowsInv, NgInv, Config, Standing
  <2>2. v \in RowOf(lat, bnd)
    BY <2>1, RowLists
  <2>. QED
    BY <2>2 DEF RowOf
<1>4. Known(v)
  BY <1>1, <1>3, EndingIsReached
<1>5. Chosen
  BY DEF RowsInv
<1>. QED
  BY <1>1, <1>2, <1>3, <1>4, <1>5, ConnectionSum

\* What a boundary has scored stays right while the beams it was scored with do.
LEMMA ScoresStay ==
  ASSUME ScoresExact, Keyed, UNCHANGED <<cfg, scores>>,
         \A k \in DOMAIN scores : k[2][1] \in DOMAIN beams' /\ beams'[k[2][1]] = beams[k[2][1]]
  PROVE  ScoresExact'
<1>1. ASSUME NEW k \in DOMAIN scores
      PROVE  scores[k] = Reference(Previous(k[2])[1], k[2][1], k[1])'
  <2>1. Previous(k[2])' = Previous(k[2])
    BY DEF Previous
  <2>. DEFINE t2 == Previous(k[2])[1]
  <2>2. Reference(t2, k[2][1], k[1])' = Reference(t2, k[2][1], k[1])
    BY <2>1 DEF Reference
  <2>. QED
    BY <2>2 DEF ScoresExact
<1>. QED
  BY <1>1 DEF ScoresExact

LEMMA ScoresQuiet ==
  ASSUME ExactInv, UNCHANGED <<cfg, scores, beams>>,
         \/ UNCHANGED bnd /\ phase \notin {"t0", "done"}
         \/ UNCHANGED <<bnd, phase>>
         \/ phase' \in {"t0", "done"}
  PROVE  Keyed' /\ ScoresExact'
<1>1. Keyed'
  BY DEF ExactInv, Keyed
<1>2. ScoresExact'
  BY ScoresStay DEF ExactInv, Keyed
<1>. QED
  BY <1>1, <1>2

LEMMA MakeBeamsExact ==
  ASSUME ExactInv, MakeBeams
  PROVE  Keyed' /\ ScoresExact'
<1>1. phase = "t1" /\ phase' \in {"t0", "done"} /\ UNCHANGED <<cfg, scores>>
  BY DEF MakeBeams, NextBoundary
<1>2. PICK f \in [ToSet(Row(bnd)) -> Selections(Candidates(bnd), BeamSize)] : beams' = Merge(f, beams)
  BY DEF MakeBeams
<1>3. ASSUME NEW k \in DOMAIN scores
      PROVE  k[2][1] \in DOMAIN beams' /\ beams'[k[2][1]] = beams[k[2][1]]
  <2>1. k[2][1] \in DOMAIN beams /\ k[2][1][1] < bnd
    BY <1>1 DEF ExactInv, Keyed
  <2>2. IsLattice(lat) /\ bnd \in Int
    BY LatticesAssumption DEF ExactInv, BufferInv, RowsInv, NgInv, Config, Standing
  <2>3. k[2][1] \notin DOMAIN f
    <3>1. ToSet(Row(bnd)) \subseteq {<<bnd, i>> : i \in Nat}
      BY <2>2, RowLists
    <3>2. k[2][1] \in ToSet(Row(bnd)) => k[2][1][1] = bnd
      BY <3>1
    <3>. QED
      BY <1>2, <2>1, <2>2, <3>2
  <2>. QED
    BY <1>2, <2>1, <2>3 DEF Merge
<1>4. Keyed'
  BY <1>1, <1>3 DEF Keyed
<1>. QED
  BY <1>1, <1>3, <1>4, ScoresStay DEF ExactInv

LEMMA StartExact ==
  ASSUME ApplyT0 \/ ComputeT0All
  PROVE  Keyed' /\ ScoresExact'
<1>1. scores' = <<>>
  BY DEF ApplyT0, ComputeT0All, StartBoundary
<1>2. DOMAIN scores' = {}
  BY <1>1
<1>. QED
  BY <1>2 DEF Keyed, ScoresExact

\* A node of a boundary stands at its own position.
LEMMA RowPlace ==
  ASSUME NEW v \in ToSet(Row(bnd)), IsLattice(lat)
  PROVE  v[2] \in 1 .. Len(Row(bnd)) /\ Row(bnd)[v[2]] = v /\ v[1] = bnd
<1>1. PICK i \in DOMAIN Row(bnd) : v = Row(bnd)[i]
  BY DEF ToSet
<1>2. Row(bnd)[i] = <<bnd, i>>
  BY <1>1 DEF Row
<1>3. DOMAIN Row(bnd) = 1 .. Len(Row(bnd))
  BY RowLists
<1>. QED
  BY <1>1, <1>2, <1>3

\* applyT2 completes the sums for one element with all nodes of the boundary.
LEMMA ApplyT2Exact ==
  ASSUME ExactInv, ApplyT2
  PROVE  Keyed' /\ ScoresExact'
<1>. DEFINE u == Ends(bnd)[left]
            a == <<u, elem>>
            row == patterns[Previous(a)[1]]
            tri == TriStep3(buf.t2b, row, buf.val)
            t2s == Plus(t1s, tri.reads)
            new == [k \in {<<v, a>> : v \in ToSet(Row(bnd))} |-> t2s[k[1][2]]]
<1>1. /\ phase = "t2" /\ phase' = "t2" /\ UNCHANGED <<cfg, bnd, beams>>
      /\ elem \in DOMAIN beams[u]
  BY DEF ApplyT2
<1>2. BufferInv /\ RowsInv /\ Halfway /\ Hashed /\ Shaped /\ IsLattice(lat) /\ left \in DOMAIN Ends(bnd)
  BY <1>1, LatticesAssumption DEF ExactInv, BufferInv, RowsInv, NgInv, Config, Standing
<1>3. a \in Candidates(bnd)
  <2>1. u \in ToSet(Ends(bnd))
    BY <1>2 DEF ToSet
  <2>. HIDE DEF u
  <2>. QED
    BY <1>1, <2>1 DEF Candidates
<1>4. a[1] = u /\ u \in DOMAIN beams /\ u[1] < bnd
  BY <1>1, <1>2, <1>3, CandidateIs
<1>5. CASE buf.cur = 0
  <2>1. scores' = scores
    BY <1>5 DEF ApplyT2
  <2>. QED
    BY <1>1, <2>1, ScoresQuiet
<1>6. CASE buf.cur # 0
  <2>1. scores' = Merge(new, scores)
    BY <1>6 DEF ApplyT2
  <2>2. TriRead(LeftRow, row, buf.val, tri)
    <3>. HIDE DEF row
    <3>1. \A i \in 1 .. Len(Row(bnd)) : buf.t2b[i] = TriStep1(TriStep0(At(i)), LeftRow)
      BY <1>1, <1>2 DEF Halfway
    <3>2. IsBuffers(buf.val, Most)
      BY <1>2 DEF Shaped
    <3>. QED
      BY <1>1, <1>2, <1>6, <3>1, <3>2, TriStep3Is
  <2>3. ASSUME NEW v \in ToSet(Row(bnd)) PROVE t2s[v[2]] = Reference(Previous(a)[1], u, v)
    <3>. DEFINE i == v[2]
    <3>1. i \in 1 .. Len(Row(bnd)) /\ Row(bnd)[i] = v
      BY <1>2, RowPlace
    <3>. HIDE DEF i, tri
    <3>2. IsList(t1s) /\ Len(t1s) = Len(Row(bnd))
      BY <1>1, <1>2 DEF Halfway
    <3>3. t2s[i] = t1s[i] (+) ToBag(tri.reads[i])
      BY <3>1, <3>2, PlusIs
    <3>4. tri.reads[i] = TriRow(At(i), LeftRow, row)
      BY <2>2, <3>1 DEF TriRead
    <3>5. t1s[i] = t0s[i] (+) ToBag(BiRow(At(i), LeftRow))
      BY <1>1, <1>2, <3>1 DEF Halfway
    <3>6. t0s[i] = UniOf(v)
      BY <1>1, <1>2, <3>1 DEF Hashed, UniAt, At, UniOf
    <3>7. At(i) = patterns[v] /\ LeftRow = patterns[u]
      BY <3>1 DEF At, LeftRow
    <3>8. (UniOf(v) (+) ToBag(BiRow(patterns[v], patterns[a[1]])))
            (+) ToBag(TriRow(patterns[v], patterns[a[1]], patterns[Previous(a)[1]]))
          = Reference(Previous(a)[1], a[1], v)
      BY <1>1, <1>2, <1>3, CandidateSum
    <3>. HIDE DEF t2s, u
    <3>. QED
      BY <1>4, <3>3, <3>4, <3>5, <3>6, <3>7, <3>8 DEF i
  <2>. HIDE DEF t2s
  <2>4. DOMAIN new = {<<v, a>> : v \in ToSet(Row(bnd))}
        /\ \A k \in DOMAIN new : new[k] = t2s[k[1][2]]
    OBVIOUS
  <2>. HIDE DEF new
  <2>5. ASSUME NEW k \in DOMAIN new
        PROVE  k[2] = a /\ new[k] = Reference(Previous(k[2])[1], k[2][1], k[1])
    <3>1. PICK v \in ToSet(Row(bnd)) : k = <<v, a>>
      BY <2>4
    <3>. HIDE DEF a
    <3>2. k[1] = v /\ k[2] = a
      BY <3>1
    <3>. QED
      BY <1>4, <2>3, <2>4, <3>2
  <2>. HIDE DEF a, u
  <2>6. \A k \in DOMAIN scores' : scores'[k] = Reference(Previous(k[2])[1], k[2][1], k[1])
    <3>1. \A k \in DOMAIN scores : scores[k] = Reference(Previous(k[2])[1], k[2][1], k[1])
      BY DEF ExactInv, ScoresExact
    <3>. QED
      BY <2>1, <2>5, <3>1 DEF Merge
  <2>7. Keyed'
    <3>1. ASSUME NEW k \in DOMAIN scores' PROVE k[2][1] \in DOMAIN beams /\ k[2][1][1] < bnd
      <4>1. k \in DOMAIN new \/ k \in DOMAIN scores
        BY <2>1 DEF Merge
      <4>. QED
        BY <1>1, <1>4, <2>5, <4>1 DEF ExactInv, Keyed
    <3>. QED
      BY <1>1, <3>1 DEF Keyed
  <2>8. ASSUME NEW k \in DOMAIN scores'
        PROVE  scores'[k] = Reference(Previous(k[2])[1], k[2][1], k[1])'
    <3>1. Previous(k[2])' = Previous(k[2])
      BY <1>1 DEF Previous
    <3>2. Reference(Previous(k[2])[1], k[2][1], k[1])' = Reference(Previous(k[2])[1], k[2][1], k[1])
      BY <1>1, <3>1 DEF Reference
    <3>. QED
      BY <2>6, <3>2
  <2>. QED
    BY <2>7, <2>8 DEF ScoresExact
<1>. QED
  BY <1>5, <1>6


\* The sums for the node to score, with each element of the global beam.
LEMMA ElementSum ==
  ASSUME BufferInv, phase = "node", order # <<>>, NEW i \in 1 .. Len(gb.elems)
  PROVE  LET e == gb.elems[i]
             meant == Reference(Previous(e)[1], e[1], Head(order))
         IN /\ e \in Candidates(bnd)
            /\ (NodeUni (+) NodeBi(i)) (+) NodeTri(i) = meant
            /\ NodeUni (+) (NodeBi(i) (+) NodeTri(i)) = meant
<1>. DEFINE v == Head(order)
            e == gb.elems[i]
<1>1. /\ v \in ToSet(Row(bnd)) /\ v[2] \in 1 .. Len(Row(bnd))
      /\ Row(bnd)[v[2]] = v /\ At(v[2]) = patterns[v]
  BY NodeIs
<1>2. e \in Candidates(bnd) /\ RowsInv /\ Hashed
  BY DEF BufferInv, RowsInv, Copied
<1>3. NodeUni = UniOf(v)
  BY <1>1, <1>2 DEF NodeUni, Hashed, UniAt, UniOf
<1>4. NodeBi(i) = ToBag(BiRow(patterns[v], patterns[e[1]]))
  BY DEF NodeBi, R1
<1>5. NodeTri(i) = ToBag(TriRow(patterns[v], patterns[e[1]], patterns[Previous(e)[1]]))
  BY DEF NodeTri, R1, R2
<1>. HIDE DEF v, e
<1>6. /\ (UniOf(v) (+) ToBag(BiRow(patterns[v], patterns[e[1]])))
           (+) ToBag(TriRow(patterns[v], patterns[e[1]], patterns[Previous(e)[1]]))
         = Reference(Previous(e)[1], e[1], v)
      /\ UniOf(v) (+) (ToBag(BiRow(patterns[v], patterns[e[1]]))
           (+) ToBag(TriRow(patterns[v], patterns[e[1]], patterns[Previous(e)[1]])))
         = Reference(Previous(e)[1], e[1], v)
  BY <1>1, <1>2, CandidateSum
<1>. QED
  BY <1>2, <1>3, <1>4, <1>5, <1>6 DEF v, e

\* copyT0Scores stores the sum of an element under that element, also if the
\* global beam had it twice.
LEMMA StoredIs ==
  ASSUME NEW t0, NEW local, IsList(local), NEW first, NEW k \in DOMAIN Stored(t0, local, first)
  PROVE  \E i \in 1 .. Len(local) :
           k = <<t0, gb.elems[first + i - 1]>> /\ Stored(t0, local, first)[k] = local[i]
<1>1. DOMAIN local = 1 .. Len(local)
  BY ListIn
<1>2. \E i \in DOMAIN local : k = <<t0, gb.elems[first + i - 1]>>
  BY DEF Stored
<1>. DEFINE j == CHOOSE i \in DOMAIN local : gb.elems[first + i - 1] = k[2]
<1>3. \E i \in DOMAIN local : gb.elems[first + i - 1] = k[2]
  BY <1>2
<1>4. j \in DOMAIN local /\ gb.elems[first + j - 1] = k[2]
  BY <1>3
<1>5. Stored(t0, local, first)[k] = local[j]
  BY DEF Stored
<1>. HIDE DEF j
<1>6. k = <<t0, gb.elems[first + j - 1]>>
  BY <1>2, <1>4
<1>. QED
  BY <1>1, <1>4, <1>5, <1>6

\* What a node is scored with is exact.
IsExact(f) ==
  \A k \in DOMAIN f : /\ f[k] = Reference(Previous(k[2])[1], k[2][1], k[1])
                      /\ k[2][1] \in DOMAIN beams /\ k[2][1][1] < bnd

LEMMA HeadExact ==
  ASSUME BufferInv, phase = "node", order # <<>>
  PROVE  IsExact(Stored(Head(order), HeadOf, 1))
<1>. DEFINE f == Stored(Head(order), HeadOf, 1)
            m == Len(gb.elems)
            h == HeadLength
<1>1. h \in 0 .. m /\ m \in Nat
  BY HeadFits
<1>2. /\ IsList(HeadOf) /\ Len(HeadOf) = h
      /\ \A i \in 1 .. h : HeadOf[i] = (NodeUni (+) NodeBi(i)) (+) NodeTri(i)
  BY HeadIs
<1>3. ASSUME NEW k \in DOMAIN f
      PROVE  /\ f[k] = Reference(Previous(k[2])[1], k[2][1], k[1])
             /\ k[2][1] \in DOMAIN beams /\ k[2][1][1] < bnd
  <2>1. PICK i \in 1 .. h : k = <<Head(order), gb.elems[1 + i - 1]>> /\ f[k] = HeadOf[i]
    BY <1>2, StoredIs
  <2>2. i \in 1 .. m /\ 1 + i - 1 = i
    BY <1>1
  <2>. HIDE DEF f, m, h
  <2>3. k[1] = Head(order) /\ k[2] = gb.elems[i]
    BY <2>1, <2>2
  <2>4. /\ gb.elems[i] \in Candidates(bnd)
        /\ (NodeUni (+) NodeBi(i)) (+) NodeTri(i)
             = Reference(Previous(gb.elems[i])[1], gb.elems[i][1], Head(order))
    BY <2>2, ElementSum DEF m
  <2>5. gb.elems[i][1] \in DOMAIN beams /\ gb.elems[i][1][1] < bnd
    BY <2>4, CandidateIs DEF BufferInv
  <2>. QED
    BY <1>2, <2>1, <2>3, <2>4, <2>5
<1>. QED
  BY <1>3 DEF IsExact

LEMMA RestExact ==
  ASSUME BufferInv, phase = "node", order # <<>>, TailOf # <<>>
  PROVE  IsExact(Stored(Head(order), RestOf, HeadLength + 1))
<1>. DEFINE f == Stored(Head(order), RestOf, HeadLength + 1)
            m == Len(gb.elems)
            h == HeadLength
<1>1. h \in 0 .. m /\ m \in Nat
  BY HeadFits
<1>2. /\ IsList(RestOf) /\ Len(RestOf) = m - h
      /\ \A i \in 1 .. Len(RestOf) :
           /\ h + i \in 1 .. m
           /\ RestOf[i] = NodeUni (+) (NodeBi(h + i) (+) NodeTri(h + i))
  BY RestIs
<1>3. ASSUME NEW k \in DOMAIN f
      PROVE  /\ f[k] = Reference(Previous(k[2])[1], k[2][1], k[1])
             /\ k[2][1] \in DOMAIN beams /\ k[2][1][1] < bnd
  <2>1. PICK i \in 1 .. Len(RestOf) : k = <<Head(order), gb.elems[(h + 1) + i - 1]>> /\ f[k] = RestOf[i]
    BY <1>2, StoredIs
  <2>2. h + i \in 1 .. m /\ (h + 1) + i - 1 = h + i
    BY <1>1, <1>2
  <2>. DEFINE j == h + i
  <2>3. j \in 1 .. m /\ RestOf[i] = NodeUni (+) (NodeBi(j) (+) NodeTri(j))
    BY <1>2
  <2>4. k = <<Head(order), gb.elems[j]>>
    BY <2>1, <2>2
  <2>. HIDE DEF f, m, h, j
  <2>5. k[1] = Head(order) /\ k[2] = gb.elems[j]
    BY <2>4
  <2>6. /\ gb.elems[j] \in Candidates(bnd)
        /\ NodeUni (+) (NodeBi(j) (+) NodeTri(j))
             = Reference(Previous(gb.elems[j])[1], gb.elems[j][1], Head(order))
    BY <2>3, ElementSum DEF m
  <2>7. gb.elems[j][1] \in DOMAIN beams /\ gb.elems[j][1][1] < bnd
    BY <2>6, CandidateIs DEF BufferInv
  <2>. QED
    BY <2>1, <2>3, <2>5, <2>6, <2>7
<1>. QED
  BY <1>3 DEF IsExact

LEMMA MergeExact ==
  ASSUME NEW f, NEW g, IsExact(f), IsExact(g)
  PROVE  IsExact(Merge(f, g))
BY DEF IsExact, Merge

LEMMA ScoreNodeExact ==
  ASSUME ExactInv, ScoreNode
  PROVE  Keyed' /\ ScoresExact'
<1>1. /\ phase = "node" /\ phase' = "node" /\ order # <<>> /\ UNCHANGED <<cfg, bnd>>
  BY ScoreNodeIs
<1>2. BufferInv /\ IsExact(scores)
  BY <1>1 DEF ExactInv, ScoresExact, Keyed, IsExact
<1>3. IsExact(scores')
  <2>. DEFINE x == Stored(Head(order), HeadOf, 1)
              y == Stored(Head(order), RestOf, HeadLength + 1)
  <2>1. IsExact(x) /\ (TailOf # <<>> => IsExact(y))
    BY <1>1, <1>2, HeadExact, RestExact
  <2>2. \/ TailOf # <<>> /\ scores' = Merge(x, Merge(y, scores))
        \/ scores' = Merge(x, scores)
    BY ScoreNodeIs
  <2>. HIDE DEF x, y
  <2>3. CASE TailOf # <<>> /\ scores' = Merge(x, Merge(y, scores))
    <3>1. IsExact(Merge(y, scores))
      BY <1>2, <2>1, <2>3, MergeExact
    <3>. QED
      BY <2>1, <2>3, <3>1, MergeExact
  <2>4. CASE scores' = Merge(x, scores)
    BY <1>2, <2>1, <2>4, MergeExact
  <2>. QED
    BY <2>2, <2>3, <2>4
<1>4. ASSUME NEW v \in DOMAIN beams, v[1] < bnd PROVE v \in DOMAIN beams' /\ beams'[v] = beams[v]
  <2>1. PICK s : beams' = Merge([u \in {Head(order)} |-> s], beams)
    BY ScoreNodeIs
  <2>2. Head(order)[1] = bnd /\ bnd \in Int
    BY <1>1, <1>2, NodeIs DEF BufferInv, RowsInv, NgInv, Standing
  <2>. DEFINE f == [u \in {Head(order)} |-> s]
  <2>3. v # Head(order)
    BY <1>4, <2>2
  <2>4. v \notin DOMAIN f
    BY <2>3
  <2>. HIDE DEF f
  <2>5. beams' = Merge(f, beams)
    BY <2>1 DEF f
  <2>. QED
    BY <2>4, <2>5 DEF Merge
<1>5. ASSUME NEW k \in DOMAIN scores'
      PROVE  /\ scores'[k] = Reference(Previous(k[2])[1], k[2][1], k[1])'
             /\ k[2][1] \in DOMAIN beams' /\ k[2][1][1] < bnd
  <2>1. /\ scores'[k] = Reference(Previous(k[2])[1], k[2][1], k[1])
        /\ k[2][1] \in DOMAIN beams /\ k[2][1][1] < bnd
    BY <1>3 DEF IsExact
  <2>2. k[2][1] \in DOMAIN beams' /\ beams'[k[2][1]] = beams[k[2][1]]
    BY <1>4, <2>1
  <2>3. Previous(k[2])' = Previous(k[2])
    BY <2>2 DEF Previous
  <2>4. Reference(Previous(k[2])[1], k[2][1], k[1])' = Reference(Previous(k[2])[1], k[2][1], k[1])
    BY <1>1, <2>3 DEF Reference
  <2>. QED
    BY <2>1, <2>2, <2>4
<1>6. Keyed'
  BY <1>1, <1>5 DEF Keyed
<1>7. ScoresExact'
  BY <1>5 DEF ScoresExact
<1>. QED
  BY <1>6, <1>7

LEMMA QuietExact ==
  ASSUME ExactInv,
         \/ UNCHANGED vars \/ SkipBoundary \/ ApplyT1 \/ NextLeft \/ MakeGlobalBeam
         \/ ComputeT0Prescores \/ MakeT0cutoffBeam \/ EndBoundary
  PROVE  Keyed' /\ ScoresExact'
<1>1. CASE UNCHANGED vars
  BY <1>1, ScoresQuiet DEF vars
<1>2. CASE SkipBoundary \/ EndBoundary
  <2>1. UNCHANGED <<cfg, scores, beams>> /\ phase' \in {"t0", "done"}
    BY <1>2 DEF SkipBoundary, EndBoundary, NextBoundary
  <2>. QED
    BY <2>1, ScoresQuiet
<1>3. CASE ApplyT1 \/ NextLeft \/ MakeGlobalBeam \/ ComputeT0Prescores \/ MakeT0cutoffBeam
  <2>1. UNCHANGED <<cfg, bnd, scores, beams>> /\ phase \in {"t1", "t2", "gbeam", "prescores"}
    BY <1>3 DEF ApplyT1, NextLeft, MakeGlobalBeam, ComputeT0Prescores, MakeT0cutoffBeam
  <2>. QED
    BY <2>1, ScoresQuiet
<1>. QED
  BY <1>1, <1>2, <1>3

LEMMA InitExact == Init => ExactInv
<1>. SUFFICES ASSUME Init PROVE ExactInv
  OBVIOUS
<1>1. scores = <<>>
  BY DEF Init
<1>2. DOMAIN scores = {}
  BY <1>1
<1>. QED
  BY <1>2, InitBuffers DEF ExactInv, Keyed, ScoresExact

LEMMA KeepsExact == ExactInv /\ [Next]_vars => ExactInv'
<1>. SUFFICES ASSUME ExactInv, [Next]_vars PROVE ExactInv'
  OBVIOUS
<1>1. BufferInv'
  BY KeepsBuffers DEF ExactInv
<1>2. Keyed' /\ ScoresExact'
  BY QuietExact, StartExact, ApplyT2Exact, MakeBeamsExact, ScoreNodeExact DEF Next
<1>. QED
  BY <1>1, <1>2 DEF ExactInv

\* The stored local score of a connection is the sum of exactly the weights of
\* its own n-gram features, whichever rows, nodes and boundaries went through
\* the shared buffers before: interpreted and generated, with full and global
\* beams.
THEOREM ScoresAreExact == Spec => []ScoresExact
<1>1. ExactInv => ScoresExact
  BY DEF ExactInv
<1>. QED
  BY InitExact, KeepsExact, <1>1, PTL DEF Spec

\* The elements a node considers are ranked by their total with this node as
\* the last word: what the result buffer held for the node before is gone.
LEMMA NodeRanks ==
  ASSUME BufferInv, ScoreNode, NEW i \in 1 .. Considered
  PROVE  result'[i] = TotalOf(gb.elems[i])
                      (+) Reference(Previous(gb.elems[i])[1], gb.elems[i][1], Head(order))
<1>. DEFINE e == gb.elems[i]
            meant == Reference(Previous(e)[1], e[1], Head(order))
<1>1. phase = "node" /\ order # <<>> /\ i \in 1 .. Len(gb.elems)
  BY ScoreNodeIs, ResultsAre
<1>2. \/ result'[i] = ((NodeUni (+) NodeBi(i)) (+) NodeTri(i)) (+) TotalOf(e)
      \/ result'[i] = (NodeUni (+) (NodeBi(i) (+) NodeTri(i))) (+) TotalOf(e)
  BY ResultsAre
<1>3. result'[i] = meant (+) TotalOf(e)
  BY <1>1, <1>2, ElementSum
<1>4. \E S : meant = SetToBag(S)
  BY ReferenceIs DEF BufferInv, RowsInv
<1>. HIDE DEF meant, e
<1>5. meant (+) TotalOf(e) = TotalOf(e) (+) meant
  BY <1>4, SumsCommute DEF TotalOf
<1>. QED
  BY <1>3, <1>5 DEF meant, e

THEOREM RankedByTotal == Spec => RanksByTotal
<1>. DEFINE Ranks ==
       phase = "node" /\ order # <<>> =>
         \A i \in 1 .. Considered :
           result'[i] = TotalOf(gb.elems[i])
                        (+) Reference(Previous(gb.elems[i])[1], gb.elems[i][1], Head(order))
<1>1. ASSUME BufferInv, Next, phase = "node", order # <<>> PROVE ScoreNode
  BY <1>1 DEF Next, SkipBoundary, ApplyT0, ComputeT0All, StartBoundary, ApplyT1, ApplyT2, NextLeft,
              MakeBeams, MakeGlobalBeam, ComputeT0Prescores, MakeT0cutoffBeam, EndBoundary
<1>2. BufferInv /\ [Next]_vars => [Ranks]_vars
  BY <1>1, NodeRanks
<1>. QED
  BY InitBuffers, KeepsBuffers, <1>2, PTL DEF Spec, RanksByTotal
=============================================================================
