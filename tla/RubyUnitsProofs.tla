--------------------------- MODULE RubyUnitsProofs ---------------------------
(***************************************************************************)
(* Theorems of RubyUnits for every set of words: a scan of a text passes   *)
(* over its characters, the beats of a reading join to the reading, the    *)
(* reading of a word is dealt out to its units, the okurigana of a word    *)
(* stands under it as it is written, and every beat is a mora.             *)
(***************************************************************************)
EXTENDS RubyUnits, CommonLemmas, TLAPS

-----------------------------------------------------------------------------
(* The substrings a scan passes over *)

Bytes == Chars \X (1 .. 4)
Char(c) == [k \in 1 .. Width[c] |-> <<c, k>>]

LEMMA BytesOfChar ==
  ASSUME NEW c \in Chars
  PROVE  /\ Width[c] \in 1 .. 4 /\ Char(c) \in Seq(Bytes) /\ Len(Char(c)) = Width[c]
         /\ \A k \in 1 .. Width[c] : Char(c)[k] = <<c, k>>
<1>1. Width[c] \in 1 .. 4
  BY CharsAssumption
<1>2. \A k \in 1 .. Width[c] : <<c, k>> \in Bytes
  BY <1>1 DEF Bytes
<1>. QED
  BY <1>1, <1>2 DEF Char

LEMMA StepsForward ==
  ASSUME NEW b \in Bytes
  PROVE  StepFrom(b) \in 1 .. 3
BY DEF StepFrom

\* The piece that starts at byte i, and where the next one starts.
NextPiece(s, i) == i + StepFrom(s[i])
PieceAt(s, i) == SubSeq(s, i, IF NextPiece(s, i) - 1 > Len(s) THEN Len(s) ELSE NextPiece(s, i) - 1)
IsScan(s, f) ==
  f = [i \in 1 .. Len(s) + 3 |-> IF i > Len(s) THEN <<>> ELSE <<PieceAt(s, i)>> \o f[NextPiece(s, i)]]

LEMMA PieceShape ==
  ASSUME NEW s \in Seq(Bytes), NEW i \in 1 .. Len(s)
  PROVE  /\ NextPiece(s, i) \in i + 1 .. i + 3 /\ NextPiece(s, i) \in 1 .. Len(s) + 3
         /\ PieceAt(s, i) \in Seq(Bytes)
<1>1. Len(s) \in Nat /\ s[i] \in Bytes
  OBVIOUS
<1>2. StepFrom(s[i]) \in 1 .. 3
  BY <1>1, StepsForward
<1>3. NextPiece(s, i) \in i + 1 .. i + 3 /\ NextPiece(s, i) \in 1 .. Len(s) + 3
  BY <1>1, <1>2 DEF NextPiece
<1>. DEFINE to == IF NextPiece(s, i) - 1 > Len(s) THEN Len(s) ELSE NextPiece(s, i) - 1
<1>4. to \in Int /\ to <= Len(s)
  BY <1>1, <1>3
<1>. HIDE DEF to
<1>5. SubSeq(s, i, to) \in Seq(Bytes)
  <2>1. \A j \in i .. to : s[j] \in Bytes
    BY <1>1, <1>4
  <2>. QED
    BY <1>4, <2>1, SubSeqProperties
<1>. QED
  BY <1>3, <1>5 DEF PieceAt, to

\* Such a scan exists: the pieces from byte i on are given by those from a
\* later byte.
LEMMA ScanExists ==
  ASSUME NEW s \in Seq(Bytes)
  PROVE  \E f \in [1 .. Len(s) + 3 -> Seq(Seq(Bytes))] : IsScan(s, f)
<1>. DEFINE n == Len(s) + 3
            V == Seq(Seq(Bytes))
            Step(k, h) == LET i == n - k IN
                          IF k = n \/ i > Len(s) THEN <<>>
                          ELSE <<PieceAt(s, i)>> \o h[n - NextPiece(s, i)]
            G == [p \in Histories(n, V) |-> Step(p[1], p[2])]
<1>1. n \in Nat /\ Len(s) \in Nat
  OBVIOUS
<1>2. G \in [Histories(n, V) -> V]
  <2>1. ASSUME NEW k \in 0 .. n, NEW h \in [0 .. k - 1 -> V] PROVE Step(k, h) \in V
    <3>1. CASE k = n \/ n - k > Len(s)
      <4>1. <<>> \in V
        OBVIOUS
      <4>. QED
        BY <3>1, <4>1
    <3>2. CASE ~(k = n \/ n - k > Len(s))
      <4>1. n - k \in 1 .. Len(s)
        BY <1>1, <3>2
      <4>2. /\ NextPiece(s, n - k) \in n - k + 1 .. n - k + 3 /\ NextPiece(s, n - k) \in 1 .. Len(s) + 3
            /\ PieceAt(s, n - k) \in Seq(Bytes)
        BY <4>1, PieceShape
      <4>3. n - NextPiece(s, n - k) \in 0 .. k - 1
        BY <1>1, <4>2
      <4>4. h[n - NextPiece(s, n - k)] \in V /\ <<PieceAt(s, n - k)>> \in V
        BY <4>2, <4>3
      <4>. HIDE DEF n
      <4>5. <<PieceAt(s, n - k)>> \o h[n - NextPiece(s, n - k)] \in V
        BY <4>4, ConcatProperties
      <4>. QED
        BY <3>2, <4>5
    <3>. QED
      BY <3>1, <3>2
  <2>2. ASSUME NEW p \in Histories(n, V) PROVE Step(p[1], p[2]) \in V
    <3>1. PICK k \in 0 .. n : p \in {k} \X [0 .. k - 1 -> V]
      BY DEF Histories
    <3>2. p[1] = k /\ p[2] \in [0 .. k - 1 -> V]
      BY <3>1
    <3>. HIDE DEF Step, V, n
    <3>. QED
      BY <2>1, <3>2
  <2>. HIDE DEF Step, V, n
  <2>. QED
    BY <2>2
<1>3. PICK g \in [0 .. n -> V] : IsCourse(g, n, G)
  <2>. HIDE DEF G, n, V
  <2>. QED
    BY <1>1, <1>2, CourseExists
<1>4. ASSUME NEW k \in 0 .. n PROVE g[k] = Step(k, ValuesBefore(g, k))
  <2>. HIDE DEF Step, V, n
  <2>1. ValuesBefore(g, k) \in [0 .. k - 1 -> V]
    <3>1. \A j \in 0 .. k - 1 : g[j] \in V
      BY <1>1
    <3>. QED
      BY <3>1 DEF ValuesBefore
  <2>2. <<k, ValuesBefore(g, k)>> \in Histories(n, V)
    BY <2>1 DEF Histories
  <2>3. g[k] = G[<<k, ValuesBefore(g, k)>>]
    BY <1>3 DEF IsCourse
  <2>. QED
    BY <2>2, <2>3
<1>. DEFINE f == [i \in 1 .. n |-> g[n - i]]
<1>5. ASSUME NEW i \in 1 .. n
      PROVE  f[i] = IF i > Len(s) THEN <<>> ELSE <<PieceAt(s, i)>> \o f[NextPiece(s, i)]
  <2>1. n - i \in 0 .. n /\ n - (n - i) = i /\ n - i # n
    BY <1>1
  <2>2. f[i] = IF i > Len(s) THEN <<>>
               ELSE <<PieceAt(s, i)>> \o ValuesBefore(g, n - i)[n - NextPiece(s, i)]
    <3>. HIDE DEF n
    <3>. QED
      BY <1>4, <2>1
  <2>3. ASSUME i \in 1 .. Len(s)
        PROVE  ValuesBefore(g, n - i)[n - NextPiece(s, i)] = f[NextPiece(s, i)]
    <3>1. NextPiece(s, i) \in i + 1 .. i + 3 /\ NextPiece(s, i) \in 1 .. n
      BY <2>3, PieceShape
    <3>2. n - NextPiece(s, i) \in 0 .. (n - i) - 1
      BY <1>1, <3>1
    <3>. QED
      BY <3>1, <3>2 DEF ValuesBefore
  <2>6. i > Len(s) \/ i \in 1 .. Len(s)
    BY <1>1
  <2>. HIDE DEF f, n
  <2>4. CASE i > Len(s)
    BY <2>2, <2>4
  <2>5. CASE ~(i > Len(s))
    <3>1. ValuesBefore(g, n - i)[n - NextPiece(s, i)] = f[NextPiece(s, i)]
      BY <2>3, <2>5, <2>6
    <3>. QED
      BY <2>2, <2>5, <3>1
  <2>. QED
    BY <2>4, <2>5
<1>6. IsScan(s, f)
  <2>1. f = [i \in 1 .. n |-> f[i]]
    OBVIOUS
  <2>. HIDE DEF f
  <2>2. f = [i \in 1 .. n |-> IF i > Len(s) THEN <<>> ELSE <<PieceAt(s, i)>> \o f[NextPiece(s, i)]]
    BY <1>5, <2>1
  <2>. QED
    BY <2>2 DEF IsScan
<1>7. f \in [1 .. n -> V]
  <2>1. \A i \in 1 .. n : g[n - i] \in V
    <3>1. \A i \in 1 .. n : n - i \in 0 .. n
      BY <1>1
    <3>. HIDE DEF n, V
    <3>. QED
      BY <1>3, <3>1
  <2>. HIDE DEF n, V
  <2>. QED
    BY <2>1
<1>. QED
  BY <1>6, <1>7

\* The pieces are those of such a scan.
LEMMA PiecesScan ==
  ASSUME NEW s \in Seq(Bytes)
  PROVE  \E f : IsScan(s, f) /\ Pieces(s) = f[1]
<1>. DEFINE f == CHOOSE f : IsScan(s, f)
<1>1. IsScan(s, f)
  BY ScanExists
<1>2. Pieces(s) = f[1]
  BY DEF Pieces, IsScan, PieceAt, NextPiece
<1>. QED
  BY <1>1, <1>2

\* What a scan has at a place.
LEMMA ScanAt ==
  ASSUME NEW s \in Seq(Bytes), NEW f, IsScan(s, f), NEW i \in 1 .. Len(s) + 3
  PROVE  f[i] = IF i > Len(s) THEN <<>> ELSE <<PieceAt(s, i)>> \o f[NextPiece(s, i)]
<1>. DEFINE g == [j \in 1 .. Len(s) + 3 |-> IF j > Len(s) THEN <<>> ELSE <<PieceAt(s, j)>> \o f[NextPiece(s, j)]]
<1>1. f = g
  BY DEF IsScan
<1>2. g[i] = IF i > Len(s) THEN <<>> ELSE <<PieceAt(s, i)>> \o f[NextPiece(s, i)]
  OBVIOUS
<1>. HIDE DEF g
<1>. QED
  BY <1>1, <1>2

\* A scan of a whole text ends with its last byte, wherever it starts.
Whole(s) == \A i \in 1 .. Len(s) : NextPiece(s, i) <= Len(s) + 1

\* In a text made of two, of which the first is whole, the pieces are those of
\* the first and then those of the second.
LEMMA PieceOfJoined ==
  ASSUME NEW x \in Seq(Bytes), NEW y \in Seq(Bytes)
  PROVE  /\ x \o y \in Seq(Bytes) /\ Len(x \o y) = Len(x) + Len(y)
         /\ \A i \in 1 .. Len(x) : NextPiece(x \o y, i) = NextPiece(x, i)
         /\ Whole(x) => \A i \in 1 .. Len(x) : PieceAt(x \o y, i) = PieceAt(x, i)
         /\ \A j \in 1 .. Len(y) : /\ NextPiece(x \o y, Len(x) + j) = Len(x) + NextPiece(y, j)
                                   /\ PieceAt(x \o y, Len(x) + j) = PieceAt(y, j)
<1>. DEFINE z == x \o y
<1>1. /\ z \in Seq(Bytes) /\ Len(z) = Len(x) + Len(y) /\ Len(x) \in Nat /\ Len(y) \in Nat
      /\ \A i \in 1 .. Len(x) + Len(y) : z[i] = IF i <= Len(x) THEN x[i] ELSE y[i - Len(x)]
  BY ConcatProperties
<1>. HIDE DEF z
<1>2. ASSUME NEW i \in 1 .. Len(x) PROVE NextPiece(z, i) = NextPiece(x, i)
  <2>1. z[i] = x[i]
    BY <1>1
  <2>. QED
    BY <2>1 DEF NextPiece
<1>3. ASSUME Whole(x), NEW i \in 1 .. Len(x) PROVE PieceAt(z, i) = PieceAt(x, i)
  <2>1. NextPiece(x, i) <= Len(x) + 1 /\ NextPiece(x, i) \in i + 1 .. i + 3
    BY <1>3, PieceShape DEF Whole
  <2>. DEFINE to == NextPiece(x, i) - 1
  <2>2. to \in i .. Len(x) /\ ~(to > Len(x)) /\ ~(to > Len(z))
    BY <1>1, <2>1
  <2>3. PieceAt(z, i) = SubSeq(z, i, to) /\ PieceAt(x, i) = SubSeq(x, i, to)
    BY <1>2, <2>2 DEF PieceAt
  <2>4. 1 <= i /\ i \in 1 .. Len(x) /\ to \in 1 .. Len(x)
    BY <2>2
  <2>. HIDE DEF to
  <2>5. SubSeq(z, i, to) = SubSeq(x, i, to)
    BY <2>4, SubSeqOfConcat1 DEF z
  <2>. QED
    BY <2>3, <2>5
<1>4. ASSUME NEW j \in 1 .. Len(y)
      PROVE  /\ NextPiece(z, Len(x) + j) = Len(x) + NextPiece(y, j)
             /\ PieceAt(z, Len(x) + j) = PieceAt(y, j)
  <2>1. z[Len(x) + j] = y[j] /\ StepFrom(y[j]) \in 1 .. 3
    <3>1. Len(x) + j \in 1 .. Len(x) + Len(y) /\ ~(Len(x) + j <= Len(x)) /\ (Len(x) + j) - Len(x) = j
      BY <1>1
    <3>2. y[j] \in Bytes
      OBVIOUS
    <3>. QED
      BY <1>1, <3>1, <3>2, StepsForward
  <2>2. NextPiece(z, Len(x) + j) = Len(x) + NextPiece(y, j) /\ NextPiece(y, j) \in j + 1 .. j + 3
    <3>. DEFINE d == StepFrom(y[j])
    <3>1. NextPiece(z, Len(x) + j) = (Len(x) + j) + d /\ NextPiece(y, j) = j + d
      BY <2>1 DEF NextPiece
    <3>2. d \in 1 .. 3
      BY <2>1
    <3>. HIDE DEF d
    <3>. QED
      BY <1>1, <3>1, <3>2
  <2>. DEFINE to == IF NextPiece(y, j) - 1 > Len(y) THEN Len(y) ELSE NextPiece(y, j) - 1
  <2>3. to \in j .. Len(y)
    BY <1>1, <2>2
  <2>4. PieceAt(y, j) = SubSeq(y, j, to)
    BY DEF PieceAt
  <2>5. (IF NextPiece(z, Len(x) + j) - 1 > Len(z) THEN Len(z) ELSE NextPiece(z, Len(x) + j) - 1) = Len(x) + to
    BY <1>1, <2>2
  <2>6. PieceAt(z, Len(x) + j) = SubSeq(z, Len(x) + j, Len(x) + to)
    BY <2>5 DEF PieceAt
  <2>. HIDE DEF to
  <2>7. Len(x) + j \in Len(x) + 1 .. Len(x) + Len(y) /\ Len(x) + to \in Len(x) + 1 .. Len(x) + Len(y)
    BY <1>1, <2>3
  <2>8. SubSeq(z, Len(x) + j, Len(x) + to) = SubSeq(y, (Len(x) + j) - Len(x), (Len(x) + to) - Len(x))
    BY <2>7, SubSeqOfConcat2 DEF z
  <2>9. (Len(x) + j) - Len(x) = j /\ (Len(x) + to) - Len(x) = to
    BY <1>1, <2>3
  <2>. QED
    BY <2>2, <2>4, <2>6, <2>8, <2>9
<1>. QED
  BY <1>1, <1>2, <1>3, <1>4 DEF z

\* The pieces a scan of s has from a place on are sequences of bytes.
LEMMA ScanRange ==
  ASSUME NEW s \in Seq(Bytes), NEW f, IsScan(s, f), NEW i \in 1 .. Len(s) + 3
  PROVE  f[i] \in Seq(Seq(Bytes))
<1>. DEFINE n == Len(s) + 3
            H == {k \in 0 .. n - 1 : f[n - k] \in Seq(Seq(Bytes))}
<1>1. n \in Nat /\ Len(s) \in Nat
  OBVIOUS
<1>2. ASSUME NEW k \in 0 .. n - 1, \A j \in 0 .. k - 1 : j \in H PROVE k \in H
  <2>1. n - k \in 1 .. Len(s) + 3
    BY <1>1
  <2>2. CASE n - k > Len(s)
    <3>1. f[n - k] = <<>>
      BY <2>1, <2>2, ScanAt
    <3>2. <<>> \in Seq(Seq(Bytes))
      OBVIOUS
    <3>. QED
      BY <3>1, <3>2
  <2>3. CASE n - k \in 1 .. Len(s)
    <3>1. /\ NextPiece(s, n - k) \in n - k + 1 .. n - k + 3 /\ NextPiece(s, n - k) \in 1 .. Len(s) + 3
          /\ PieceAt(s, n - k) \in Seq(Bytes)
      BY <2>3, PieceShape
    <3>2. n - NextPiece(s, n - k) \in 0 .. k - 1 /\ n - (n - NextPiece(s, n - k)) = NextPiece(s, n - k)
      BY <1>1, <3>1
    <3>3. f[NextPiece(s, n - k)] \in Seq(Seq(Bytes))
      BY <1>2, <3>2
    <3>4. ~(n - k > Len(s))
      BY <1>1, <2>3
    <3>5. f[n - k] = <<PieceAt(s, n - k)>> \o f[NextPiece(s, n - k)]
      BY <2>1, <3>4, ScanAt
    <3>6. <<PieceAt(s, n - k)>> \in Seq(Seq(Bytes))
      BY <3>1
    <3>. QED
      BY <3>3, <3>5, <3>6, ConcatProperties
  <2>. QED
    BY <1>1, <2>1, <2>2, <2>3
<1>3. \A k \in 0 .. n - 1 : k \in H
  <2>. HIDE DEF H, n
  <2>1. n - 1 \in Int
    BY <1>1
  <2>. QED
    BY <1>2, <2>1, CourseInduction
<1>4. n - i \in 0 .. n - 1 /\ n - (n - i) = i
  BY <1>1
<1>. QED
  BY <1>3, <1>4

LEMMA ThreeJoined ==
  ASSUME NEW S
  PROVE  \A a, b, c \in Seq(S) : (a \o b) \o c = a \o (b \o c)
BY ConcatAssociative

LEMMA TwoMembers ==
  ASSUME NEW a, NEW b
  PROVE  <<a>> \o <<b>> = <<a, b>>
<1>1. <<a>> \in Seq({a, b}) /\ b \in {a, b}
  OBVIOUS
<1>2. Append(<<a>>, b) = <<a>> \o <<b>>
  BY <1>1, AppendIsConcat
<1>3. Append(<<a>>, b) = <<a, b>>
  <2>. DEFINE s == Append(<<a>>, b)
              t == <<a, b>>
  <2>1. /\ s \in Seq({a, b}) /\ Len(s) = Len(<<a>>) + 1 /\ \A i \in 1 .. Len(<<a>>) : s[i] = <<a>>[i]
        /\ s[Len(<<a>>) + 1] = b
    BY <1>1, AppendProperties
  <2>2. Len(<<a>>) = 1 /\ <<a>>[1] = a
    OBVIOUS
  <2>3. t \in Seq({a, b}) /\ Len(t) = 2 /\ t[1] = a /\ t[2] = b
    OBVIOUS
  <2>. HIDE DEF s, t
  <2>4. Len(s) = 2 /\ s[1] = a /\ s[2] = b
    BY <2>1, <2>2
  <2>5. Len(s) = Len(t) /\ \A i \in 1 .. Len(s) : s[i] = t[i]
    BY <2>3, <2>4
  <2>6. s = t
    BY <2>1, <2>3, <2>5, SeqEqual
  <2>. QED
    BY <2>6 DEF s, t
<1>. QED
  BY <1>2, <1>3

LEMMA AppendTwo ==
  ASSUME NEW S, NEW q \in Seq(S), NEW a \in S, NEW b \in S
  PROVE  q \o <<a, b>> = Append(Append(q, a), b) /\ Append(q, a) \in Seq(S)
<1>1. <<a, b>> = <<a>> \o <<b>>
  BY TwoMembers
<1>2. <<a>> \in Seq(S) /\ <<b>> \in Seq(S)
  OBVIOUS
<1>3. Append(q, a) \in Seq(S) /\ Append(q, a) = q \o <<a>>
  BY AppendIsConcat, AppendProperties
<1>4. Append(Append(q, a), b) = (q \o <<a>>) \o <<b>>
  BY <1>3, AppendIsConcat
<1>5. (q \o <<a>>) \o <<b>> = q \o (<<a>> \o <<b>>)
  BY <1>2, ThreeJoined
<1>. QED
  BY <1>1, <1>3, <1>4, <1>5

\* The pieces of a text made of two.
LEMMA PiecesJoin ==
  ASSUME NEW x \in Seq(Bytes), NEW y \in Seq(Bytes), Whole(x)
  PROVE  /\ Pieces(x) \in Seq(Seq(Bytes)) /\ Pieces(y) \in Seq(Seq(Bytes))
         /\ Pieces(x \o y) = Pieces(x) \o Pieces(y)
<1>. DEFINE z == x \o y
<1>1. /\ z \in Seq(Bytes) /\ Len(z) = Len(x) + Len(y)
      /\ \A i \in 1 .. Len(x) : NextPiece(z, i) = NextPiece(x, i) /\ PieceAt(z, i) = PieceAt(x, i)
      /\ \A j \in 1 .. Len(y) : /\ NextPiece(z, Len(x) + j) = Len(x) + NextPiece(y, j)
                                /\ PieceAt(z, Len(x) + j) = PieceAt(y, j)
  BY PieceOfJoined
<1>. HIDE DEF z
<1>2. Len(x) \in Nat /\ Len(y) \in Nat /\ Len(z) \in Nat
  OBVIOUS
<1>3. PICK f : IsScan(x, f) /\ Pieces(x) = f[1]
  BY PiecesScan
<1>4. PICK g : IsScan(y, g) /\ Pieces(y) = g[1]
  BY PiecesScan
<1>5. PICK h : IsScan(z, h) /\ Pieces(z) = h[1]
  BY <1>1, PiecesScan
<1>6. f[1] \in Seq(Seq(Bytes)) /\ g[1] \in Seq(Seq(Bytes))
  <2>1. 1 \in 1 .. Len(x) + 3 /\ 1 \in 1 .. Len(y) + 3
    BY <1>2
  <2>. QED
    BY <1>3, <1>4, <2>1, ScanRange
<1>7. ASSUME NEW j \in 1 .. Len(y) + 3 PROVE h[Len(x) + j] = g[j]
  <2>. DEFINE n == Len(y) + 3
              H == {k \in 0 .. n - 1 : h[Len(x) + (n - k)] = g[n - k]}
  <2>1. n \in Nat
    BY <1>2
  <2>2. ASSUME NEW k \in 0 .. n - 1, \A l \in 0 .. k - 1 : l \in H PROVE k \in H
    <3>. DEFINE i == n - k
    <3>1. i \in 1 .. Len(y) + 3 /\ Len(x) + i \in 1 .. Len(z) + 3
      BY <1>1, <1>2
    <3>2. CASE i > Len(y)
      <4>1. Len(x) + i > Len(z)
        BY <1>1, <1>2, <3>2
      <4>2. g[i] = <<>>
        BY <1>4, <3>1, <3>2, ScanAt
      <4>3. h[Len(x) + i] = <<>>
        BY <1>1, <1>5, <3>1, <4>1, ScanAt
      <4>. QED
        BY <4>2, <4>3
    <3>3. CASE i \in 1 .. Len(y)
      <4>1. NextPiece(y, i) \in i + 1 .. i + 3 /\ NextPiece(y, i) \in 1 .. Len(y) + 3
        BY <3>3, PieceShape
      <4>2. n - NextPiece(y, i) \in 0 .. k - 1 /\ n - (n - NextPiece(y, i)) = NextPiece(y, i)
        BY <1>2, <2>1, <4>1
      <4>3. h[Len(x) + NextPiece(y, i)] = g[NextPiece(y, i)]
        BY <2>2, <4>2
      <4>4. ~(i > Len(y)) /\ ~(Len(x) + i > Len(z))
        BY <1>1, <1>2, <3>3
      <4>. HIDE DEF i, n
      <4>5. g[i] = <<PieceAt(y, i)>> \o g[NextPiece(y, i)]
        BY <1>4, <3>1, <4>4, ScanAt
      <4>6. h[Len(x) + i] = <<PieceAt(z, Len(x) + i)>> \o h[NextPiece(z, Len(x) + i)]
        BY <1>1, <1>5, <3>1, <4>4, ScanAt
      <4>7. h[Len(x) + i] = g[i]
        BY <1>1, <3>3, <4>3, <4>5, <4>6
      <4>. QED
        BY <4>7 DEF i
    <3>4. i > Len(y) \/ i \in 1 .. Len(y)
      BY <1>2, <3>1
    <3>. QED
      BY <3>2, <3>3, <3>4
  <2>3. \A k \in 0 .. n - 1 : k \in H
    <3>. HIDE DEF H, n
    <3>1. n - 1 \in Int
      BY <2>1
    <3>. QED
      BY <2>2, <3>1, CourseInduction
  <2>4. n - j \in 0 .. n - 1 /\ n - (n - j) = j
    BY <1>2
  <2>. QED
    BY <2>3, <2>4
<1>8. ASSUME NEW i \in 1 .. Len(x) + 1 PROVE h[i] = f[i] \o g[1]
  <2>. DEFINE n == Len(x) + 1
              H == {k \in 0 .. n - 1 : h[n - k] = f[n - k] \o g[1]}
  <2>1. n \in Nat
    BY <1>2
  <2>2. ASSUME NEW k \in 0 .. n - 1, \A l \in 0 .. k - 1 : l \in H PROVE k \in H
    <3>. DEFINE p == n - k
    <3>1. p \in 1 .. Len(x) + 1 /\ p \in 1 .. Len(x) + 3 /\ p \in 1 .. Len(z) + 3
      BY <1>1, <1>2
    <3>2. CASE p = Len(x) + 1
      <4>1. f[p] = <<>>
        <5>1. p > Len(x)
          BY <1>2, <3>2
        <5>. QED
          BY <1>3, <3>1, <5>1, ScanAt
      <4>2. h[p] = g[1]
        BY <1>2, <1>7, <3>2
      <4>3. g[1] = <<>> \o g[1]
        BY <1>6, ConcatEmptySeq
      <4>. QED
        BY <4>1, <4>2, <4>3
    <3>3. CASE p \in 1 .. Len(x)
      <4>1. NextPiece(x, p) \in p + 1 .. p + 3 /\ NextPiece(x, p) <= n /\ PieceAt(x, p) \in Seq(Bytes)
        BY <3>3, PieceShape DEF Whole
      <4>2. n - NextPiece(x, p) \in 0 .. k - 1 /\ n - (n - NextPiece(x, p)) = NextPiece(x, p)
        BY <1>2, <2>1, <4>1
      <4>3. h[NextPiece(x, p)] = f[NextPiece(x, p)] \o g[1]
        BY <2>2, <4>2
      <4>4. ~(p > Len(x)) /\ ~(p > Len(z)) /\ NextPiece(x, p) \in 1 .. Len(x) + 3
        BY <1>1, <1>2, <3>3, <4>1
      <4>. HIDE DEF p, n
      <4>5. f[p] = <<PieceAt(x, p)>> \o f[NextPiece(x, p)]
        BY <1>3, <3>1, <4>4, ScanAt
      <4>6. h[p] = <<PieceAt(z, p)>> \o h[NextPiece(z, p)]
        BY <1>1, <1>5, <3>1, <4>4, ScanAt
      <4>7. PieceAt(z, p) = PieceAt(x, p) /\ NextPiece(z, p) = NextPiece(x, p)
        BY <1>1, <3>3
      <4>8. f[NextPiece(x, p)] \in Seq(Seq(Bytes)) /\ <<PieceAt(x, p)>> \in Seq(Seq(Bytes))
        <5>1. f[NextPiece(x, p)] \in Seq(Seq(Bytes))
          BY <1>3, <4>4, ScanRange
        <5>. QED
          BY <4>1, <5>1
      <4>9. (<<PieceAt(x, p)>> \o f[NextPiece(x, p)]) \o g[1] = <<PieceAt(x, p)>> \o (f[NextPiece(x, p)] \o g[1])
        <5>. DEFINE a == <<PieceAt(x, p)>>
                    b == f[NextPiece(x, p)]
                    d == g[1]
                    S == Seq(Bytes)
        <5>1. a \in Seq(S) /\ b \in Seq(S) /\ d \in Seq(S)
          BY <1>6, <4>8
        <5>. HIDE DEF a, b, d, S
        <5>2. (a \o b) \o d = a \o (b \o d)
          BY <5>1, ThreeJoined
        <5>. QED
          BY <5>2 DEF a, b, d
      <4>10. h[p] = f[p] \o g[1]
        BY <4>3, <4>5, <4>6, <4>7, <4>9
      <4>. QED
        BY <4>10 DEF p
    <3>4. p = Len(x) + 1 \/ p \in 1 .. Len(x)
      BY <1>2, <3>1
    <3>. QED
      BY <3>2, <3>3, <3>4
  <2>3. \A k \in 0 .. n - 1 : k \in H
    <3>. HIDE DEF H, n
    <3>1. n - 1 \in Int
      BY <2>1
    <3>. QED
      BY <2>2, <3>1, CourseInduction
  <2>4. n - i \in 0 .. n - 1 /\ n - (n - i) = i
    BY <1>2
  <2>. QED
    BY <2>3, <2>4
<1>9. h[1] = f[1] \o g[1]
  <2>1. 1 \in 1 .. Len(x) + 1
    BY <1>2
  <2>. QED
    BY <1>8, <2>1
<1>. QED
  BY <1>3, <1>4, <1>5, <1>6, <1>9 DEF z

\* A scan of one character: one piece, or two for a character of four bytes.
Parts(c) == IF Width[c] = 4 THEN <<SubSeq(Char(c), 1, 3), SubSeq(Char(c), 4, 4)>> ELSE <<Char(c)>>

LEMMA PiecesOfChar ==
  ASSUME NEW c \in Chars
  PROVE  Whole(Char(c)) /\ Pieces(Char(c)) = Parts(c)
<1>. DEFINE s == Char(c)
            w == Width[c]
<1>1. /\ w \in 1 .. 4 /\ s \in Seq(Bytes) /\ Len(s) = w
      /\ \A k \in 1 .. w : s[k] = <<c, k>>
  BY BytesOfChar
<1>2. ASSUME NEW k \in 1 .. w
      PROVE  NextPiece(s, k) = IF k > 1 \/ w = 1 THEN k + 1 ELSE IF w = 2 THEN k + 2 ELSE k + 3
  <2>1. s[k][1] = c /\ s[k][2] = k
    BY <1>1
  <2>. QED
    BY <2>1 DEF NextPiece, StepFrom
<1>. HIDE DEF s, w
<1>3. Whole(s)
  BY <1>1, <1>2 DEF Whole
<1>4. PICK f : IsScan(s, f) /\ Pieces(s) = f[1]
  BY <1>1, PiecesScan
<1>5. \A i \in 1 .. w + 3 : f[i] = IF i > w THEN <<>> ELSE <<PieceAt(s, i)>> \o f[NextPiece(s, i)]
  BY <1>1, <1>4, ScanAt
<1>6. /\ 1 \in 1 .. w + 3 /\ w + 1 \in 1 .. w + 3 /\ ~(1 > w) /\ w + 1 > w
      /\ f[w + 1] = <<>> /\ f[1] = <<PieceAt(s, 1)>> \o f[NextPiece(s, 1)]
  <2>1. 1 \in 1 .. w + 3 /\ w + 1 \in 1 .. w + 3 /\ ~(1 > w) /\ w + 1 > w
    BY <1>1
  <2>. QED
    BY <1>5, <2>1
<1>7. \A p \in Seq(Bytes) : <<p>> \o <<>> = <<p>>
  <2>1. \A p \in Seq(Bytes) : <<p>> \in Seq(Seq(Bytes))
    OBVIOUS
  <2>. QED
    BY <2>1, ConcatEmptySeq
<1>8. CASE w # 4
  <2>1. NextPiece(s, 1) = w + 1
    BY <1>1, <1>2, <1>8
  <2>2. PieceAt(s, 1) = SubSeq(s, 1, Len(s))
    BY <1>1, <2>1 DEF PieceAt
  <2>3. PieceAt(s, 1) = s
    BY <1>1, <2>2, SubSeqFull
  <2>. QED
    BY <1>1, <1>3, <1>4, <1>6, <1>7, <1>8, <2>1, <2>3 DEF Parts, s, w
<1>9. CASE w = 4
  <2>1. NextPiece(s, 1) = 4 /\ NextPiece(s, 4) = 5
    BY <1>2, <1>9
  <2>2. PieceAt(s, 1) = SubSeq(s, 1, 3) /\ PieceAt(s, 4) = SubSeq(s, 4, 4)
    BY <1>1, <1>9, <2>1 DEF PieceAt
  <2>3. f[4] = <<PieceAt(s, 4)>> \o f[5] /\ f[5] = <<>>
    BY <1>5, <1>6, <1>9, <2>1
  <2>4. PieceAt(s, 4) \in Seq(Bytes) /\ PieceAt(s, 1) \in Seq(Bytes)
    <3>1. 1 \in 1 .. Len(s) /\ 4 \in 1 .. Len(s)
      BY <1>1, <1>9
    <3>. QED
      BY <1>1, <3>1, PieceShape
  <2>5. f[1] = <<PieceAt(s, 1)>> \o <<PieceAt(s, 4)>>
    BY <1>6, <1>7, <2>1, <2>3, <2>4
  <2>. HIDE DEF s
  <2>6. f[1] = <<SubSeq(s, 1, 3), SubSeq(s, 4, 4)>>
    <3>1. \A a, b : <<a>> \o <<b>> = <<a, b>>
      BY TwoMembers
    <3>. QED
      BY <2>2, <2>5, <3>1
  <2>. QED
    BY <1>3, <1>4, <1>9, <2>6 DEF Parts, s, w
<1>. QED
  BY <1>8, <1>9
-----------------------------------------------------------------------------
(* Texts *)

\* What holds of the empty sequence and of one with a member more if it held
\* before holds of all.
LEMMA GrowingInduction ==
  ASSUME NEW S, NEW H, <<>> \in H, \A s \in Seq(S), e \in S : s \in H => Append(s, e) \in H
  PROVE  \A s \in Seq(S) : s \in H
<1>. DEFINE K == {n \in Nat : \A s \in Seq(S) : Len(s) = n => s \in H}
<1>1. 0 \in K
  <2>1. ASSUME NEW s \in Seq(S), Len(s) = 0 PROVE s \in H
    <3>1. s = <<>>
      BY <2>1, EmptySeq
    <3>. QED
      BY <3>1
  <2>. QED
    BY <2>1
<1>2. ASSUME NEW n \in Nat, n \in K PROVE n + 1 \in K
  <2>1. ASSUME NEW s \in Seq(S), Len(s) = n + 1 PROVE s \in H
    <3>1. s # <<>>
      BY <2>1
    <3>2. PICK u \in Seq(S), e \in S : s = Append(u, e)
      BY <3>1, SequenceEmptyOrAppend
    <3>3. Len(u) = n
      BY <2>1, <3>2
    <3>. QED
      BY <1>2, <3>2, <3>3
  <2>. QED
    BY <2>1
<1>3. \A n \in Nat : n \in K
  <2>. HIDE DEF K
  <2>. QED
    BY <1>1, <1>2, Induction
<1>4. \A s \in Seq(S) : Len(s) \in Nat
  OBVIOUS
<1>. QED
  BY <1>3, <1>4

LEMMA FlattenNothing == FlattenSeq(<<>>) = <<>>
<1>1. Len(<<>>) = 0
  OBVIOUS
<1>. QED
  BY <1>1 DEF FlattenSeq

\* Joining two sequences of sequences one after the other.
LEMMA FlattenJoined ==
  ASSUME NEW S, NEW p \in Seq(Seq(S)), NEW q \in Seq(Seq(S))
  PROVE  FlattenSeq(p \o q) = FlattenSeq(p) \o FlattenSeq(q) /\ FlattenSeq(p \o q) \in Seq(S)
<1>. DEFINE C == Seq(S)
            H == {r \in Seq(C) : FlattenSeq(p \o r) = FlattenSeq(p) \o FlattenSeq(r)}
<1>1. FlattenSeq(p) \in Seq(S)
  BY FlattenOneMore
<1>2. <<>> \in H
  <2>1. p \o <<>> = p
    BY ConcatEmptySeq
  <2>2. FlattenSeq(p) \o <<>> = FlattenSeq(p)
    BY <1>1, ConcatEmptySeq
  <2>3. <<>> \in Seq(C)
    BY EmptySeq
  <2>. QED
    BY <2>1, <2>2, <2>3, FlattenNothing
<1>3. ASSUME NEW r \in Seq(C), NEW e \in C, r \in H PROVE Append(r, e) \in H
  <2>. HIDE DEF C
  <2>1. p \in Seq(C) /\ p \o r \in Seq(C) /\ Append(r, e) \in Seq(C)
    BY ConcatProperties, AppendProperties DEF C
  <2>2. p \o Append(r, e) = Append(p \o r, e)
    <3>1. Append(r, e) = r \o <<e>> /\ Append(p \o r, e) = (p \o r) \o <<e>> /\ <<e>> \in Seq(C)
      BY <2>1, AppendIsConcat
    <3>. QED
      BY <2>1, <3>1, ConcatAssociative
  <2>3. /\ FlattenSeq(Append(p \o r, e)) = FlattenSeq(p \o r) \o e
        /\ FlattenSeq(Append(r, e)) = FlattenSeq(r) \o e /\ FlattenSeq(r) \in Seq(S) /\ e \in Seq(S)
    BY <2>1, FlattenOneMore DEF C
  <2>4. (FlattenSeq(p) \o FlattenSeq(r)) \o e = FlattenSeq(p) \o (FlattenSeq(r) \o e)
    <3>. DEFINE a == FlattenSeq(p)
                b == FlattenSeq(r)
    <3>1. a \in Seq(S) /\ b \in Seq(S) /\ e \in Seq(S)
      BY <1>1, <2>3
    <3>. HIDE DEF a, b
    <3>2. (a \o b) \o e = a \o (b \o e)
      BY <3>1, ThreeJoined
    <3>. QED
      BY <3>2 DEF a, b
  <2>5. FlattenSeq(p \o r) = FlattenSeq(p) \o FlattenSeq(r)
    BY <1>3
  <2>6. FlattenSeq(p \o Append(r, e)) = FlattenSeq(p) \o FlattenSeq(Append(r, e))
    BY <2>2, <2>3, <2>4, <2>5
  <2>. QED
    BY <2>1, <2>6
<1>4. \A r \in Seq(C) : r \in H
  <2>. HIDE DEF C, H
  <2>. QED
    BY <1>2, <1>3, GrowingInduction
<1>5. FlattenSeq(q) \in Seq(S) /\ FlattenSeq(p \o q) = FlattenSeq(p) \o FlattenSeq(q)
  BY <1>4, FlattenOneMore
<1>. QED
  BY <1>1, <1>5, ConcatProperties

LEMMA FlattenOne ==
  ASSUME NEW S, NEW x \in Seq(S)
  PROVE  FlattenSeq(<<x>>) = x
<1>1. <<>> \in Seq(Seq(S))
  BY EmptySeq
<1>2. FlattenSeq(Append(<<>>, x)) = FlattenSeq(<<>>) \o x
  BY <1>1, FlattenOneMore
<1>3. Append(<<>>, x) = <<x>>
  <2>1. Append(<<>>, x) = <<>> \o <<x>> /\ <<x>> \in Seq(Seq(S))
    BY <1>1, AppendIsConcat
  <2>. QED
    BY <2>1, ConcatEmptySeq
<1>. QED
  BY <1>2, <1>3, FlattenNothing, ConcatEmptySeq

\* The bytes of a text are those of its characters.
CharsOf(t) == [i \in DOMAIN t |-> Char(t[i])]

LEMMA Utf8Of ==
  ASSUME NEW t \in Seq(Chars)
  PROVE  /\ CharsOf(t) \in Seq(Seq(Bytes)) /\ Len(CharsOf(t)) = Len(t)
         /\ Utf8(t) = FlattenSeq(CharsOf(t)) /\ Utf8(t) \in Seq(Bytes) /\ Utf8(<<>>) = <<>>
<1>1. \A s : Utf8(s) = FlattenSeq(CharsOf(s))
  BY DEF Utf8, Char, CharsOf
<1>2. CharsOf(t) \in Seq(Seq(Bytes)) /\ Len(CharsOf(t)) = Len(t)
  <2>1. \A i \in 1 .. Len(t) : Char(t[i]) \in Seq(Bytes)
    <3>1. \A i \in 1 .. Len(t) : t[i] \in Chars
      OBVIOUS
    <3>. QED
      BY <3>1, BytesOfChar
  <2>2. DOMAIN t = 1 .. Len(t) /\ Len(t) \in Nat
    OBVIOUS
  <2>. QED
    BY <2>1, <2>2 DEF CharsOf
<1>3. CharsOf(<<>>) = <<>>
  BY DEF CharsOf
<1>4. FlattenSeq(CharsOf(t)) \in Seq(Bytes)
  BY <1>2, FlattenFrom
<1>. QED
  BY <1>1, <1>2, <1>3, <1>4, FlattenNothing

\* A text grows by its characters.
LEMMA Utf8Grows ==
  ASSUME NEW t \in Seq(Chars), NEW c \in Chars
  PROVE  /\ Utf8(Append(t, c)) = Utf8(t) \o Char(c)
         /\ CharsOf(Append(t, c)) = Append(CharsOf(t), Char(c))
<1>1. /\ CharsOf(t) \in Seq(Seq(Bytes)) /\ Len(CharsOf(t)) = Len(t) /\ Char(c) \in Seq(Bytes)
      /\ Utf8(t) = FlattenSeq(CharsOf(t))
  BY Utf8Of, BytesOfChar
<1>. DEFINE u == Append(t, c)
            v == Append(CharsOf(t), Char(c))
<1>2. /\ u \in Seq(Chars) /\ Len(u) = Len(t) + 1 /\ u[Len(t) + 1] = c
      /\ \A i \in 1 .. Len(t) : u[i] = t[i]
  BY AppendProperties
<1>3. Len(t) \in Nat /\ DOMAIN t = 1 .. Len(t) /\ DOMAIN u = 1 .. Len(t) + 1
  BY <1>2
<1>4. /\ v \in Seq(Seq(Bytes)) /\ Len(v) = Len(t) + 1
      /\ \A i \in 1 .. Len(t) : v[i] = CharsOf(t)[i]
      /\ v[Len(t) + 1] = Char(c)
  BY <1>1, AppendProperties
<1>. HIDE DEF u, v
<1>5. /\ CharsOf(u) \in Seq(Seq(Bytes)) /\ Len(CharsOf(u)) = Len(u)
      /\ Utf8(u) = FlattenSeq(CharsOf(u))
  BY <1>2, Utf8Of
<1>6. /\ \A i \in 1 .. Len(t) + 1 : CharsOf(u)[i] = Char(u[i])
      /\ \A i \in 1 .. Len(t) : CharsOf(t)[i] = Char(t[i])
  BY <1>3 DEF CharsOf
<1>7. \A i \in 1 .. Len(t) + 1 : CharsOf(u)[i] = v[i]
  BY <1>2, <1>3, <1>4, <1>6
<1>8. CharsOf(u) = v
  BY <1>2, <1>4, <1>5, <1>7, SeqEqual
<1>9. FlattenSeq(v) = FlattenSeq(CharsOf(t)) \o Char(c)
  BY <1>1, FlattenOneMore DEF v
<1>. QED
  BY <1>1, <1>5, <1>8, <1>9 DEF u, v

\* A text is whole, so that its pieces are those of its characters.
LEMMA TextIsWhole ==
  ASSUME NEW t \in Seq(Chars)
  PROVE  Whole(Utf8(t)) /\ Pieces(Utf8(<<>>)) = <<>>
<1>. DEFINE H == {s \in Seq(Chars) : Whole(Utf8(s))}
<1>1. <<>> \in Seq(Bytes) /\ Len(<<>>) = 0 /\ <<>> \in Seq(Chars)
  BY EmptySeq
<1>2. Whole(<<>>)
  BY <1>1 DEF Whole
<1>3. Pieces(<<>>) = <<>>
  <2>1. PICK f : IsScan(<<>>, f) /\ Pieces(<<>>) = f[1]
    BY <1>1, PiecesScan
  <2>2. 1 \in 1 .. Len(<<>>) + 3 /\ 1 > Len(<<>>)
    BY <1>1
  <2>3. f[1] = <<>>
    BY <1>1, <2>1, <2>2, ScanAt
  <2>. QED
    BY <2>1, <2>3
<1>4. <<>> \in H
  BY <1>1, <1>2, Utf8Of
<1>5. ASSUME NEW s \in Seq(Chars), NEW e \in Chars, s \in H PROVE Append(s, e) \in H
  <2>. DEFINE x == Utf8(s)
              y == Char(e)
  <2>1. x \in Seq(Bytes) /\ y \in Seq(Bytes) /\ Whole(x) /\ Whole(y) /\ Utf8(Append(s, e)) = x \o y
    BY <1>5, Utf8Of, Utf8Grows, BytesOfChar, PiecesOfChar
  <2>. HIDE DEF x, y
  <2>2. /\ Len(x \o y) = Len(x) + Len(y) /\ Len(x) \in Nat /\ Len(y) \in Nat
        /\ \A i \in 1 .. Len(x) : NextPiece(x \o y, i) = NextPiece(x, i)
        /\ \A j \in 1 .. Len(y) : NextPiece(x \o y, Len(x) + j) = Len(x) + NextPiece(y, j)
    BY <2>1, PieceOfJoined
  <2>3. ASSUME NEW i \in 1 .. Len(x \o y) PROVE NextPiece(x \o y, i) <= Len(x \o y) + 1
    <3>1. CASE i \in 1 .. Len(x)
      <4>1. NextPiece(x, i) <= Len(x) + 1 /\ NextPiece(x, i) \in 1 .. Len(x) + 3
        BY <2>1, <3>1, PieceShape DEF Whole
      <4>. QED
        BY <2>2, <3>1, <4>1
    <3>2. CASE ~(i \in 1 .. Len(x))
      <4>1. i - Len(x) \in 1 .. Len(y) /\ Len(x) + (i - Len(x)) = i
        BY <2>2, <3>2
      <4>2. NextPiece(y, i - Len(x)) <= Len(y) + 1 /\ NextPiece(y, i - Len(x)) \in 1 .. Len(y) + 3
        BY <2>1, <4>1, PieceShape DEF Whole
      <4>3. NextPiece(x \o y, i) = Len(x) + NextPiece(y, i - Len(x))
        BY <2>2, <4>1
      <4>. QED
        BY <2>2, <4>2, <4>3
    <3>. QED
      BY <3>1, <3>2
  <2>4. Whole(x \o y)
    BY <2>3 DEF Whole
  <2>. QED
    BY <2>1, <2>4, AppendProperties
<1>6. \A s \in Seq(Chars) : s \in H
  <2>. HIDE DEF H
  <2>. QED
    BY <1>4, <1>5, GrowingInduction
<1>. QED
  BY <1>1, <1>3, <1>6, Utf8Of

LEMMA PiecesGrow ==
  ASSUME NEW t \in Seq(Chars), NEW c \in Chars
  PROVE  /\ Pieces(Utf8(t)) \in Seq(Seq(Bytes)) /\ Parts(c) \in Seq(Seq(Bytes))
         /\ Pieces(Utf8(Append(t, c))) = Pieces(Utf8(t)) \o Parts(c)
<1>1. /\ Whole(Utf8(t)) /\ Utf8(t) \in Seq(Bytes)
      /\ Char(c) \in Seq(Bytes) /\ Pieces(Char(c)) = Parts(c)
  BY TextIsWhole, Utf8Of, BytesOfChar, PiecesOfChar
<1>2. /\ Pieces(Utf8(t)) \in Seq(Seq(Bytes)) /\ Pieces(Char(c)) \in Seq(Seq(Bytes))
      /\ Pieces(Utf8(t) \o Char(c)) = Pieces(Utf8(t)) \o Pieces(Char(c))
  BY <1>1, PiecesJoin
<1>. QED
  BY <1>1, <1>2, Utf8Grows

\* A text made of two texts.
LEMMA Utf8Joined ==
  ASSUME NEW t \in Seq(Chars), NEW u \in Seq(Chars)
  PROVE  /\ Utf8(t \o u) = Utf8(t) \o Utf8(u)
         /\ Pieces(Utf8(t \o u)) = Pieces(Utf8(t)) \o Pieces(Utf8(u))
<1>. DEFINE H == {s \in Seq(Chars) : Utf8(t \o s) = Utf8(t) \o Utf8(s)}
<1>1. <<>> \in H
  <2>1. <<>> \in Seq(Chars) /\ t \o <<>> = t
    BY EmptySeq, ConcatEmptySeq
  <2>2. Utf8(<<>>) = <<>>
    BY Utf8Of
  <2>3. Utf8(t) \o <<>> = Utf8(t)
    BY Utf8Of, ConcatEmptySeq
  <2>. QED
    BY <2>1, <2>2, <2>3
<1>2. ASSUME NEW s \in Seq(Chars), NEW c \in Chars, s \in H PROVE Append(s, c) \in H
  <2>. DEFINE a == Utf8(t)
              b == Utf8(s)
              d == Char(c)
  <2>1. t \o s \in Seq(Chars) /\ Append(s, c) \in Seq(Chars)
    BY ConcatProperties, AppendProperties
  <2>2. t \o Append(s, c) = Append(t \o s, c)
    <3>1. Append(s, c) = s \o <<c>> /\ Append(t \o s, c) = (t \o s) \o <<c>> /\ <<c>> \in Seq(Chars)
      BY <2>1, AppendIsConcat
    <3>. QED
      BY <3>1, ConcatAssociative
  <2>3. /\ Utf8(Append(t \o s, c)) = Utf8(t \o s) \o d /\ Utf8(Append(s, c)) = b \o d
        /\ a \in Seq(Bytes) /\ b \in Seq(Bytes) /\ d \in Seq(Bytes) /\ Utf8(t \o s) = a \o b
    BY <1>2, <2>1, Utf8Of, Utf8Grows, BytesOfChar
  <2>. HIDE DEF a, b, d
  <2>4. (a \o b) \o d = a \o (b \o d)
    BY <2>3, ThreeJoined
  <2>5. Utf8(t \o Append(s, c)) = a \o Utf8(Append(s, c))
    BY <2>2, <2>3, <2>4
  <2>. QED
    BY <2>1, <2>5 DEF a
<1>3. \A s \in Seq(Chars) : s \in H
  <2>. HIDE DEF H
  <2>. QED
    BY <1>1, <1>2, GrowingInduction
<1>4. /\ Whole(Utf8(t)) /\ Utf8(t) \in Seq(Bytes) /\ Utf8(u) \in Seq(Bytes)
      /\ Utf8(t \o u) = Utf8(t) \o Utf8(u)
  BY <1>3, TextIsWhole, Utf8Of
<1>5. Pieces(Utf8(t) \o Utf8(u)) = Pieces(Utf8(t)) \o Pieces(Utf8(u))
  BY <1>4, PiecesJoin
<1>. QED
  BY <1>4, <1>5
-----------------------------------------------------------------------------
(* Beats *)

\* The beats so far with a piece more, and the beats after each piece of q
\* of those at the places in P.
Merge(out, piece) ==
  IF IsSmallYoon(piece) /\ out # <<>>
  THEN Front(out) \o <<Last(out) \o piece>>
  ELSE Append(out, piece)
MergeIf(in, out, piece) == IF in THEN Merge(out, piece) ELSE out
IsMerging(f, q, P) ==
  f[0] = <<>> /\ \A k \in 1 .. Len(q) : f[k] = MergeIf(k \in P, f[k - 1], q[k])
Merged(q) == FoldLeft(LAMBDA out, piece : Merge(out, piece), <<>>, q)

LEMMA SplitIsMerged == \A kana : SplitIntoMora(kana) = Merged(Pieces(kana))
BY DEF SplitIntoMora, Merged, Merge

LEMMA MergingExists ==
  ASSUME NEW q, NEW P, Len(q) \in Nat
  PROVE  \E f : IsMerging(f, q, P)
<1>. DEFINE Upto(f, m) == f[0] = <<>> /\ \A k \in 1 .. m : f[k] = MergeIf(k \in P, f[k - 1], q[k])
            H == {m \in Nat : \E f : Upto(f, m)}
<1>1. 0 \in H
  <2>1. Upto([k \in {0} |-> <<>>], 0)
    OBVIOUS
  <2>. QED
    BY <2>1
<1>2. ASSUME NEW m \in Nat, m \in H PROVE m + 1 \in H
  <2>1. PICK f : Upto(f, m)
    BY <1>2
  <2>. DEFINE g == [k \in 0 .. m + 1 |-> IF k = m + 1 THEN MergeIf(m + 1 \in P, f[m], q[m + 1]) ELSE f[k]]
  <2>2. g[0] = <<>>
    BY <2>1
  <2>3. ASSUME NEW k \in 1 .. m + 1 PROVE g[k] = MergeIf(k \in P, g[k - 1], q[k])
    <3>1. k \in 0 .. m + 1 /\ k - 1 \in 0 .. m + 1 /\ k - 1 # m + 1 /\ g[k - 1] = f[k - 1]
      OBVIOUS
    <3>2. CASE k = m + 1
      BY <3>1, <3>2
    <3>3. CASE k # m + 1
      <4>1. k \in 1 .. m /\ g[k] = f[k]
        BY <3>3
      <4>. QED
        BY <2>1, <3>1, <4>1
    <3>. QED
      BY <3>2, <3>3
  <2>4. Upto(g, m + 1)
    <3>. HIDE DEF g
    <3>. QED
      BY <2>2, <2>3
  <2>. HIDE DEF g, Upto
  <2>. QED
    BY <2>4
<1>3. \A m \in Nat : m \in H
  <2>. HIDE DEF H
  <2>. QED
    BY <1>1, <1>2, Induction
<1>. QED
  BY <1>3 DEF IsMerging

\* Two of them are the same as far as their places are.
LEMMA MergingSame ==
  ASSUME NEW q, NEW r, NEW P, NEW R, NEW f, NEW g, NEW m \in Nat,
         IsMerging(f, q, P), IsMerging(g, r, R), m <= Len(q), m <= Len(r),
         Len(q) \in Nat, Len(r) \in Nat,
         \A k \in 1 .. m : (k \in P <=> k \in R) /\ q[k] = r[k]
  PROVE  f[m] = g[m]
<1>. DEFINE H == {k \in Nat : f[k] = g[k]}
<1>1. 0 \in H
  BY DEF IsMerging
<1>2. ASSUME NEW k \in 0 .. m - 1, k \in H PROVE k + 1 \in H
  <2>1. k + 1 \in 1 .. m /\ k + 1 \in 1 .. Len(q) /\ k + 1 \in 1 .. Len(r) /\ (k + 1) - 1 = k
    OBVIOUS
  <2>2. /\ f[k + 1] = MergeIf(k + 1 \in P, f[k], q[k + 1])
        /\ g[k + 1] = MergeIf(k + 1 \in R, g[k], r[k + 1])
    BY <2>1 DEF IsMerging
  <2>3. f[k + 1] = g[k + 1]
    BY <1>2, <2>1, <2>2 DEF MergeIf
  <2>. QED
    BY <2>1, <2>3
<1>3. \A k \in 0 .. m : k \in H
  <2>. HIDE DEF H
  <2>. QED
    BY <1>1, <1>2, InductionTo
<1>. QED
  BY <1>3

\* Behind the last place nothing changes.
LEMMA MergingIdle ==
  ASSUME NEW q, NEW P, NEW f, NEW m \in Nat, IsMerging(f, q, P), Len(q) \in Nat, m <= Len(q),
         \A k \in m + 1 .. Len(q) : k \notin P
  PROVE  f[Len(q)] = f[m]
<1>. DEFINE H == {k \in Nat : f[k] = f[m]}
<1>1. m \in H
  OBVIOUS
<1>2. ASSUME NEW k \in m .. Len(q) - 1, k \in H PROVE k + 1 \in H
  <2>1. k + 1 \in m + 1 .. Len(q) /\ k + 1 \in 1 .. Len(q) /\ (k + 1) - 1 = k
    OBVIOUS
  <2>2. f[k + 1] = MergeIf(k + 1 \in P, f[k], q[k + 1])
    BY <2>1 DEF IsMerging
  <2>3. f[k + 1] = f[k]
    BY <2>1, <2>2 DEF MergeIf
  <2>. QED
    BY <1>2, <2>1, <2>3
<1>3. \A k \in m .. Len(q) : k \in H
  <2>. HIDE DEF H
  <2>1. m \in Int /\ Len(q) \in Int
    OBVIOUS
  <2>. QED
    BY <1>1, <1>2, <2>1, InductionTo
<1>. QED
  BY <1>3

\* The fold runs through them all.
LEMMA MergedRuns ==
  ASSUME NEW C, NEW q \in Seq(C), NEW f, IsMerging(f, q, DOMAIN q)
  PROVE  Merged(q) = f[Len(q)]
<1>. DEFINE n == Len(q)
            Eq(h) == h = [s \in SUBSET DOMAIN q |->
                     IF s = {} THEN <<>> ELSE Merge(h[s \ {Max(s)}], q[Max(s)])]
            h == CHOOSE h : Eq(h)
            g(s) == CHOOSE g : IsMerging(g, q, s)
            e == [s \in SUBSET DOMAIN q |-> g(s)[n]]
<1>1. n \in Nat /\ DOMAIN q = 1 .. n
  OBVIOUS
<1>2. Merged(q) = h[DOMAIN q]
  BY DEF Merged, FoldLeft, MapThenFoldSet
<1>3. \A s : IsMerging(g(s), q, s)
  BY <1>1, MergingExists
<1>. HIDE DEF g, h
<1>4. ASSUME NEW s \in SUBSET DOMAIN q
      PROVE  e[s] = IF s = {} THEN <<>> ELSE Merge(e[s \ {Max(s)}], q[Max(s)])
  <2>1. CASE s = {}
    <3>1. g(s)[Len(q)] = g(s)[0]
      BY <1>1, <1>3, <2>1, MergingIdle
    <3>2. g(s)[0] = <<>>
      BY <1>3 DEF IsMerging
    <3>. QED
      BY <2>1, <3>1, <3>2
  <2>2. CASE s # {}
    <3>. DEFINE m == Max(s)
                r == s \ {m}
    <3>1. m \in 1 .. n /\ m \in s /\ \A y \in s : m >= y
      BY <1>1, <2>2, MaxOf
    <3>. HIDE DEF m
    <3>2. /\ m \in Nat /\ m - 1 \in Nat /\ m <= n /\ m - 1 <= n /\ r \in SUBSET DOMAIN q
          /\ \A k \in m + 1 .. n : k \notin s
          /\ \A k \in (m - 1) + 1 .. n : k \notin r
          /\ \A k \in 1 .. m - 1 : k \in s <=> k \in r
      BY <1>1, <3>1
    <3>. HIDE DEF r
    <3>3. g(s)[n] = g(s)[m]
      BY <1>1, <1>3, <3>2, MergingIdle
    <3>4. g(r)[n] = g(r)[m - 1]
      BY <1>1, <1>3, <3>2, MergingIdle
    <3>5. g(s)[m - 1] = g(r)[m - 1]
      BY <1>1, <1>3, <3>2, MergingSame
    <3>6. g(s)[m] = Merge(g(s)[m - 1], q[m])
      BY <1>3, <3>1 DEF IsMerging, MergeIf
    <3>7. e[s] = Merge(e[r], q[m])
      BY <3>2, <3>3, <3>4, <3>5, <3>6
    <3>. QED
      BY <2>2, <3>7 DEF m, r
  <2>. QED
    BY <2>1, <2>2
<1>5. Eq(e)
  <2>1. e = [s \in SUBSET DOMAIN q |-> e[s]]
    OBVIOUS
  <2>. HIDE DEF e
  <2>. QED
    BY <1>4, <2>1
<1>6. Eq(h)
  <2>. HIDE DEF Eq
  <2>. QED
    BY <1>5 DEF h
<1>7. h[1 .. n] = e[1 .. n]
  <2>1. \A s \in SUBSET (1 .. n) :
          /\ h[s] = IF s = {} THEN <<>> ELSE Merge(h[s \ {Max(s)}], q[Max(s)])
          /\ e[s] = IF s = {} THEN <<>> ELSE Merge(e[s \ {Max(s)}], q[Max(s)])
    <3>. HIDE DEF e
    <3>. QED
      BY <1>1, <1>4, <1>6
  <2>2. FoldAlike(h, e, n)
    <3>. HIDE DEF e
    <3>. QED
      BY <2>1 DEF FoldAlike
  <2>. HIDE DEF e
  <2>. QED
    BY <1>1, <2>2, FoldSame
<1>8. e[1 .. n] = g(1 .. n)[n]
  BY <1>1
<1>9. g(1 .. n)[n] = f[n]
  BY <1>1, <1>3, MergingSame
<1>. QED
  BY <1>1, <1>2, <1>7, <1>8, <1>9

LEMMA MergedGrows ==
  ASSUME NEW C, NEW q \in Seq(C), NEW p \in C
  PROVE  Merged(<<>>) = <<>> /\ Merged(Append(q, p)) = Merge(Merged(q), p)
<1>. DEFINE r == Append(q, p)
<1>1. <<>> \in Seq(C) /\ Len(<<>>) = 0
  BY EmptySeq
<1>2. /\ r \in Seq(C) /\ Len(r) = Len(q) + 1 /\ r[Len(q) + 1] = p /\ Len(q) \in Nat
      /\ \A k \in 1 .. Len(q) : r[k] = q[k]
  BY AppendProperties
<1>3. PICK f : IsMerging(f, q, DOMAIN q)
  <2>1. Len(q) \in Nat
    OBVIOUS
  <2>. HIDE DEF r
  <2>. QED
    BY <2>1, MergingExists
<1>. HIDE DEF r
<1>4. PICK g : IsMerging(g, r, DOMAIN r)
  <2>1. Len(r) \in Nat
    BY <1>2
  <2>. QED
    BY <2>1, MergingExists
<1>5. PICK h : IsMerging(h, <<>>, DOMAIN <<>>)
  BY <1>1, MergingExists
<1>6. Merged(q) = f[Len(q)] /\ Merged(r) = g[Len(q) + 1] /\ Merged(<<>>) = h[0]
  BY <1>1, <1>2, <1>3, <1>4, <1>5, MergedRuns
<1>7. DOMAIN q = 1 .. Len(q) /\ DOMAIN r = 1 .. Len(q) + 1
  BY <1>2
<1>8. f[Len(q)] = g[Len(q)]
  BY <1>2, <1>3, <1>4, <1>7, MergingSame
<1>9. g[Len(q) + 1] = MergeIf(TRUE, g[Len(q)], p)
  <2>1. Len(q) + 1 \in 1 .. Len(r) /\ (Len(q) + 1) - 1 = Len(q) /\ Len(q) + 1 \in DOMAIN r
    BY <1>2, <1>7
  <2>. QED
    BY <1>2, <1>4, <2>1 DEF IsMerging
<1>10. h[0] = <<>>
  BY <1>5 DEF IsMerging
<1>. QED
  BY <1>6, <1>8, <1>9, <1>10 DEF r, MergeIf

LEMMA PartsAre ==
  ASSUME NEW c \in Chars
  PROVE  /\ IsSmallYoon(Char(c)) <=> c \in SmallYoon
         /\ Width[c] # 4 => Parts(c) = <<Char(c)>> /\ Char(c)[1] = <<c, 1>>
         /\ Width[c] = 4 => /\ c \notin SmallYoon
                            /\ \E a, b \in Seq(Bytes) :
                                 /\ Parts(c) = <<a, b>> /\ Char(c) = a \o b
                                 /\ a[1] = <<c, 1>> /\ b[1] = <<c, 4>>
                                 /\ ~IsSmallYoon(a) /\ ~IsSmallYoon(b)
<1>1. /\ Width[c] \in 1 .. 4 /\ Char(c) \in Seq(Bytes) /\ Len(Char(c)) = Width[c]
      /\ \A k \in 1 .. Width[c] : Char(c)[k] = <<c, k>>
  BY BytesOfChar
<1>2. Char(c)[1] = <<c, 1>>
  BY <1>1
<1>3. IsSmallYoon(Char(c)) <=> c \in SmallYoon
  BY <1>2 DEF IsSmallYoon, DecodesTo
<1>4. ASSUME Width[c] = 4
      PROVE  \E a, b \in Seq(Bytes) :
               /\ Parts(c) = <<a, b>> /\ Char(c) = a \o b
               /\ a[1] = <<c, 1>> /\ b[1] = <<c, 4>>
               /\ ~IsSmallYoon(a) /\ ~IsSmallYoon(b)
  <2>. DEFINE s == Char(c)
              a == SubSeq(s, 1, 3)
              b == SubSeq(s, 4, 4)
  <2>1. s \in Seq(Bytes) /\ Len(s) = 4 /\ s[1] = <<c, 1>> /\ s[4] = <<c, 4>>
    BY <1>1, <1>4
  <2>2. Parts(c) = <<a, b>>
    BY <1>4 DEF Parts
  <2>. HIDE DEF s
  <2>3. a \o b = s
    <3>1. a \o b = SubSeq(s, 1, 4)
      <4>1. 1 \in 1 .. Len(s) + 1 /\ 3 \in 1 - 1 .. Len(s) /\ 4 \in 3 .. Len(s) /\ 3 + 1 = 4
        BY <2>1
      <4>. QED
        BY <2>1, <4>1, ConcatAdjacentSubSeq
    <3>. QED
      BY <2>1, <3>1, SubSeqFull
  <2>4. a \in Seq(Bytes) /\ b \in Seq(Bytes) /\ a[1] = s[1] /\ b[1] = s[4]
    BY <2>1
  <2>5. c \notin SmallYoon
    BY <1>4, CharsAssumption
  <2>. HIDE DEF a, b
  <2>6. a[1] = <<c, 1>> /\ b[1] = <<c, 4>>
    BY <2>1, <2>4
  <2>7. ~IsSmallYoon(a) /\ ~IsSmallYoon(b)
    BY <2>5, <2>6 DEF IsSmallYoon, DecodesTo
  <2>. QED
    BY <2>2, <2>3, <2>4, <2>6, <2>7 DEF s
<1>5. Width[c] = 4 => c \notin SmallYoon
  BY CharsAssumption
<1>. QED
  BY <1>2, <1>3, <1>4, <1>5 DEF Parts

\* A piece more makes a beat more or a beat longer.
LEMMA MergeAdds ==
  ASSUME NEW out \in Seq(Seq(Bytes)), NEW piece \in Seq(Bytes)
  PROVE  /\ Merge(out, piece) \in Seq(Seq(Bytes)) /\ Merge(out, piece) # <<>>
         /\ FlattenSeq(Merge(out, piece)) = FlattenSeq(out) \o piece
         /\ Len(Merge(out, piece)) = Len(out) + IF IsSmallYoon(piece) /\ out # <<>> THEN 0 ELSE 1
<1>. DEFINE C == Seq(Bytes)
<1>1. CASE IsSmallYoon(piece) /\ out # <<>>
  <2>. HIDE DEF C
  <2>0. out \in Seq(C) /\ piece \in C
    BY DEF C
  <2>1. PICK u \in Seq(C), e \in C : out = Append(u, e)
    BY <1>1, <2>0, SequenceEmptyOrAppend
  <2>2. /\ Len(out) = Len(u) + 1 /\ Len(u) \in Nat /\ out[Len(u) + 1] = e
        /\ \A i \in 1 .. Len(u) : out[i] = u[i]
    BY <2>1, AppendProperties
  <2>3. Last(out) = e
    BY <2>2 DEF Last
  <2>4. Front(out) = u
    <3>1. Front(out) = SubSeq(out, 1, Len(u))
      BY <2>2 DEF Front
    <3>2. out = u \o <<e>> /\ <<e>> \in Seq(C)
      BY <2>1, AppendIsConcat
    <3>3. CASE Len(u) = 0
      <4>1. u = <<>>
        BY <3>3, EmptySeq
      <4>2. SubSeq(out, 1, Len(u)) = <<>>
        BY <3>3, SubSeqEmpty
      <4>. QED
        BY <3>1, <4>1, <4>2
    <3>4. CASE Len(u) # 0
      <4>1. 1 \in 1 .. Len(u) /\ Len(u) \in 1 .. Len(u)
        BY <2>2, <3>4
      <4>2. SubSeq(out, 1, Len(u)) = SubSeq(u, 1, Len(u))
        BY <3>2, <4>1, SubSeqOfConcat1
      <4>. QED
        BY <3>1, <4>2, SubSeqFull
    <3>. QED
      BY <3>3, <3>4
  <2>5. e \o piece \in C
    <3>1. e \in Seq(Bytes) /\ piece \in Seq(Bytes)
      BY DEF C
    <3>. QED
      BY <3>1, ConcatProperties DEF C
  <2>6. Merge(out, piece) = u \o <<e \o piece>>
    BY <1>1, <2>3, <2>4 DEF Merge
  <2>7. Merge(out, piece) = Append(u, e \o piece)
    BY <2>5, <2>6, AppendIsConcat
  <2>8. Merge(out, piece) \in Seq(C) /\ Merge(out, piece) # <<>> /\ Len(Merge(out, piece)) = Len(u) + 1
    BY <2>5, <2>7, AppendProperties
  <2>9. /\ FlattenSeq(out) = FlattenSeq(u) \o e /\ FlattenSeq(u) \in Seq(Bytes)
        /\ FlattenSeq(Merge(out, piece)) = FlattenSeq(u) \o (e \o piece)
    BY <2>1, <2>5, <2>7, FlattenOneMore DEF C
  <2>10. (FlattenSeq(u) \o e) \o piece = FlattenSeq(u) \o (e \o piece)
    <3>. DEFINE a == FlattenSeq(u)
    <3>1. a \in Seq(Bytes) /\ e \in Seq(Bytes)
      BY <2>9 DEF C
    <3>. HIDE DEF a
    <3>2. (a \o e) \o piece = a \o (e \o piece)
      BY <3>1, ThreeJoined
    <3>. QED
      BY <3>2 DEF a
  <2>11. Len(Merge(out, piece)) = Len(out) + 0
    BY <2>2, <2>8
  <2>. QED
    BY <1>1, <2>8, <2>9, <2>10, <2>11 DEF C
<1>2. CASE ~(IsSmallYoon(piece) /\ out # <<>>)
  <2>1. Merge(out, piece) = Append(out, piece)
    BY <1>2 DEF Merge
  <2>2. FlattenSeq(Append(out, piece)) = FlattenSeq(out) \o piece
    BY FlattenOneMore
  <2>3. /\ Append(out, piece) \in Seq(Seq(Bytes)) /\ Append(out, piece) # <<>>
        /\ Len(Append(out, piece)) = Len(out) + 1
    BY AppendProperties
  <2>. QED
    BY <1>2, <2>1, <2>2, <2>3
<1>. QED
  BY <1>1, <1>2

\* The beats of a text.
Morae(t) == SplitIntoMora(Utf8(t))

LEMMA NothingToBeat == <<>> \in Seq(Chars) /\ Utf8(<<>>) = <<>> /\ Pieces(<<>>) = <<>> /\ Morae(<<>>) = <<>>
<1>1. <<>> \in Seq(Chars)
  BY EmptySeq
<1>2. Utf8(<<>>) = <<>> /\ Pieces(Utf8(<<>>)) = <<>>
  BY <1>1, TextIsWhole, Utf8Of
<1>3. Merged(<<>>) = <<>>
  <2>1. <<>> \in Seq({1}) /\ 1 \in {1}
    BY EmptySeq
  <2>. QED
    BY <2>1, MergedGrows
<1>. QED
  BY <1>1, <1>2, <1>3, SplitIsMerged DEF Morae

\* A character more: one piece merged, or two for a character of four bytes.
LEMMA MoraeStep ==
  ASSUME NEW t \in Seq(Chars), NEW c \in Chars
  PROVE  /\ Width[c] # 4 => Morae(Append(t, c)) = Merge(Morae(t), Char(c))
         /\ Width[c] = 4 => \E a, b \in Seq(Bytes) :
              /\ Char(c) = a \o b /\ ~IsSmallYoon(a) /\ ~IsSmallYoon(b)
              /\ Morae(Append(t, c)) = Merge(Merge(Morae(t), a), b)
<1>. DEFINE C == Seq(Bytes)
            q == Pieces(Utf8(t))
<1>1. q \in Seq(C) /\ Pieces(Utf8(Append(t, c))) = q \o Parts(c)
  BY PiecesGrow
<1>2. Morae(t) = Merged(q) /\ Morae(Append(t, c)) = Merged(q \o Parts(c))
  BY <1>1, SplitIsMerged DEF Morae
<1>4. Char(c) \in C
  BY BytesOfChar
<1>. HIDE DEF C, q
<1>5. ASSUME Width[c] # 4 PROVE Morae(Append(t, c)) = Merge(Morae(t), Char(c))
  <2>1. Parts(c) = <<Char(c)>>
    BY <1>5, PartsAre
  <2>2. q \o Parts(c) = Append(q, Char(c))
    BY <1>1, <1>4, <2>1, AppendIsConcat
  <2>. QED
    BY <1>1, <1>2, <1>4, <2>2, MergedGrows
<1>6. ASSUME Width[c] = 4
      PROVE  \E a, b \in Seq(Bytes) :
               /\ Char(c) = a \o b /\ ~IsSmallYoon(a) /\ ~IsSmallYoon(b)
               /\ Morae(Append(t, c)) = Merge(Merge(Morae(t), a), b)
  <2>1. PICK a, b \in Seq(Bytes) : /\ Parts(c) = <<a, b>> /\ Char(c) = a \o b
                                   /\ ~IsSmallYoon(a) /\ ~IsSmallYoon(b)
    BY <1>6, PartsAre
  <2>2. a \in C /\ b \in C
    BY DEF C
  <2>3. q \o <<a, b>> = Append(Append(q, a), b) /\ Append(q, a) \in Seq(C)
    BY <1>1, <2>2, AppendTwo
  <2>5. Merged(Append(Append(q, a), b)) = Merge(Merge(Merged(q), a), b)
    BY <1>1, <2>2, <2>3, MergedGrows
  <2>. QED
    BY <1>2, <2>1, <2>3, <2>5
<1>. QED
  BY <1>5, <1>6

\* The beats of a text join to the text.
LEMMA MoraeShape ==
  ASSUME NEW t \in Seq(Chars)
  PROVE  /\ Morae(t) \in Seq(Seq(Bytes)) /\ FlattenSeq(Morae(t)) = Utf8(t)
         /\ t # <<>> => Morae(t) # <<>>
<1>. DEFINE Holds(s) == /\ Morae(s) \in Seq(Seq(Bytes)) /\ FlattenSeq(Morae(s)) = Utf8(s)
                        /\ s # <<>> => Morae(s) # <<>>
            H == {s \in Seq(Chars) : Holds(s)}
<1>1. ASSUME NEW s \in Seq(Chars), NEW c \in Chars, Holds(s) PROVE Holds(Append(s, c))
  <2>1. Char(c) \in Seq(Bytes) /\ Utf8(Append(s, c)) = Utf8(s) \o Char(c) /\ Utf8(s) \in Seq(Bytes)
    BY BytesOfChar, Utf8Grows, Utf8Of
  <2>2. CASE Width[c] # 4
    <3>1. Morae(Append(s, c)) = Merge(Morae(s), Char(c))
      BY <2>2, MoraeStep
    <3>2. /\ Merge(Morae(s), Char(c)) \in Seq(Seq(Bytes)) /\ Merge(Morae(s), Char(c)) # <<>>
          /\ FlattenSeq(Merge(Morae(s), Char(c))) = FlattenSeq(Morae(s)) \o Char(c)
      BY <1>1, <2>1, MergeAdds
    <3>. QED
      BY <1>1, <2>1, <3>1, <3>2
  <2>3. CASE Width[c] = 4
    <3>1. PICK a, b \in Seq(Bytes) : /\ Char(c) = a \o b
                                     /\ Morae(Append(s, c)) = Merge(Merge(Morae(s), a), b)
      BY <2>3, MoraeStep
    <3>. DEFINE m == Merge(Morae(s), a)
                x == Utf8(s)
    <3>2. m \in Seq(Seq(Bytes)) /\ FlattenSeq(m) = FlattenSeq(Morae(s)) \o a
      BY <1>1, MergeAdds
    <3>3. Morae(Append(s, c)) = Merge(m, b)
      BY <3>1
    <3>4. FlattenSeq(m) = x \o a /\ x \in Seq(Bytes)
      BY <1>1, <2>1, <3>2
    <3>. HIDE DEF m, x
    <3>5. Merge(m, b) \in Seq(Seq(Bytes)) /\ Merge(m, b) # <<>> /\ FlattenSeq(Merge(m, b)) = FlattenSeq(m) \o b
      BY <3>2, MergeAdds
    <3>6. (x \o a) \o b = x \o (a \o b)
      BY <3>4, ThreeJoined
    <3>7. FlattenSeq(Morae(Append(s, c))) = x \o Char(c)
      BY <3>1, <3>3, <3>4, <3>5, <3>6
    <3>. QED
      BY <2>1, <3>3, <3>5, <3>7 DEF x
  <2>. QED
    BY <2>2, <2>3
<1>2. Holds(<<>>)
  <2>5. <<>> \in Seq(Seq(Bytes))
    BY EmptySeq
  <2>. QED
    BY <2>5, NothingToBeat, FlattenNothing
<1>3. \A s \in Seq(Chars) : s \in H
  <2>1. <<>> \in H
    <3>1. <<>> \in Seq(Chars)
      BY EmptySeq
    <3>. HIDE DEF Holds
    <3>. QED
      BY <1>2, <3>1
  <2>2. ASSUME NEW s \in Seq(Chars), NEW c \in Chars, s \in H PROVE Append(s, c) \in H
    <3>1. Append(s, c) \in Seq(Chars)
      BY AppendProperties
    <3>. HIDE DEF Holds
    <3>. QED
      BY <1>1, <2>2, <3>1
  <2>. HIDE DEF H
  <2>. QED
    BY <2>1, <2>2, GrowingInduction
<1>. HIDE DEF Holds
<1>4. Holds(t)
  BY <1>3
<1>. QED
  BY <1>4 DEF Holds

LEMMA MoraCountGrows ==
  ASSUME NEW t \in Seq(Chars), NEW c \in Chars
  PROVE  /\ MoraCount(<<>>) = 0 /\ MoraCount(t) \in Nat
         /\ MoraCount(Append(t, c)) = MoraCount(t) + IF c \in SmallYoon /\ t # <<>> THEN 0 ELSE 1
<1>. DEFINE M(s) == {i \in DOMAIN s : i = 1 \/ s[i] \notin SmallYoon}
            u == Append(t, c)
            n == Len(t)
<1>1. \A s : MoraCount(s) = Cardinality(M(s))
  BY DEF MoraCount
<1>2. /\ u \in Seq(Chars) /\ Len(u) = n + 1 /\ u[n + 1] = c
      /\ \A i \in 1 .. n : u[i] = t[i]
  BY AppendProperties
<1>3. n \in Nat /\ DOMAIN t = 1 .. n /\ DOMAIN u = 1 .. n + 1 /\ DOMAIN <<>> = {}
  BY <1>2
<1>4. n = 0 <=> t = <<>>
  BY EmptySeq
<1>. HIDE DEF u, n
<1>5. M(u) = M(t) \cup IF c \in SmallYoon /\ t # <<>> THEN {} ELSE {n + 1}
  <2>1. \A i \in 1 .. n : i \in M(u) <=> i \in M(t)
    BY <1>2, <1>3
  <2>2. n + 1 \in M(u) <=> ~(c \in SmallYoon /\ t # <<>>)
    BY <1>2, <1>3, <1>4
  <2>3. M(u) \subseteq 1 .. n + 1 /\ M(t) \subseteq 1 .. n /\ (1 .. n + 1) = (1 .. n) \cup {n + 1}
    BY <1>3
  <2>. HIDE DEF M
  <2>. QED
    BY <2>1, <2>2, <2>3
<1>6. IsFiniteSet(M(t)) /\ n + 1 \notin M(t)
  <2>1. IsFiniteSet(1 .. n)
    BY <1>3, IntervalFinite
  <2>2. M(t) \in SUBSET (1 .. n)
    BY <1>3
  <2>3. n + 1 \notin 1 .. n
    BY <1>3
  <2>. HIDE DEF M
  <2>. QED
    BY <2>1, <2>2, <2>3, FS_Subset
<1>7. M(<<>>) = {}
  BY <1>3
<1>. HIDE DEF M
<1>8. Cardinality(M(t)) \in Nat
  BY <1>6, FS_CardinalityType
<1>9. Cardinality(M(u)) = Cardinality(M(t)) + IF c \in SmallYoon /\ t # <<>> THEN 0 ELSE 1
  <2>1. CASE c \in SmallYoon /\ t # <<>>
    BY <1>5, <1>8, <2>1
  <2>2. CASE ~(c \in SmallYoon /\ t # <<>>)
    <3>1. M(u) = M(t) \cup {n + 1}
      BY <1>5, <2>2
    <3>2. Cardinality(M(t) \cup {n + 1}) = Cardinality(M(t)) + 1
      BY <1>6, FS_AddElement
    <3>. QED
      BY <2>2, <3>1, <3>2
  <2>. QED
    BY <2>1, <2>2
<1>10. Cardinality({}) = 0
  BY FS_EmptySet
<1>. QED
  BY <1>1, <1>7, <1>8, <1>9, <1>10 DEF u

\* In a text of characters of up to three bytes each beat is a mora.
LEMMA MoraeCounted ==
  ASSUME NEW t \in Seq(Chars), UpToThreeBytes(t)
  PROVE  Len(Morae(t)) = MoraCount(t)
<1>. DEFINE H == {s \in Seq(Chars) : UpToThreeBytes(s) => Len(Morae(s)) = MoraCount(s)}
<1>1. ASSUME NEW s \in Seq(Chars), NEW c \in Chars, s \in H PROVE Append(s, c) \in H
  <2>. DEFINE u == Append(s, c)
  <2>1. /\ u \in Seq(Chars) /\ Len(u) = Len(s) + 1 /\ u[Len(s) + 1] = c
        /\ \A i \in 1 .. Len(s) : u[i] = s[i]
    BY AppendProperties
  <2>. HIDE DEF u
  <2>2. ASSUME UpToThreeBytes(u) PROVE Len(Morae(u)) = MoraCount(u)
    <3>1. DOMAIN u = 1 .. Len(s) + 1 /\ DOMAIN s = 1 .. Len(s) /\ Len(s) \in Nat
      BY <2>1
    <3>2. UpToThreeBytes(s) /\ Width[c] < 4
      BY <2>1, <2>2, <3>1 DEF UpToThreeBytes
    <3>3. Len(Morae(s)) = MoraCount(s) /\ Width[c] # 4
      BY <1>1, <3>2, CharsAssumption
    <3>4. Morae(u) = Merge(Morae(s), Char(c))
      BY <3>3, MoraeStep DEF u
    <3>. DEFINE m == Morae(s)
    <3>5. m \in Seq(Seq(Bytes)) /\ (m = <<>> <=> s = <<>>) /\ Char(c) \in Seq(Bytes)
      BY MoraeShape, NothingToBeat, BytesOfChar
    <3>6. Morae(u) = Merge(m, Char(c)) /\ Len(m) = MoraCount(s)
      BY <3>3, <3>4
    <3>. HIDE DEF m
    <3>7. Len(Merge(m, Char(c))) = Len(m) + IF IsSmallYoon(Char(c)) /\ m # <<>> THEN 0 ELSE 1
      BY <3>5, MergeAdds
    <3>8. MoraCount(u) = MoraCount(s) + IF c \in SmallYoon /\ s # <<>> THEN 0 ELSE 1
      BY MoraCountGrows DEF u
    <3>9. IsSmallYoon(Char(c)) <=> c \in SmallYoon
      BY PartsAre
    <3>10. CASE c \in SmallYoon /\ s # <<>>
      BY <3>5, <3>6, <3>7, <3>8, <3>9, <3>10
    <3>11. CASE ~(c \in SmallYoon /\ s # <<>>)
      BY <3>5, <3>6, <3>7, <3>8, <3>9, <3>11
    <3>. QED
      BY <3>10, <3>11
  <2>. QED
    BY <2>1, <2>2 DEF u
<1>2. <<>> \in H
  <2>1. <<>> \in Seq(Chars) /\ Len(<<>>) = 0
    BY EmptySeq
  <2>2. MoraCount(<<>>) = 0
    <3>1. \A i \in DOMAIN <<>> : FALSE
      OBVIOUS
    <3>2. {i \in DOMAIN <<>> : i = 1 \/ <<>>[i] \notin SmallYoon} = {}
      BY <3>1
    <3>. QED
      BY <3>2, FS_EmptySet DEF MoraCount
  <2>. QED
    BY <2>1, <2>2, NothingToBeat
<1>3. \A s \in Seq(Chars) : s \in H
  <2>. HIDE DEF H
  <2>. QED
    BY <1>1, <1>2, GrowingInduction
<1>. QED
  BY <1>3

\* Kana that are no yoon are pieces and beats of their own.
PlainKana(s) == \A i \in DOMAIN s : Width[s[i]] = 3 /\ s[i] \notin SmallYoon

LEMMA MoraeOfKana ==
  ASSUME NEW t \in Seq(Chars), NEW o \in Seq(Chars), PlainKana(o)
  PROVE  Morae(t \o o) = Morae(t) \o CharsOf(o) /\ Pieces(Utf8(o)) = CharsOf(o)
<1>. DEFINE C == Seq(Bytes)
            Holds(s) == Morae(t \o s) = Morae(t) \o CharsOf(s) /\ Pieces(Utf8(s)) = CharsOf(s)
            H == {s \in Seq(Chars) : PlainKana(s) => Holds(s)}
<1>1. Morae(t) \in Seq(C)
  BY MoraeShape
<1>2. <<>> \in H
  <2>1. CharsOf(<<>>) = <<>>
    BY DEF CharsOf
  <2>2. t \o <<>> = t /\ Morae(t) \o <<>> = Morae(t)
    <3>. HIDE DEF C
    <3>. QED
      BY <1>1, ConcatEmptySeq
  <2>. QED
    BY <2>1, <2>2, NothingToBeat
<1>3. ASSUME NEW s \in Seq(Chars), NEW c \in Chars, s \in H PROVE Append(s, c) \in H
  <2>. DEFINE u == Append(s, c)
  <2>1. /\ u \in Seq(Chars) /\ Len(u) = Len(s) + 1 /\ u[Len(s) + 1] = c
        /\ \A i \in 1 .. Len(s) : u[i] = s[i]
    BY AppendProperties
  <2>. HIDE DEF u
  <2>2. ASSUME PlainKana(u) PROVE Holds(u)
    <3>1. DOMAIN u = 1 .. Len(s) + 1 /\ DOMAIN s = 1 .. Len(s) /\ Len(s) \in Nat
      BY <2>1
    <3>2. PlainKana(s) /\ Width[c] = 3 /\ c \notin SmallYoon
      BY <2>1, <2>2, <3>1 DEF PlainKana
    <3>3. Holds(s)
      BY <1>3, <3>2
    <3>4. Parts(c) = <<Char(c)>> /\ ~IsSmallYoon(Char(c)) /\ Char(c) \in C
      BY <3>2, PartsAre, BytesOfChar
    <3>5. CharsOf(u) = Append(CharsOf(s), Char(c)) /\ CharsOf(s) \in Seq(C)
      BY Utf8Grows, Utf8Of DEF u
    <3>6. Pieces(Utf8(u)) = CharsOf(s) \o <<Char(c)>>
      BY <3>3, <3>4, PiecesGrow DEF u
    <3>7. t \o u = Append(t \o s, c) /\ t \o s \in Seq(Chars)
      <4>1. u = s \o <<c>> /\ t \o s \in Seq(Chars) /\ Append(t \o s, c) = (t \o s) \o <<c>> /\ <<c>> \in Seq(Chars)
        BY AppendIsConcat, ConcatProperties DEF u
      <4>. QED
        BY <4>1, ConcatAssociative
    <3>8. Morae(t \o u) = Merge(Morae(t \o s), Char(c))
      <4>1. Width[c] # 4
        BY <3>2
      <4>. QED
        BY <3>7, <4>1, MoraeStep
    <3>9. Morae(t \o u) = Append(Morae(t) \o CharsOf(s), Char(c))
      BY <3>3, <3>4, <3>8 DEF Merge
    <3>. DEFINE m == Morae(t)
                q == CharsOf(s)
                d == Char(c)
    <3>10. m \in Seq(C) /\ q \in Seq(C) /\ d \in C
      BY <1>1, <3>4, <3>5
    <3>. HIDE DEF C, m, q, d
    <3>11. Append(m \o q, d) = m \o Append(q, d) /\ Append(q, d) = q \o <<d>>
      <4>1. m \o q \in Seq(C) /\ <<d>> \in Seq(C)
        BY <3>10, ConcatProperties
      <4>2. Append(m \o q, d) = (m \o q) \o <<d>> /\ Append(q, d) = q \o <<d>>
        BY <3>10, <4>1, AppendIsConcat
      <4>3. (m \o q) \o <<d>> = m \o (q \o <<d>>)
        BY <3>10, <4>1, ThreeJoined
      <4>. QED
        BY <4>2, <4>3
    <3>. QED
      BY <3>5, <3>6, <3>9, <3>11 DEF m, q, d
  <2>. HIDE DEF Holds
  <2>. QED
    BY <2>1, <2>2 DEF u
<1>4. \A s \in Seq(Chars) : s \in H
  <2>. HIDE DEF H
  <2>. QED
    BY <1>2, <1>3, GrowingInduction
<1>. QED
  BY <1>4

-----------------------------------------------------------------------------
(* Kanji *)

SeenIn(q) == \E i \in DOMAIN q : DecodesTo(q[i][1], Kanji)

LEMMA SeenGrows ==
  ASSUME NEW q \in Seq(Seq(Bytes)), NEW p \in Seq(Bytes)
  PROVE  SeenIn(Append(q, p)) <=> SeenIn(q) \/ DecodesTo(p[1], Kanji)
<1>. DEFINE C == Seq(Bytes)
            r == Append(q, p)
<1>1. q \in Seq(C) /\ p \in C
  OBVIOUS
<1>. HIDE DEF C
<1>2. /\ Len(r) = Len(q) + 1 /\ r[Len(q) + 1] = p /\ r \in Seq(C) /\ Len(q) \in Nat
      /\ \A i \in 1 .. Len(q) : r[i] = q[i]
  BY <1>1, AppendProperties
<1>. HIDE DEF r
<1>3. DOMAIN r = 1 .. Len(q) + 1 /\ DOMAIN q = 1 .. Len(q)
  BY <1>1, <1>2
<1>4. (1 .. Len(q) + 1) = (1 .. Len(q)) \cup {Len(q) + 1}
  BY <1>2
<1>5. SeenIn(r) <=> SeenIn(q) \/ DecodesTo(p[1], Kanji)
  BY <1>2, <1>3, <1>4 DEF SeenIn
<1>. QED
  BY <1>5 DEF r

\* hasKanji finds the kanji of a text.
LEMMA KanjiSeen ==
  ASSUME NEW t \in Seq(Chars)
  PROVE  HasKanji(Utf8(t)) <=> HasKanjiChar(t)
<1>. DEFINE H == {s \in Seq(Chars) : SeenIn(Pieces(Utf8(s))) <=> HasKanjiChar(s)}
<1>1. \A s : HasKanji(s) <=> SeenIn(Pieces(s))
  BY DEF HasKanji, SeenIn
<1>2. <<>> \in H
  <2>1. DOMAIN <<>> = {}
    OBVIOUS
  <2>2. ~HasKanjiChar(<<>>) /\ ~SeenIn(<<>>)
    BY <2>1 DEF HasKanjiChar, SeenIn
  <2>. QED
    BY <2>2, NothingToBeat
<1>3. ASSUME NEW s \in Seq(Chars), NEW c \in Chars, s \in H PROVE Append(s, c) \in H
  <2>. DEFINE u == Append(s, c)
              q == Pieces(Utf8(s))
  <2>1. /\ u \in Seq(Chars) /\ Len(u) = Len(s) + 1 /\ u[Len(s) + 1] = c /\ Len(s) \in Nat
        /\ \A i \in 1 .. Len(s) : u[i] = s[i]
    BY AppendProperties
  <2>2. q \in Seq(Seq(Bytes)) /\ Pieces(Utf8(u)) = q \o Parts(c)
    BY PiecesGrow
  <2>3. SeenIn(q) <=> HasKanjiChar(s)
    BY <1>3
  <2>. HIDE DEF u, q
  <2>4. HasKanjiChar(u) <=> HasKanjiChar(s) \/ c \in Kanji
    <3>1. DOMAIN u = (1 .. Len(s)) \cup {Len(s) + 1} /\ DOMAIN s = 1 .. Len(s)
      BY <2>1
    <3>. QED
      BY <2>1, <3>1 DEF HasKanjiChar
  <2>5. CASE Width[c] # 4
    <3>1. Parts(c) = <<Char(c)>> /\ Char(c)[1] = <<c, 1>> /\ Char(c) \in Seq(Bytes)
      BY <2>5, PartsAre, BytesOfChar
    <3>2. q \o Parts(c) = Append(q, Char(c))
      BY <2>2, <3>1, AppendIsConcat
    <3>3. DecodesTo(Char(c)[1], Kanji) <=> c \in Kanji
      BY <3>1 DEF DecodesTo
    <3>4. SeenIn(Append(q, Char(c))) <=> SeenIn(q) \/ DecodesTo(Char(c)[1], Kanji)
      BY <2>2, <3>1, SeenGrows
    <3>. QED
      BY <2>1, <2>2, <2>3, <2>4, <3>2, <3>3, <3>4 DEF u
  <2>6. CASE Width[c] = 4
    <3>2. PICK a, b \in Seq(Bytes) : Parts(c) = <<a, b>> /\ a[1] = <<c, 1>> /\ b[1] = <<c, 4>>
      BY <2>6, PartsAre
    <3>3. (DecodesTo(a[1], Kanji) <=> c \in Kanji) /\ ~DecodesTo(b[1], Kanji)
      BY <3>2 DEF DecodesTo
    <3>4. q \o <<a, b>> = Append(Append(q, a), b) /\ Append(q, a) \in Seq(Seq(Bytes))
      <4>. DEFINE C == Seq(Bytes)
      <4>1. q \in Seq(C) /\ a \in C /\ b \in C
        BY <2>2
      <4>. HIDE DEF C
      <4>2. q \o <<a, b>> = Append(Append(q, a), b) /\ Append(q, a) \in Seq(C)
        BY <4>1, AppendTwo
      <4>. QED
        BY <4>2 DEF C
    <3>5. /\ SeenIn(Append(Append(q, a), b)) <=> SeenIn(Append(q, a)) \/ DecodesTo(b[1], Kanji)
          /\ SeenIn(Append(q, a)) <=> SeenIn(q) \/ DecodesTo(a[1], Kanji)
      BY <2>2, <3>4, SeenGrows
    <3>6. SeenIn(Pieces(Utf8(u))) <=> SeenIn(q) \/ c \in Kanji
      BY <2>2, <3>2, <3>3, <3>4, <3>5
    <3>. QED
      BY <2>1, <2>3, <2>4, <3>6 DEF u
  <2>. QED
    BY <2>5, <2>6
<1>4. \A s \in Seq(Chars) : s \in H
  <2>. HIDE DEF H
  <2>. QED
    BY <1>2, <1>3, GrowingInduction
<1>. QED
  BY <1>1, <1>4

\* A scan backwards, and where it goes from a byte.
Back(s, i) == IF i > StepFrom(s[i]) THEN i - StepFrom(s[i]) ELSE 0
IsBackScan(s, f) ==
  f = [i \in 0 .. Len(s) |-> IF i = 0 THEN 0 ELSE IF DecodesTo(s[i], Kanji) THEN i ELSE f[Back(s, i)]]

LEMMA BackScanExists ==
  ASSUME NEW s \in Seq(Bytes)
  PROVE  \E f : IsBackScan(s, f)
<1>. DEFINE n == Len(s)
            Step(k, h) == IF k = 0 THEN 0 ELSE IF DecodesTo(s[k], Kanji) THEN k ELSE h[Back(s, k)]
            G == [p \in Histories(n, Nat) |-> Step(p[1], p[2])]
<1>1. n \in Nat
  OBVIOUS
<1>2. ASSUME NEW k \in 1 .. n PROVE Back(s, k) \in 0 .. k - 1
  <2>1. s[k] \in Bytes /\ StepFrom(s[k]) \in 1 .. 3
    <3>1. s[k] \in Bytes
      OBVIOUS
    <3>. QED
      BY <3>1, StepsForward
  <2>. QED
    BY <1>1, <2>1 DEF Back
<1>. HIDE DEF n
<1>3. ASSUME NEW p \in Histories(n, Nat) PROVE Step(p[1], p[2]) \in Nat
  <2>1. PICK k \in 0 .. n : p \in {k} \X [0 .. k - 1 -> Nat]
    BY DEF Histories
  <2>2. p[1] = k /\ p[2] \in [0 .. k - 1 -> Nat]
    BY <2>1
  <2>3. CASE k = 0
    BY <2>2, <2>3
  <2>4. CASE k \in 1 .. n
    <3>1. p[2][Back(s, k)] \in Nat
      BY <1>2, <2>2, <2>4
    <3>. QED
      BY <2>2, <2>4, <3>1
  <2>. QED
    BY <1>1, <2>3, <2>4
<1>4. G \in [Histories(n, Nat) -> Nat]
  <2>. HIDE DEF Step
  <2>. QED
    BY <1>3
<1>5. PICK f \in [0 .. n -> Nat] : IsCourse(f, n, G)
  <2>. HIDE DEF G
  <2>. QED
    BY <1>1, <1>4, CourseExists
<1>6. ASSUME NEW k \in 0 .. n
      PROVE  f[k] = IF k = 0 THEN 0 ELSE IF DecodesTo(s[k], Kanji) THEN k ELSE f[Back(s, k)]
  <2>. DEFINE h == ValuesBefore(f, k)
  <2>1. h \in [0 .. k - 1 -> Nat]
    <3>1. \A j \in 0 .. k - 1 : f[j] \in Nat
      BY <1>1
    <3>. QED
      BY <3>1 DEF ValuesBefore
  <2>2. k # 0 => h[Back(s, k)] = f[Back(s, k)]
    BY <1>1, <1>2 DEF ValuesBefore
  <2>. HIDE DEF h
  <2>3. <<k, h>> \in Histories(n, Nat)
    BY <2>1 DEF Histories
  <2>4. f[k] = G[<<k, h>>]
    BY <1>5 DEF IsCourse, h
  <2>5. f[k] = Step(k, h)
    <3>. HIDE DEF Step
    <3>. QED
      BY <2>3, <2>4
  <2>. QED
    BY <2>2, <2>5
<1>7. IsBackScan(s, f)
  <2>1. f = [k \in 0 .. n |-> f[k]]
    OBVIOUS
  <2>2. f = [i \in 0 .. n |-> IF i = 0 THEN 0 ELSE IF DecodesTo(s[i], Kanji) THEN i ELSE f[Back(s, i)]]
    BY <1>6, <2>1
  <2>. QED
    BY <2>2 DEF IsBackScan, n
<1>. QED
  BY <1>7

\* From a byte behind the last kanji the scan comes to it.
LEMMA BackScanFinds ==
  ASSUME NEW s \in Seq(Bytes), NEW f, IsBackScan(s, f), NEW p \in 1 .. Len(s),
         p + 2 <= Len(s), DecodesTo(s[p], Kanji),
         \A k \in p + 1 .. Len(s) : ~DecodesTo(s[k], Kanji),
         \A k \in p + 1 .. p + 2 : s[k][2] > 1
  PROVE  \A i \in p .. Len(s) : f[i] = p
<1>. DEFINE H == {i \in 0 .. Len(s) : i >= p => f[i] = p}
<1>1. Len(s) \in Nat
  OBVIOUS
<1>2. ASSUME NEW i \in 0 .. Len(s)
      PROVE  f[i] = IF i = 0 THEN 0 ELSE IF DecodesTo(s[i], Kanji) THEN i ELSE f[Back(s, i)]
  <2>. DEFINE g == [j \in 0 .. Len(s) |-> IF j = 0 THEN 0 ELSE IF DecodesTo(s[j], Kanji) THEN j ELSE f[Back(s, j)]]
  <2>1. f = g
    BY DEF IsBackScan
  <2>2. g[i] = IF i = 0 THEN 0 ELSE IF DecodesTo(s[i], Kanji) THEN i ELSE f[Back(s, i)]
    OBVIOUS
  <2>. HIDE DEF g
  <2>. QED
    BY <2>1, <2>2
<1>3. ASSUME NEW i \in 0 .. Len(s), \A j \in 0 .. i - 1 : j \in H PROVE i \in H
  <2>1. CASE i < p
    BY <2>1
  <2>2. CASE i = p
    <3>1. f[i] = i
      BY <1>2, <2>2
    <3>. QED
      BY <2>2, <3>1
  <2>3. CASE i > p
    <3>1. ~DecodesTo(s[i], Kanji) /\ i # 0 /\ s[i] \in Bytes
      BY <2>3
    <3>2. StepFrom(s[i]) \in 1 .. 3
      BY <3>1, StepsForward
    <3>3. i \in p + 1 .. p + 2 => StepFrom(s[i]) = 1
      BY DEF StepFrom
    <3>4. Back(s, i) \in p .. i - 1
      BY <2>3, <3>2, <3>3 DEF Back
    <3>5. f[Back(s, i)] = p
      BY <1>3, <3>4
    <3>6. f[i] = f[Back(s, i)]
      BY <1>2, <3>1
    <3>. QED
      BY <3>5, <3>6
  <2>. QED
    BY <2>1, <2>2, <2>3
<1>4. \A i \in 0 .. Len(s) : i \in H
  <2>. HIDE DEF H
  <2>1. Len(s) \in Int
    BY <1>1
  <2>. QED
    BY <1>3, <2>1, CourseInduction
<1>. QED
  BY <1>1, <1>4

\* Each byte of a text is one of a character of it.
LEMMA ByteOfText ==
  ASSUME NEW t \in Seq(Chars), NEW i \in DOMAIN Utf8(t)
  PROVE  \E j \in DOMAIN t : \E k \in 1 .. Width[t[j]] : Utf8(t)[i] = <<t[j], k>>
<1>1. CharsOf(t) \in Seq(Seq(Bytes)) /\ Utf8(t) = FlattenSeq(CharsOf(t)) /\ DOMAIN CharsOf(t) = DOMAIN t
  BY Utf8Of DEF CharsOf
<1>2. PICK j \in DOMAIN CharsOf(t) : \E k \in DOMAIN CharsOf(t)[j] : Utf8(t)[i] = CharsOf(t)[j][k]
  BY <1>1, FlattenFrom
<1>3. PICK k \in DOMAIN CharsOf(t)[j] : Utf8(t)[i] = CharsOf(t)[j][k]
  BY <1>2
<1>4. j \in DOMAIN t /\ CharsOf(t)[j] = Char(t[j]) /\ t[j] \in Chars
  BY <1>1, <1>2 DEF CharsOf
<1>5. k \in 1 .. Width[t[j]] /\ Utf8(t)[i] = <<t[j], k>>
  BY <1>3, <1>4 DEF Char
<1>. QED
  BY <1>4, <1>5

\* The okurigana start behind the last kanji of a text.
LEMMA OkuriganaStart ==
  ASSUME NEW k \in Seq(Chars), NEW c \in Kanji, NEW o \in Seq(Chars), Width[c] = 3, ~HasKanjiChar(o)
  PROVE  LET x == Utf8(Append(k, c))
             y == Utf8(o)
         IN  OkuriStart(x \o y) = Len(x)
<1>. DEFINE w == Utf8(k)
            x == Utf8(Append(k, c))
            y == Utf8(o)
            d == Char(c)
            s == x \o y
            p == Len(w) + 1
<1>1. /\ c \in Chars /\ Width[c] = 3 /\ Append(k, c) \in Seq(Chars)
      /\ w \in Seq(Bytes) /\ x \in Seq(Bytes) /\ y \in Seq(Bytes) /\ d \in Seq(Bytes)
      /\ x = w \o d /\ Len(d) = 3 /\ \A j \in 1 .. 3 : d[j] = <<c, j>>
  <2>1. c \in Chars /\ Width[c] = 3
    BY CharsAssumption
  <2>2. Append(k, c) \in Seq(Chars)
    BY <2>1, AppendProperties
  <2>. QED
    BY <2>1, <2>2, Utf8Of, Utf8Grows, BytesOfChar
<1>2. ASSUME NEW i \in DOMAIN y PROVE ~DecodesTo(y[i], Kanji)
  <2>1. PICK j \in DOMAIN o : \E l \in 1 .. Width[o[j]] : y[i] = <<o[j], l>>
    BY ByteOfText
  <2>. QED
    BY <2>1 DEF DecodesTo, HasKanjiChar
<1>. HIDE DEF w, x, y, d
<1>3. /\ Len(x) = Len(w) + 3 /\ Len(w) \in Nat /\ Len(y) \in Nat
      /\ \A j \in 1 .. 3 : x[Len(w) + j] = <<c, j>>
  <2>1. /\ Len(w \o d) = Len(w) + 3
        /\ \A j \in 1 .. Len(w) + 3 : (w \o d)[j] = IF j <= Len(w) THEN w[j] ELSE d[j - Len(w)]
    <3>1. /\ Len(w \o d) = Len(w) + Len(d)
          /\ \A j \in 1 .. Len(w) + Len(d) : (w \o d)[j] = IF j <= Len(w) THEN w[j] ELSE d[j - Len(w)]
      BY <1>1, ConcatProperties
    <3>. QED
      BY <1>1, <3>1
  <2>2. Len(w) \in Nat /\ Len(y) \in Nat
    BY <1>1
  <2>3. ASSUME NEW j \in 1 .. 3 PROVE x[Len(w) + j] = <<c, j>>
    <3>1. Len(w) + j \in 1 .. Len(w) + 3 /\ ~(Len(w) + j <= Len(w)) /\ (Len(w) + j) - Len(w) = j
      BY <2>2
    <3>. QED
      BY <1>1, <2>1, <3>1
  <2>. QED
    BY <1>1, <2>1, <2>2, <2>3
<1>4. /\ s \in Seq(Bytes) /\ Len(s) = Len(x) + Len(y)
      /\ \A j \in 1 .. Len(x) + Len(y) : s[j] = IF j <= Len(x) THEN x[j] ELSE y[j - Len(x)]
  BY <1>1, ConcatProperties
<1>. HIDE DEF s
<1>5. /\ p \in 1 .. Len(s) /\ p + 2 = Len(x) /\ p + 2 <= Len(s)
      /\ s[p] = <<c, 1>> /\ s[p + 1] = <<c, 2>> /\ s[p + 2] = <<c, 3>>
  <2>1. p \in 1 .. Len(s) /\ p + 2 = Len(x) /\ p + 2 <= Len(s)
    BY <1>3, <1>4
  <2>2. s[p] = x[p] /\ s[p + 1] = x[p + 1] /\ s[p + 2] = x[p + 2]
    BY <1>3, <1>4, <2>1
  <2>3. p + 1 = Len(w) + 2 /\ p + 2 = Len(w) + 3
    BY <1>3
  <2>. QED
    BY <1>3, <2>1, <2>2, <2>3
<1>6. DecodesTo(s[p], Kanji)
  BY <1>5 DEF DecodesTo
<1>7. ASSUME NEW j \in p + 1 .. Len(s) PROVE ~DecodesTo(s[j], Kanji)
  <2>1. CASE j \in p + 1 .. p + 2
    <3>1. s[j][2] # 1
      BY <1>3, <1>5, <2>1
    <3>. QED
      BY <3>1 DEF DecodesTo
  <2>2. CASE j > p + 2
    <3>1. ~(j <= Len(x)) /\ j \in 1 .. Len(x) + Len(y) /\ j - Len(x) \in 1 .. Len(y)
      BY <1>3, <1>4, <1>5, <2>2
    <3>2. s[j] = y[j - Len(x)] /\ j - Len(x) \in DOMAIN y
      BY <1>1, <1>4, <3>1
    <3>. QED
      BY <1>2, <3>2
  <2>. QED
    BY <1>3, <2>1, <2>2
<1>8. ASSUME NEW j \in p + 1 .. p + 2 PROVE s[j][2] > 1
  <2>1. j = p + 1 \/ j = p + 2
    BY <1>3
  <2>. QED
    BY <1>5, <2>1
<1>9. Len(s) \in Nat /\ Len(s) - 2 \in p .. Len(s) /\ ~(Len(s) < 3)
  BY <1>3, <1>4, <1>5
<1>. DEFINE f == CHOOSE f : IsBackScan(s, f)
<1>10. IsBackScan(s, f)
  BY <1>4, BackScanExists
<1>11. LastKanji(s) = f[Len(s) - 2]
  BY <1>9 DEF LastKanji, IsBackScan, Back
<1>. HIDE DEF f, p
<1>12. LastKanji(s) = p
  <2>1. \A j \in p + 1 .. Len(s) : ~DecodesTo(s[j], Kanji)
    BY <1>7
  <2>2. \A j \in p + 1 .. p + 2 : s[j][2] > 1
    BY <1>8
  <2>3. s \in Seq(Bytes) /\ p \in 1 .. Len(s) /\ p + 2 <= Len(s)
    BY <1>4, <1>5
  <2>4. \A i \in p .. Len(s) : f[i] = p
    BY <1>6, <1>10, <2>1, <2>2, <2>3, BackScanFinds
  <2>. QED
    BY <1>9, <1>11, <2>4
<1>13. p # 0
  BY <1>3 DEF p
<1>14. OkuriStart(s) = Len(x)
  BY <1>5, <1>12, <1>13 DEF OkuriStart
<1>. QED
  BY <1>14 DEF s, x, y

LEMMA OneBefore ==
  ASSUME NEW S, NEW x \in S, NEW m \in Seq(S)
  PROVE  /\ <<x>> \o m \in Seq(S) /\ Len(<<x>> \o m) = 1 + Len(m)
         /\ (<<x>> \o m)[1] = x /\ \A i \in 1 .. Len(m) : (<<x>> \o m)[i + 1] = m[i]
<1>. DEFINE o == <<x>>
            s == o \o m
<1>1. o \in Seq(S) /\ Len(o) = 1 /\ o[1] = x /\ Len(m) \in Nat
  OBVIOUS
<1>. HIDE DEF o
<1>2. /\ s \in Seq(S) /\ Len(s) = Len(o) + Len(m)
      /\ \A i \in 1 .. Len(o) + Len(m) : s[i] = IF i <= Len(o) THEN o[i] ELSE m[i - Len(o)]
  BY <1>1, ConcatProperties
<1>. HIDE DEF s
<1>3. s[1] = x
  <2>1. 1 \in 1 .. Len(o) + Len(m) /\ 1 <= Len(o)
    BY <1>1
  <2>. QED
    BY <1>1, <1>2, <2>1
<1>4. ASSUME NEW i \in 1 .. Len(m) PROVE s[i + 1] = m[i]
  <2>1. i + 1 \in 1 .. Len(o) + Len(m) /\ ~(i + 1 <= Len(o)) /\ (i + 1) - Len(o) = i
    BY <1>1
  <2>. QED
    BY <1>2, <2>1
<1>. QED
  BY <1>1, <1>2, <1>3, <1>4 DEF s, o
-----------------------------------------------------------------------------
(* The units of a word *)

Unit == [surface : Seq(Bytes), readings : Seq(Seq(Bytes))]
\* What is shown and what is spoken of each unit.
ShownOf(units) == [i \in DOMAIN units |-> units[i].surface]
SpokenOf(units) ==
  [i \in DOMAIN units |->
     IF units[i].readings = <<>> THEN units[i].surface ELSE Concat(units[i].readings)]

LEMMA ShownSpoken ==
  ASSUME NEW units
  PROVE  Shown(units) = FlattenSeq(ShownOf(units)) /\ Spoken(units) = FlattenSeq(SpokenOf(units))
BY DEF Shown, Spoken, Concat, ShownOf, SpokenOf

\* A unit and, behind it, one for each of some beats.
LEMMA UnitAndBeats ==
  ASSUME NEW u \in Unit, NEW m \in Seq(Seq(Bytes)), u.readings # <<>>
  PROVE  LET units == <<u>> \o [i \in DOMAIN m |-> Bare(m[i])]
         IN  /\ units \in Seq(Unit) /\ Len(units) = 1 + Len(m) /\ units[1] = u
             /\ \A i \in 2 .. Len(units) : units[i].readings = <<>>
             /\ Shown(units) = u.surface \o FlattenSeq(m)
             /\ Spoken(units) = Concat(u.readings) \o FlattenSeq(m)
<1>. DEFINE bare == [i \in DOMAIN m |-> Bare(m[i])]
            units == <<u>> \o bare
            C == Seq(Bytes)
<1>1. m \in Seq(C) /\ Len(m) \in Nat /\ DOMAIN m = 1 .. Len(m) /\ \A i \in 1 .. Len(m) : m[i] \in C
  OBVIOUS
<1>2. /\ bare \in Seq(Unit) /\ Len(bare) = Len(m)
      /\ \A i \in 1 .. Len(m) : bare[i].surface = m[i] /\ bare[i].readings = <<>>
  <2>1. \A i \in 1 .. Len(m) : Bare(m[i]) \in Unit
    <3>1. <<>> \in Seq(C)
      BY EmptySeq
    <3>. QED
      BY <1>1, <3>1 DEF Bare, Unit
  <2>2. \A i \in 1 .. Len(m) : bare[i] = Bare(m[i])
    BY <1>1
  <2>3. bare \in Seq(Unit) /\ Len(bare) = Len(m)
    BY <1>1, <2>1
  <2>4. \A e : Bare(e).surface = e /\ Bare(e).readings = <<>>
    BY DEF Bare
  <2>. HIDE DEF bare
  <2>. QED
    BY <2>2, <2>3, <2>4
<1>. HIDE DEF bare
<1>4. /\ units \in Seq(Unit) /\ Len(units) = 1 + Len(m)
      /\ units[1] = u
      /\ \A i \in 1 .. Len(m) : units[i + 1] = bare[i]
  BY <1>2, OneBefore
<1>. HIDE DEF units
<1>5. \A i \in 2 .. Len(units) : units[i].readings = <<>>
  <2>1. ASSUME NEW i \in 2 .. Len(units) PROVE units[i].readings = <<>>
    <3>1. i - 1 \in 1 .. Len(m) /\ (i - 1) + 1 = i
      BY <1>1, <1>4
    <3>2. units[i] = bare[i - 1]
      BY <1>4, <3>1
    <3>. QED
      BY <1>2, <3>1, <3>2
  <2>. QED
    BY <2>1
<1>6. DOMAIN units = 1 .. 1 + Len(m)
  BY <1>4
<1>. DEFINE x == u.surface
            y == Concat(u.readings)
<1>7. x \in C /\ y \in C
  <2>1. u.surface \in C /\ u.readings \in Seq(C)
    BY DEF Unit
  <2>. QED
    BY <2>1, FlattenFrom DEF Concat
<1>. HIDE DEF C, x, y
<1>8. /\ <<x>> \o m \in Seq(C) /\ Len(<<x>> \o m) = 1 + Len(m)
      /\ (<<x>> \o m)[1] = x /\ \A i \in 1 .. Len(m) : (<<x>> \o m)[i + 1] = m[i]
  BY <1>1, <1>7, OneBefore
<1>9. /\ <<y>> \o m \in Seq(C) /\ Len(<<y>> \o m) = 1 + Len(m)
      /\ (<<y>> \o m)[1] = y /\ \A i \in 1 .. Len(m) : (<<y>> \o m)[i + 1] = m[i]
  BY <1>1, <1>7, OneBefore
<1>10. ShownOf(units) = <<x>> \o m
  <2>. DEFINE s == <<x>> \o m
  <2>1. s = [i \in 1 .. 1 + Len(m) |-> s[i]]
    BY <1>8
  <2>. HIDE DEF s
  <2>2. ASSUME NEW i \in 1 .. 1 + Len(m) PROVE units[i].surface = s[i]
    <3>1. CASE i = 1
      BY <1>4, <1>8, <3>1 DEF x, s
    <3>2. CASE i # 1
      <4>1. i - 1 \in 1 .. Len(m) /\ (i - 1) + 1 = i
        BY <1>1, <3>2
      <4>2. units[i] = bare[i - 1] /\ s[i] = m[i - 1]
        BY <1>4, <1>8, <4>1 DEF s
      <4>. QED
        BY <1>2, <4>1, <4>2
    <3>. QED
      BY <3>1, <3>2
  <2>3. ShownOf(units) = [i \in 1 .. 1 + Len(m) |-> units[i].surface]
    BY <1>6 DEF ShownOf
  <2>. QED
    BY <2>1, <2>2, <2>3 DEF s
<1>11. SpokenOf(units) = <<y>> \o m
  <2>. DEFINE s == <<y>> \o m
              v(i) == IF units[i].readings = <<>> THEN units[i].surface ELSE Concat(units[i].readings)
  <2>1. s = [i \in 1 .. 1 + Len(m) |-> s[i]]
    BY <1>9
  <2>. HIDE DEF s
  <2>2. ASSUME NEW i \in 1 .. 1 + Len(m) PROVE v(i) = s[i]
    <3>1. CASE i = 1
      BY <1>4, <1>9, <3>1 DEF y, s
    <3>2. CASE i # 1
      <4>1. i - 1 \in 1 .. Len(m) /\ (i - 1) + 1 = i
        BY <1>1, <3>2
      <4>2. units[i] = bare[i - 1] /\ s[i] = m[i - 1]
        BY <1>4, <1>9, <4>1 DEF s
      <4>. QED
        BY <1>2, <4>1, <4>2
    <3>. QED
      BY <3>1, <3>2
  <2>3. SpokenOf(units) = [i \in 1 .. 1 + Len(m) |-> v(i)]
    BY <1>6 DEF SpokenOf
  <2>. HIDE DEF v
  <2>. QED
    BY <2>1, <2>2, <2>3 DEF s
<1>12. FlattenSeq(<<x>> \o m) = x \o FlattenSeq(m) /\ FlattenSeq(<<y>> \o m) = y \o FlattenSeq(m)
  <2>1. <<x>> \in Seq(Seq(Bytes)) /\ <<y>> \in Seq(Seq(Bytes)) /\ x \in Seq(Bytes) /\ y \in Seq(Bytes)
    BY <1>7 DEF C
  <2>2. FlattenSeq(<<x>>) = x /\ FlattenSeq(<<y>>) = y
    BY <2>1, FlattenOne
  <2>. QED
    BY <2>1, <2>2, FlattenJoined
<1>13. Shown(units) = x \o FlattenSeq(m) /\ Spoken(units) = y \o FlattenSeq(m)
  BY <1>10, <1>11, <1>12, ShownSpoken
<1>. QED
  BY <1>4, <1>5, <1>13 DEF units, bare, x, y

\* A text with kanji is what goes before its last kanji, that kanji, and its
\* okurigana.
LEMMA LastKanjiSplits ==
  ASSUME NEW t \in Seq(Chars), HasKanjiChar(t)
  PROVE  /\ Okurigana(t) \in Seq(Chars) /\ ~HasKanjiChar(Okurigana(t))
         /\ \E k \in Seq(Chars), c \in Kanji : t = Append(k, c) \o Okurigana(t)
<1>. DEFINE n == Len(t)
            S == {i \in DOMAIN t : t[i] \in Kanji}
            M == Max(S)
<1>1. n \in Nat /\ DOMAIN t = 1 .. n /\ \A i \in 1 .. n : t[i] \in Chars
  OBVIOUS
<1>2. S \in SUBSET (1 .. n) /\ S # {}
  BY <1>1 DEF HasKanjiChar
<1>. HIDE DEF n
<1>3. M \in S /\ \A i \in S : M >= i
  <2>. HIDE DEF S
  <2>. QED
    BY <1>1, <1>2, MaxOf
<1>4. M \in 1 .. n /\ t[M] \in Kanji /\ \A i \in M + 1 .. n : t[i] \notin Kanji
  <2>1. M \in 1 .. n /\ t[M] \in Kanji
    BY <1>1, <1>3
  <2>2. ASSUME NEW i \in M + 1 .. n, t[i] \in Kanji PROVE FALSE
    <3>1. i \in S /\ ~(M >= i)
      BY <1>1, <2>1, <2>2
    <3>. QED
      BY <1>3, <3>1
  <2>. QED
    BY <2>1, <2>2
<1>5. Max({0} \cup S) = M
  <2>. DEFINE Z == {0} \cup S
  <2>1. M \in Z /\ \A i \in Z : M >= i /\ i \in Int
    <3>1. M >= 0 /\ \A i \in S : i \in Int
      BY <1>1, <1>2, <1>4
    <3>. HIDE DEF M, S
    <3>. QED
      BY <1>3, <3>1
  <2>. HIDE DEF Z, S, M
  <2>2. Max(Z) \in Z /\ \A i \in Z : Max(Z) >= i
    BY <2>1 DEF Max
  <2>3. Max(Z) = M
    BY <2>1, <2>2
  <2>. QED
    BY <2>3 DEF Z
<1>6. Okurigana(t) = SubSeq(t, M + 1, n)
  <2>1. Okurigana(t) = SubSeq(t, 1 + Max({0} \cup S), n)
    BY DEF Okurigana, n
  <2>2. 1 + M = M + 1
    BY <1>4
  <2>. QED
    BY <1>5, <2>1, <2>2
<1>. HIDE DEF M, S
<1>. DEFINE o == SubSeq(t, M + 1, n)
            k == SubSeq(t, 1, M - 1)
<1>7. /\ o \in Seq(Chars) /\ Len(o) = n - M
      /\ \A i \in 1 .. n - M : o[i] = t[M + i]
  <2>1. M + 1 \in Int /\ n \in Int /\ \A i \in M + 1 .. n : t[i] \in Chars
    BY <1>1, <1>4
  <2>2. /\ o \in Seq(Chars) /\ Len(o) = IF M + 1 <= n THEN n - (M + 1) + 1 ELSE 0
        /\ \A i \in 1 .. n - (M + 1) + 1 : o[i] = t[(M + 1) + i - 1]
    BY <2>1, SubSeqProperties
  <2>. HIDE DEF o
  <2>3. n - (M + 1) + 1 = n - M /\ \A i \in 1 .. n - M : (M + 1) + i - 1 = M + i
    BY <1>1, <1>4
  <2>4. Len(o) = n - M
    BY <1>1, <1>4, <2>2
  <2>. QED
    BY <2>2, <2>3, <2>4
<1>8. k \in Seq(Chars)
  <2>1. 1 \in Int /\ M - 1 \in Int /\ \A i \in 1 .. M - 1 : t[i] \in Chars
    BY <1>1, <1>4
  <2>. QED
    BY <2>1, SubSeqProperties
<1>9. t = Append(k, t[M]) \o o
  <2>1. 1 \in 1 .. Len(t) /\ M \in 1 .. Len(t) /\ t[M] \in Chars
    BY <1>1, <1>4 DEF n
  <2>2. SubSeq(t, 1, M) = k \o <<t[M]>>
    BY <2>1, SubSeqRecursiveSecond
  <2>3. 1 \in 1 .. Len(t) + 1 /\ M \in 1 - 1 .. Len(t) /\ Len(t) \in M .. Len(t)
    BY <2>1
  <2>4. SubSeq(t, 1, M) \o SubSeq(t, M + 1, Len(t)) = SubSeq(t, 1, Len(t))
    BY <2>3, ConcatAdjacentSubSeq
  <2>5. SubSeq(t, 1, Len(t)) = t
    BY SubSeqFull
  <2>. HIDE DEF k
  <2>6. Append(k, t[M]) = k \o <<t[M]>>
    BY <1>8, <2>1, AppendIsConcat
  <2>. QED
    BY <2>2, <2>4, <2>5, <2>6 DEF n
<1>. HIDE DEF o, k
<1>10. ~HasKanjiChar(o)
  <2>1. DOMAIN o = 1 .. n - M
    BY <1>7
  <2>2. \A i \in 1 .. n - M : M + i \in M + 1 .. n
    BY <1>1, <1>4
  <2>. QED
    BY <1>4, <1>7, <2>1, <2>2 DEF HasKanjiChar
<1>. QED
  BY <1>4, <1>6, <1>7, <1>8, <1>9, <1>10 DEF o

\* How the end of a sequence is one.
LEMMA SuffixSplits ==
  ASSUME NEW S, NEW o \in Seq(S), NEW r \in Seq(S), IsSuffix(o, r), Len(o) < Len(r)
  PROVE  \E q \in Seq(S) : q # <<>> /\ r = q \o o
<1>. DEFINE n == Len(r)
            l == Len(o)
            q == SubSeq(r, 1, n - l)
<1>1. n \in Nat /\ l \in Nat /\ l < n /\ \A i \in 1 .. n : r[i] \in S
  OBVIOUS
<1>2. SubSeq(Reverse(o), 1, l) = SubSeq(Reverse(r), 1, l)
  <2>1. Len(Reverse(o)) = l
    BY DEF Reverse
  <2>. QED
    BY <2>1 DEF IsSuffix, IsPrefix
<1>3. ASSUME NEW i \in 1 .. l PROVE o[l - i + 1] = r[n - i + 1]
  <2>1. \A j \in 1 .. l : Reverse(o)[j] = o[l - j + 1]
    BY DEF Reverse
  <2>2. \A j \in 1 .. n : Reverse(r)[j] = r[n - j + 1]
    BY DEF Reverse
  <2>3. \A s : SubSeq(s, 1, l)[i] = s[i]
    <3>1. \A s : SubSeq(s, 1, l) = [j \in 1 .. (1 + l - 1) |-> s[1 + j - 1]]
      BY <1>1
    <3>. QED
      BY <1>1, <3>1
  <2>. QED
    BY <1>1, <1>2, <2>1, <2>2, <2>3
<1>4. ASSUME NEW i \in 1 .. l PROVE r[(n - l) + i] = o[i]
  <2>1. l - i + 1 \in 1 .. l /\ l - (l - i + 1) + 1 = i /\ n - (l - i + 1) + 1 = (n - l) + i
    BY <1>1
  <2>. QED
    BY <1>3, <2>1
<1>. HIDE DEF n, l
<1>5. q \in Seq(S) /\ Len(q) = n - l /\ \A i \in 1 .. n - l : q[i] = r[i]
  <2>1. 1 \in Int /\ n - l \in Int /\ 1 <= n - l /\ \A i \in 1 .. n - l : r[i] \in S
    BY <1>1
  <2>2. /\ q \in Seq(S) /\ Len(q) = IF 1 <= n - l THEN (n - l) - 1 + 1 ELSE 0
        /\ \A i \in 1 .. (n - l) - 1 + 1 : q[i] = r[1 + i - 1]
    BY <2>1, SubSeqProperties
  <2>3. (n - l) - 1 + 1 = n - l /\ \A i \in 1 .. n - l : 1 + i - 1 = i
    BY <1>1
  <2>. HIDE DEF q
  <2>. QED
    BY <2>1, <2>2, <2>3
<1>. HIDE DEF q
<1>6. q \o o \in Seq(S) /\ Len(q \o o) = Len(q) + Len(o)
      /\ \A i \in 1 .. Len(q) + Len(o) : (q \o o)[i] = IF i <= Len(q) THEN q[i] ELSE o[i - Len(q)]
  BY <1>5, ConcatProperties
<1>7. Len(q) + Len(o) = n
  BY <1>1, <1>5 DEF l
<1>8. ASSUME NEW i \in 1 .. n PROVE r[i] = (q \o o)[i]
  <2>1. CASE i <= n - l
    <3>1. i \in 1 .. n - l
      BY <1>1, <2>1
    <3>. QED
      BY <1>5, <1>6, <1>7, <2>1, <3>1
  <2>2. CASE ~(i <= n - l)
    <3>1. i - (n - l) \in 1 .. l /\ (n - l) + (i - (n - l)) = i
      BY <1>1, <2>2
    <3>. QED
      BY <1>4, <1>5, <1>6, <1>7, <2>2, <3>1
  <2>. QED
    BY <2>1, <2>2
<1>9. r = q \o o
  BY <1>6, <1>7, <1>8, SeqEqual DEF n
<1>10. q # <<>>
  BY <1>1, <1>5
<1>. QED
  BY <1>5, <1>9, <1>10

LEMMA BackScanRange ==
  ASSUME NEW s \in Seq(Bytes), NEW f, IsBackScan(s, f)
  PROVE  \A i \in 0 .. Len(s) : f[i] \in 0 .. i
<1>. DEFINE H == {i \in 0 .. Len(s) : f[i] \in 0 .. i}
<1>1. Len(s) \in Nat
  OBVIOUS
<1>2. ASSUME NEW i \in 0 .. Len(s)
      PROVE  f[i] = IF i = 0 THEN 0 ELSE IF DecodesTo(s[i], Kanji) THEN i ELSE f[Back(s, i)]
  <2>. DEFINE g == [j \in 0 .. Len(s) |-> IF j = 0 THEN 0 ELSE IF DecodesTo(s[j], Kanji) THEN j ELSE f[Back(s, j)]]
  <2>1. f = g
    BY DEF IsBackScan
  <2>2. g[i] = IF i = 0 THEN 0 ELSE IF DecodesTo(s[i], Kanji) THEN i ELSE f[Back(s, i)]
    OBVIOUS
  <2>. HIDE DEF g
  <2>. QED
    BY <2>1, <2>2
<1>3. ASSUME NEW i \in 0 .. Len(s), \A j \in 0 .. i - 1 : j \in H PROVE i \in H
  <2>1. CASE i = 0
    BY <1>2, <2>1
  <2>2. CASE i # 0
    <3>1. s[i] \in Bytes
      BY <2>2
    <3>2. Back(s, i) \in 0 .. i - 1
      BY <2>2, <3>1, StepsForward DEF Back
    <3>3. f[Back(s, i)] \in 0 .. Back(s, i)
      BY <1>3, <3>2
    <3>4. f[i] = i \/ f[i] = f[Back(s, i)]
      BY <1>2, <2>2
    <3>. QED
      BY <3>2, <3>3, <3>4
  <2>. QED
    BY <2>1, <2>2
<1>4. \A i \in 0 .. Len(s) : i \in H
  <2>. HIDE DEF H
  <2>1. Len(s) \in Int
    BY <1>1
  <2>. QED
    BY <1>3, <2>1, CourseInduction
<1>. QED
  BY <1>4

\* A word is cut inside itself.
LEMMA CutInside ==
  ASSUME NEW s \in Seq(Bytes)
  PROVE  OkuriStart(s) \in 0 .. Len(s)
<1>1. Len(s) \in Nat
  OBVIOUS
<1>2. CASE Len(s) < 3
  BY <1>1, <1>2 DEF OkuriStart, LastKanji
<1>3. CASE ~(Len(s) < 3)
  <2>. DEFINE f == CHOOSE f : IsBackScan(s, f)
  <2>1. IsBackScan(s, f)
    BY BackScanExists
  <2>2. LastKanji(s) = f[Len(s) - 2]
    BY <1>3 DEF LastKanji, IsBackScan, Back
  <2>. HIDE DEF f
  <2>3. Len(s) - 2 \in 0 .. Len(s)
    BY <1>1, <1>3
  <2>4. f[Len(s) - 2] \in 0 .. Len(s) - 2
    BY <2>1, <2>3, BackScanRange
  <2>. QED
    BY <1>1, <2>2, <2>4 DEF OkuriStart
<1>. QED
  BY <1>2, <1>3

LEMMA PiecesShape ==
  ASSUME NEW s \in Seq(Bytes)
  PROVE  Pieces(s) \in Seq(Seq(Bytes)) /\ Len(Pieces(s)) \in Nat
<1>1. PICK f : IsScan(s, f) /\ Pieces(s) = f[1]
  BY PiecesScan
<1>2. 1 \in 1 .. Len(s) + 3
  OBVIOUS
<1>3. f[1] \in Seq(Seq(Bytes))
  BY <1>1, <1>2, ScanRange
<1>. QED
  BY <1>1, <1>3

\* A sequence cut in two.
LEMMA CutInTwo ==
  ASSUME NEW S, NEW m \in Seq(S), NEW n \in 0 .. Len(m)
  PROVE  LET a == SubSeq(m, 1, n)
             b == SubSeq(m, n + 1, Len(m))
         IN  /\ a \in Seq(S) /\ Len(a) = n /\ b \in Seq(S) /\ Len(b) = Len(m) - n
             /\ m = a \o b
<1>. DEFINE a == SubSeq(m, 1, n)
            b == SubSeq(m, n + 1, Len(m))
<1>1. Len(m) \in Nat /\ n \in Nat /\ \A i \in 1 .. Len(m) : m[i] \in S
  OBVIOUS
<1>2. a \in Seq(S) /\ Len(a) = n
  <2>1. 1 \in Int /\ n \in Int /\ \A i \in 1 .. n : m[i] \in S
    BY <1>1
  <2>2. a \in Seq(S) /\ Len(a) = IF 1 <= n THEN n - 1 + 1 ELSE 0
    BY <2>1, SubSeqProperties
  <2>. HIDE DEF a
  <2>. QED
    BY <1>1, <2>2
<1>3. b \in Seq(S) /\ Len(b) = Len(m) - n
  <2>1. n + 1 \in Int /\ Len(m) \in Int /\ \A i \in n + 1 .. Len(m) : m[i] \in S
    BY <1>1
  <2>2. b \in Seq(S) /\ Len(b) = IF n + 1 <= Len(m) THEN Len(m) - (n + 1) + 1 ELSE 0
    BY <2>1, SubSeqProperties
  <2>. HIDE DEF b
  <2>. QED
    BY <1>1, <2>2
<1>4. a \o b = SubSeq(m, 1, Len(m))
  <2>1. 1 \in 1 .. Len(m) + 1 /\ n \in 1 - 1 .. Len(m) /\ Len(m) \in n .. Len(m)
    BY <1>1
  <2>. QED
    BY <2>1, ConcatAdjacentSubSeq
<1>5. SubSeq(m, 1, Len(m)) = m
  BY SubSeqFull
<1>. QED
  BY <1>2, <1>3, <1>4, <1>5

\* Two sequences joined, cut where they meet.
LEMMA CutWhereJoined ==
  ASSUME NEW S, NEW a \in Seq(S), NEW b \in Seq(S)
  PROVE  /\ SubSeq(a \o b, 1, Len(a)) = a
         /\ SubSeq(a \o b, Len(a) + 1, Len(a \o b)) = b
<1>. DEFINE m == a \o b
            p == SubSeq(m, 1, Len(a))
            q == SubSeq(m, Len(a) + 1, Len(m))
<1>1. /\ m \in Seq(S) /\ Len(m) = Len(a) + Len(b) /\ Len(a) \in Nat /\ Len(b) \in Nat
      /\ \A i \in 1 .. Len(a) + Len(b) : m[i] = IF i <= Len(a) THEN a[i] ELSE b[i - Len(a)]
  BY ConcatProperties
<1>. HIDE DEF m
<1>2. Len(a) \in 0 .. Len(m)
  BY <1>1
<1>3. p \in Seq(S) /\ Len(p) = Len(a) /\ q \in Seq(S) /\ Len(q) = Len(m) - Len(a) /\ m = p \o q
  BY <1>1, <1>2, CutInTwo
<1>. HIDE DEF p, q
<1>4. \A i \in 1 .. Len(p) + Len(q) : (p \o q)[i] = IF i <= Len(p) THEN p[i] ELSE q[i - Len(p)]
  BY <1>3, ConcatProperties
<1>5. ASSUME NEW i \in 1 .. Len(a) PROVE p[i] = a[i]
  BY <1>1, <1>3, <1>4
<1>6. ASSUME NEW i \in 1 .. Len(b) PROVE q[i] = b[i]
  <2>1. i + Len(a) \in 1 .. Len(a) + Len(b) /\ ~(i + Len(a) <= Len(a)) /\ (i + Len(a)) - Len(a) = i
    BY <1>1
  <2>2. m[i + Len(a)] = b[i]
    BY <1>1, <2>1
  <2>3. (p \o q)[i + Len(a)] = q[i]
    BY <1>1, <1>3, <1>4, <2>1
  <2>. QED
    BY <1>3, <2>2, <2>3
<1>7. Len(q) = Len(b)
  BY <1>1, <1>3
<1>. QED
  BY <1>3, <1>5, <1>6, <1>7, SeqEqual DEF p, q, m

\* The cut of a word with kanji: the bytes before its okurigana, and how many
\* of the beats m go to the okurigana.
Beats(s, m) == OkuriMora(Len(Pieces(SubSeq(s, OkuriStart(s) + 1, Len(s)))), Len(m))
KanjiUnit(s, m) ==
  [surface |-> SubSeq(s, 1, OkuriStart(s)), readings |-> SubSeq(m, 1, Len(m) - Beats(s, m))]
TailBeats(s, m) == SubSeq(m, Len(m) - Beats(s, m) + 1, Len(m))

\* At least one beat is left for the kanji.
LEMMA BeatsLeft ==
  ASSUME NEW s \in Seq(Bytes), NEW m \in Seq(Seq(Bytes)), m # <<>>
  PROVE  Beats(s, m) \in 0 .. Len(m) - 1
<1>1. Len(m) \in Nat /\ Len(m) > 0 /\ Len(s) \in Nat
  OBVIOUS
<1>. DEFINE o == SubSeq(s, OkuriStart(s) + 1, Len(s))
<1>2. o \in Seq(Bytes)
  <2>1. OkuriStart(s) \in 0 .. Len(s)
    BY CutInside
  <2>. QED
    BY <2>1, CutInTwo
<1>. HIDE DEF o
<1>3. Len(Pieces(o)) \in Nat
  BY <1>2, PiecesShape
<1>4. OkuriMora(Len(Pieces(o)), Len(m)) \in 0 .. Len(m) - 1
  BY <1>1, <1>3 DEF OkuriMora
<1>. QED
  BY <1>4 DEF Beats, o

\* The units of a word with kanji deal out the beats of its reading.
LEMMA KanjiDealt ==
  ASSUME NEW s \in Seq(Bytes), NEW r \in Seq(Chars), r # <<>>
  PROVE  LET units == KanjiUnits([surface |-> s, reading |-> Utf8(r)])
             m == Morae(r)
         IN  /\ units \in Seq(Unit) /\ Len(units) = 1 + Beats(s, m)
             /\ units[1].readings = SubSeq(m, 1, Len(m) - Beats(s, m))
             /\ Len(units) - 1 + Len(units[1].readings) = Len(m)
             /\ \A i \in 2 .. Len(units) : units[i].readings = <<>>
             /\ Shown(units) = SubSeq(s, 1, OkuriStart(s)) \o FlattenSeq(TailBeats(s, m))
             /\ Spoken(units) = Utf8(r)
<1>. DEFINE m == Morae(r)
            w == [surface |-> s, reading |-> Utf8(r)]
            h == KanjiUnit(s, m)
            t == TailBeats(s, m)
            a == SubSeq(m, 1, Len(m) - Beats(s, m))
            bare == [i \in DOMAIN t |-> Bare(t[i])]
            units == <<h>> \o bare
<1>1. m \in Seq(Seq(Bytes)) /\ FlattenSeq(m) = Utf8(r) /\ m # <<>>
  BY MoraeShape
<1>2. KanjiUnits(w) = units
  <2>1. w.surface = s /\ w.reading = Utf8(r)
    OBVIOUS
  <2>. HIDE DEF w
  <2>. QED
    BY <2>1 DEF KanjiUnits, Beats, KanjiUnit, TailBeats, Morae
<1>. HIDE DEF m
<1>3. Len(m) \in Nat /\ Beats(s, m) \in 0 .. Len(m) - 1 /\ Len(m) - Beats(s, m) \in 0 .. Len(m)
  <2>1. Len(m) \in Nat
    BY <1>1
  <2>2. Beats(s, m) \in 0 .. Len(m) - 1
    BY <1>1, BeatsLeft
  <2>. QED
    BY <2>1, <2>2
<1>4. /\ a \in Seq(Seq(Bytes)) /\ Len(a) = Len(m) - Beats(s, m)
      /\ t \in Seq(Seq(Bytes)) /\ Len(t) = Len(m) - (Len(m) - Beats(s, m)) /\ m = a \o t
  <2>. DEFINE n == Len(m) - Beats(s, m)
  <2>1. n \in 0 .. Len(m)
    BY <1>3
  <2>2. t = SubSeq(m, n + 1, Len(m)) /\ a = SubSeq(m, 1, n)
    BY DEF TailBeats
  <2>. HIDE DEF n, a, t
  <2>3. /\ a \in Seq(Seq(Bytes)) /\ Len(a) = n
        /\ t \in Seq(Seq(Bytes)) /\ Len(t) = Len(m) - n /\ m = a \o t
    BY <1>1, <2>1, <2>2, CutInTwo
  <2>. QED
    BY <2>3 DEF n
<1>5. h \in Unit /\ h.readings = a /\ h.surface = SubSeq(s, 1, OkuriStart(s))
  <2>1. OkuriStart(s) \in 0 .. Len(s)
    BY CutInside
  <2>2. SubSeq(s, 1, OkuriStart(s)) \in Seq(Bytes)
    BY <2>1, CutInTwo
  <2>. HIDE DEF a
  <2>3. h = [surface |-> SubSeq(s, 1, OkuriStart(s)), readings |-> a]
    BY DEF KanjiUnit, a
  <2>. HIDE DEF h
  <2>. QED
    BY <1>4, <2>2, <2>3 DEF Unit
<1>. HIDE DEF a, t, h
<1>6. Len(t) = Beats(s, m) /\ a # <<>>
  BY <1>3, <1>4
<1>7. /\ units \in Seq(Unit) /\ Len(units) = 1 + Len(t) /\ units[1] = h
      /\ \A i \in 2 .. Len(units) : units[i].readings = <<>>
      /\ Shown(units) = h.surface \o FlattenSeq(t)
      /\ Spoken(units) = Concat(h.readings) \o FlattenSeq(t)
  BY <1>4, <1>5, <1>6, UnitAndBeats
<1>. HIDE DEF units
<1>8. Concat(h.readings) \o FlattenSeq(t) = Utf8(r)
  <2>1. FlattenSeq(a \o t) = FlattenSeq(a) \o FlattenSeq(t)
    BY <1>4, FlattenJoined
  <2>. QED
    BY <1>1, <1>4, <1>5, <2>1 DEF Concat
<1>9. Len(units) - 1 + Len(units[1].readings) = Len(m)
  <2>1. units[1].readings = a
    BY <1>5, <1>7
  <2>2. Len(units) = 1 + Beats(s, m) /\ Len(a) = Len(m) - Beats(s, m)
    BY <1>4, <1>6, <1>7
  <2>. QED
    BY <1>3, <2>1, <2>2
<1>. QED
  BY <1>2, <1>5, <1>6, <1>7, <1>8, <1>9 DEF m, w, a, t

\* Plain okurigana takes the last beats of the reading, one a character.
LEMMA PlainCut ==
  ASSUME NEW s \in Seq(Chars), NEW r \in Seq(Chars), PlainOkurigana([surface |-> s, reading |-> r])
  PROVE  LET b == Utf8(s)
             m == Morae(r)
         IN  /\ Beats(b, m) = Len(Okurigana(s))
             /\ SubSeq(b, 1, OkuriStart(b)) \o FlattenSeq(TailBeats(b, m)) = b
<1>. DEFINE b == Utf8(s)
            m == Morae(r)
            o == Okurigana(s)
<1>1. /\ HasKanjiChar(s) /\ UpToThreeBytes(s) /\ Len(o) < Len(r) /\ IsSuffix(o, r)
      /\ AllOfThreeBytes(o) /\ \A i \in DOMAIN o : o[i] \notin SmallYoon
  BY DEF PlainOkurigana
<1>2. o \in Seq(Chars) /\ ~HasKanjiChar(o)
  BY <1>1, LastKanjiSplits
<1>3. PICK k \in Seq(Chars), c \in Kanji : s = Append(k, c) \o o
  BY <1>1, LastKanjiSplits
<1>. HIDE DEF o
<1>4. c \in Chars /\ Append(k, c) \in Seq(Chars) /\ Len(Append(k, c)) = Len(k) + 1
      /\ Append(k, c)[Len(k) + 1] = c /\ Len(k) \in Nat /\ Len(o) \in Nat
  <2>1. c \in Chars
    BY CharsAssumption
  <2>. QED
    BY <1>2, <2>1, AppendProperties
<1>5. Width[c] = 3
  <2>. DEFINE d == Append(k, c)
  <2>1. /\ Len(d \o o) = Len(d) + Len(o) /\ d \o o \in Seq(Chars)
        /\ \A i \in 1 .. Len(d) + Len(o) : (d \o o)[i] = IF i <= Len(d) THEN d[i] ELSE o[i - Len(d)]
    BY <1>2, <1>4, ConcatProperties
  <2>. HIDE DEF d
  <2>2. Len(d) \in 1 .. Len(d) + Len(o) /\ Len(d) = Len(k) + 1 /\ d[Len(k) + 1] = c
    BY <1>4 DEF d
  <2>3. s[Len(d)] = c /\ Len(d) \in DOMAIN s
    <3>1. DOMAIN (d \o o) = 1 .. Len(d) + Len(o)
      BY <2>1
    <3>. QED
      BY <1>3, <2>1, <2>2, <3>1 DEF d
  <2>4. Width[c] < 4
    BY <1>1, <2>3 DEF UpToThreeBytes
  <2>. QED
    BY <2>4, CharsAssumption
<1>. DEFINE x == Utf8(Append(k, c))
            y == Utf8(o)
<1>6. b = x \o y /\ x \in Seq(Bytes) /\ y \in Seq(Bytes)
  BY <1>2, <1>3, <1>4, Utf8Joined, Utf8Of
<1>7. OkuriStart(b) = Len(x)
  BY <1>2, <1>5, <1>6, OkuriganaStart
<1>8. PlainKana(o)
  BY <1>1 DEF PlainKana, AllOfThreeBytes
<1>9. PICK q \in Seq(Chars) : q # <<>> /\ r = q \o o
  BY <1>1, <1>2, SuffixSplits
<1>10. /\ m = Morae(q) \o CharsOf(o) /\ Pieces(y) = CharsOf(o)
       /\ Morae(q) \in Seq(Seq(Bytes)) /\ Morae(q) # <<>>
       /\ CharsOf(o) \in Seq(Seq(Bytes)) /\ Len(CharsOf(o)) = Len(o) /\ FlattenSeq(CharsOf(o)) = y
  BY <1>2, <1>8, <1>9, MoraeOfKana, MoraeShape, Utf8Of
<1>. HIDE DEF b, m, x, y
<1>11. SubSeq(b, 1, OkuriStart(b)) = x /\ SubSeq(b, OkuriStart(b) + 1, Len(b)) = y
  BY <1>6, <1>7, CutWhereJoined
<1>12. Beats(b, m) = Len(o) /\ Len(m) - Beats(b, m) = Len(Morae(q))
  <2>1. Len(m) = Len(Morae(q)) + Len(o) /\ Len(Morae(q)) \in Nat /\ Len(Morae(q)) > 0
    <3>1. Len(Morae(q)) \in Nat /\ Len(Morae(q)) > 0
      BY <1>10
    <3>2. Len(Morae(q) \o CharsOf(o)) = Len(Morae(q)) + Len(CharsOf(o))
      BY <1>10, ConcatProperties
    <3>. QED
      BY <1>10, <3>1, <3>2
  <2>2. Beats(b, m) = OkuriMora(Len(o), Len(m))
    BY <1>10, <1>11 DEF Beats
  <2>. QED
    BY <1>4, <2>1, <2>2 DEF OkuriMora
<1>13. TailBeats(b, m) = CharsOf(o)
  BY <1>10, <1>12, CutWhereJoined DEF TailBeats
<1>. QED
  BY <1>6, <1>10, <1>11, <1>12, <1>13 DEF b, m, o

\* The units of a word without kanji cut at its beats: they show the word, and
\* speak it as it is read if readings are given wherever they differ, or if
\* there is no difference.
LEMMA MoraByMora ==
  ASSUME NEW s \in Seq(Chars), NEW r \in Seq(Chars), Len(Morae(s)) = Len(Morae(r))
  PROVE  LET w == [surface |-> Utf8(s), reading |-> Utf8(r)]
             units == MoraUnits(w)
         IN  /\ units \in Seq(Unit) /\ Len(units) = Len(Morae(s)) /\ Shown(units) = Utf8(s)
             /\ HasKata(w) \/ s = r => Spoken(units) = Utf8(r)
<1>. DEFINE w == [surface |-> Utf8(s), reading |-> Utf8(r)]
            p == Morae(s)
            q == Morae(r)
            unit(i) == [surface |-> p[i],
                        readings |-> IF HasKata(w) /\ p[i] # q[i] THEN <<q[i]>> ELSE <<>>]
            units == MoraUnits(w)
            C == Seq(Bytes)
<1>1. p \in Seq(C) /\ q \in Seq(C) /\ FlattenSeq(p) = Utf8(s) /\ FlattenSeq(q) = Utf8(r)
  BY MoraeShape
<1>2. units = [i \in DOMAIN p |-> unit(i)]
  <2>1. w.surface = Utf8(s) /\ w.reading = Utf8(r)
    OBVIOUS
  <2>. HIDE DEF w
  <2>. QED
    BY <2>1 DEF MoraUnits, Morae
<1>. HIDE DEF p, q, w
<1>3. /\ Len(p) \in Nat /\ DOMAIN p = 1 .. Len(p) /\ Len(q) = Len(p) /\ DOMAIN q = 1 .. Len(p)
      /\ \A i \in 1 .. Len(p) : p[i] \in C /\ q[i] \in C
  <2>1. Len(q) = Len(p)
    BY DEF p, q
  <2>. QED
    BY <1>1, <2>1
<1>4. ASSUME NEW i \in 1 .. Len(p)
      PROVE  unit(i) \in Unit /\ unit(i).surface = p[i]
  <2>1. p[i] \in C /\ <<q[i]>> \in Seq(C) /\ <<>> \in Seq(C)
    BY <1>3
  <2>. QED
    BY <2>1 DEF Unit
<1>5. units \in Seq(Unit) /\ Len(units) = Len(p) /\ DOMAIN units = 1 .. Len(p)
      /\ \A i \in 1 .. Len(p) : units[i] = unit(i)
  <2>. HIDE DEF unit, units
  <2>1. units = [i \in 1 .. Len(p) |-> unit(i)]
    BY <1>2, <1>3
  <2>. QED
    BY <1>3, <1>4, <2>1
<1>6. Shown(units) = Utf8(s)
  <2>1. ShownOf(units) = [i \in 1 .. Len(p) |-> p[i]]
    <3>. HIDE DEF unit, units
    <3>. QED
      BY <1>4, <1>5 DEF ShownOf
  <2>2. p = [i \in 1 .. Len(p) |-> p[i]]
    BY <1>1, <1>3
  <2>. QED
    BY <1>1, <2>1, <2>2, ShownSpoken
<1>7. ASSUME HasKata(w) \/ s = r PROVE Spoken(units) = Utf8(r)
  <2>. DEFINE v(i) == IF units[i].readings = <<>> THEN units[i].surface ELSE Concat(units[i].readings)
  <2>1. ASSUME NEW i \in 1 .. Len(p) PROVE v(i) = q[i]
    <3>1. units[i].surface = p[i]
      BY <1>4, <1>5
    <3>2. CASE HasKata(w) /\ p[i] # q[i]
      <4>1. unit(i).readings = <<q[i]>>
        BY <3>2
      <4>2. units[i].readings = <<q[i]>>
        <5>. HIDE DEF unit, units
        <5>. QED
          BY <1>5, <4>1
      <4>3. Concat(<<q[i]>>) = q[i] /\ <<q[i]>> # <<>>
        BY <1>3, FlattenOne DEF Concat, C
      <4>. HIDE DEF units
      <4>. QED
        BY <4>2, <4>3
    <3>3. CASE ~(HasKata(w) /\ p[i] # q[i])
      <4>1. unit(i).readings = <<>>
        BY <3>3
      <4>2. units[i].readings = <<>>
        <5>. HIDE DEF unit, units
        <5>. QED
          BY <1>5, <4>1
      <4>3. p[i] = q[i]
        BY <1>7, <3>3 DEF p, q
      <4>. HIDE DEF units
      <4>. QED
        BY <3>1, <4>2, <4>3
    <3>. QED
      BY <3>2, <3>3
  <2>2. SpokenOf(units) = [i \in 1 .. Len(p) |-> v(i)]
    <3>. HIDE DEF units
    <3>. QED
      BY <1>5 DEF SpokenOf
  <2>. HIDE DEF v, units
  <2>3. SpokenOf(units) = [i \in 1 .. Len(p) |-> q[i]]
    BY <2>1, <2>2
  <2>4. q = [i \in 1 .. Len(p) |-> q[i]]
    BY <1>1, <1>3
  <2>. QED
    BY <1>1, <2>3, <2>4, ShownSpoken
<1>. QED
  BY <1>5, <1>6, <1>7 DEF p, w

\* A word without kanji that stays whole is shown as written and spoken as it
\* is read.
LEMMA WholeWord ==
  ASSUME NEW s \in Seq(Chars), NEW r \in Seq(Chars), r # <<>>
  PROVE  LET w == [surface |-> Utf8(s), reading |-> Utf8(r)]
             units == WholeUnit(w)
         IN  /\ units \in Seq(Unit) /\ Len(units) = 1
             /\ Shown(units) = Utf8(s) /\ Spoken(units) = Utf8(r)
             /\ Utf8(s) # Utf8(r) => units[1].readings = Morae(r)
<1>. DEFINE w == [surface |-> Utf8(s), reading |-> Utf8(r)]
            units == WholeUnit(w)
            g == IF HasKata(w) \/ Utf8(s) # Utf8(r) THEN Morae(r) ELSE <<>>
            u == [surface |-> Utf8(s), readings |-> g]
            C == Seq(Bytes)
<1>1. Morae(r) \in Seq(C) /\ FlattenSeq(Morae(r)) = Utf8(r) /\ Morae(r) # <<>>
  BY MoraeShape
<1>2. Utf8(s) \in C /\ Utf8(r) \in C
  BY Utf8Of
<1>3. units = <<u>>
  <2>1. w.surface = Utf8(s) /\ w.reading = Utf8(r)
    OBVIOUS
  <2>. HIDE DEF w
  <2>. QED
    BY <2>1 DEF WholeUnit, Morae
<1>4. u.surface = Utf8(s) /\ u.readings = g /\ g \in Seq(C)
  <2>1. <<>> \in Seq(C)
    BY EmptySeq
  <2>. QED
    BY <1>1, <2>1
<1>5. u \in Unit
  BY <1>2, <1>4 DEF Unit
<1>. HIDE DEF u, units
<1>6. units \in Seq(Unit) /\ Len(units) = 1 /\ units[1] = u /\ DOMAIN units = {1}
  BY <1>3, <1>5
<1>. DEFINE v == IF u.readings = <<>> THEN u.surface ELSE Concat(u.readings)
<1>7. v = Utf8(r)
  BY <1>1, <1>4 DEF Concat
<1>. HIDE DEF v
<1>8. ShownOf(units) = <<Utf8(s)>> /\ SpokenOf(units) = <<v>>
  <2>1. ShownOf(units) = [i \in {1} |-> u.surface]
    BY <1>6 DEF ShownOf
  <2>2. SpokenOf(units) = [i \in {1} |-> v]
    BY <1>6 DEF SpokenOf, v
  <2>3. \A e : <<e>> = [i \in {1} |-> e]
    <3>. SUFFICES ASSUME NEW e PROVE <<e>> = [i \in {1} |-> e]
      OBVIOUS
    <3>1. <<e>> = [i \in 1 .. 1 |-> e]
      OBVIOUS
    <3>2. 1 .. 1 = {1}
      OBVIOUS
    <3>. QED
      BY <3>1, <3>2
  <2>. QED
    BY <1>4, <2>1, <2>2, <2>3
<1>9. FlattenSeq(<<Utf8(s)>>) = Utf8(s) /\ FlattenSeq(<<v>>) = v
  BY <1>2, <1>7, FlattenOne DEF C
<1>10. Shown(units) = Utf8(s) /\ Spoken(units) = Utf8(r)
  BY <1>7, <1>8, <1>9, ShownSpoken
<1>11. Utf8(s) # Utf8(r) => units[1].readings = Morae(r)
  BY <1>4, <1>6
<1>. QED
  BY <1>6, <1>10, <1>11 DEF units, w

\* Where a text is made of characters of three bytes they start at every third
\* byte, where HasKata looks for katakana.
LEMMA EveryThirdByte ==
  ASSUME NEW t \in Seq(Chars), AllOfThreeBytes(t)
  PROVE  /\ Len(Utf8(t)) = 3 * Len(t)
         /\ \A j \in 1 .. Len(t) : Utf8(t)[3 * (j - 1) + 1] = <<t[j], 1>>
<1>. DEFINE Holds(s) == /\ Len(Utf8(s)) = 3 * Len(s)
                        /\ \A j \in 1 .. Len(s) : Utf8(s)[3 * (j - 1) + 1] = <<s[j], 1>>
            H == {s \in Seq(Chars) : AllOfThreeBytes(s) => Holds(s)}
<1>1. <<>> \in H
  <2>1. <<>> \in Seq(Chars) /\ Utf8(<<>>) = <<>> /\ Len(<<>>) = 0
    BY EmptySeq, Utf8Of
  <2>. QED
    BY <2>1
<1>2. ASSUME NEW s \in Seq(Chars), NEW c \in Chars, s \in H PROVE Append(s, c) \in H
  <2>. DEFINE u == Append(s, c)
              b == Utf8(s)
              d == Char(c)
  <2>1. /\ u \in Seq(Chars) /\ Len(u) = Len(s) + 1 /\ u[Len(s) + 1] = c /\ Len(s) \in Nat
        /\ (\A i \in 1 .. Len(s) : u[i] = s[i]) /\ DOMAIN u = 1 .. Len(s) + 1 /\ DOMAIN s = 1 .. Len(s)
    BY AppendProperties
  <2>2. Utf8(u) = b \o d /\ b \in Seq(Bytes) /\ d \in Seq(Bytes) /\ Len(d) = Width[c]
        /\ \A k \in 1 .. Width[c] : d[k] = <<c, k>>
    BY Utf8Grows, Utf8Of, BytesOfChar
  <2>. HIDE DEF u, b, d
  <2>3. SUFFICES ASSUME AllOfThreeBytes(u) PROVE Holds(u)
    BY <2>1 DEF u
  <2>4. Width[c] = 3 /\ AllOfThreeBytes(s)
    <3>1. \A i \in 1 .. Len(s) + 1 : Width[u[i]] = 3
      BY <2>1, <2>3 DEF AllOfThreeBytes
    <3>2. Len(s) + 1 \in 1 .. Len(s) + 1 /\ \A i \in 1 .. Len(s) : i \in 1 .. Len(s) + 1
      BY <2>1
    <3>. QED
      BY <2>1, <3>1, <3>2 DEF AllOfThreeBytes
  <2>5. Len(b) = 3 * Len(s) /\ \A j \in 1 .. Len(s) : b[3 * (j - 1) + 1] = <<s[j], 1>>
    BY <1>2, <2>4 DEF b
  <2>6. /\ Len(b \o d) = Len(b) + Len(d)
        /\ \A i \in 1 .. Len(b) + Len(d) : (b \o d)[i] = IF i <= Len(b) THEN b[i] ELSE d[i - Len(b)]
    BY <2>2, ConcatProperties
  <2>7. Len(Utf8(u)) = 3 * Len(u)
    BY <2>1, <2>2, <2>4, <2>5, <2>6
  <2>8. ASSUME NEW j \in 1 .. Len(u) PROVE Utf8(u)[3 * (j - 1) + 1] = <<u[j], 1>>
    <3>1. CASE j \in 1 .. Len(s)
      <4>1. 3 * (j - 1) + 1 \in 1 .. Len(b) + Len(d) /\ 3 * (j - 1) + 1 <= Len(b)
        BY <2>1, <2>2, <2>4, <2>5, <3>1
      <4>. QED
        BY <2>1, <2>2, <2>5, <2>6, <3>1, <4>1
    <3>2. CASE j = Len(s) + 1
      <4>1. /\ 3 * (j - 1) + 1 \in 1 .. Len(b) + Len(d) /\ ~(3 * (j - 1) + 1 <= Len(b))
            /\ (3 * (j - 1) + 1) - Len(b) = 1 /\ 1 \in 1 .. Width[c]
        BY <2>1, <2>2, <2>4, <2>5, <3>2
      <4>. QED
        BY <2>1, <2>2, <2>6, <3>2, <4>1
    <3>. QED
      BY <2>1, <3>1, <3>2
  <2>. QED
    BY <2>7, <2>8
<1>3. \A s \in Seq(Chars) : s \in H
  <2>. HIDE DEF H
  <2>. QED
    BY <1>1, <1>2, GrowingInduction
<1>. QED
  BY <1>3

LEMMA KatakanaSeen ==
  ASSUME NEW s \in Seq(Chars), NEW r, AllOfThreeBytes(s), Annotated([surface |-> s, reading |-> r])
  PROVE  \A e : HasKata([surface |-> Utf8(s), reading |-> e])
<1>. DEFINE n == Len(s)
<1>1. annotateKatakana /\ \E i \in DOMAIN s : s[i] \in Katakana
  BY DEF Annotated
<1>2. PICK j \in 1 .. n : s[j] \in Katakana
  BY <1>1
<1>3. n \in Nat /\ Len(Utf8(s)) = 3 * n /\ Utf8(s)[3 * (j - 1) + 1] = <<s[j], 1>>
  BY EveryThirdByte
<1>. DEFINE i == 3 * (j - 1) + 1
<1>. HIDE DEF n
<1>4. i \in 1 .. Len(Utf8(s)) - 2 /\ i % 3 = 1
  <2>1. Len(Utf8(s)) - 2 = 3 * n - 2 /\ 3 * (j - 1) + 1 \in 1 .. 3 * n - 2
    BY <1>2, <1>3
  <2>2. (3 * (j - 1) + 1) % 3 = 1
    BY <1>2, <1>3
  <2>. QED
    BY <2>1, <2>2
<1>5. DecodesTo(Utf8(s)[i], Katakana)
  BY <1>2, <1>3 DEF DecodesTo
<1>. HIDE DEF i
<1>. QED
  BY <1>1, <1>4, <1>5 DEF HasKata
-----------------------------------------------------------------------------
(* The steps of analyzeRuby *)

RubyInv ==
  /\ result \in Texts
  /\ at \in Nat
  /\ rubyResult \in Seq(Unit)

\* The characters of the word that is turned into units.
LEMMA WordTurned ==
  ASSUME RubyInv, at < Len(result)
  PROVE  /\ Turned = [surface |-> Turned.surface, reading |-> Turned.reading]
         /\ Turned.surface \in Seq(Chars) /\ Turned.reading \in Seq(Chars) /\ Turned.reading # <<>>
         /\ Word = [surface |-> Utf8(Turned.surface), reading |-> Utf8(Turned.reading)]
         /\ HasKanji(Word.surface) <=> HasKanjiChar(Turned.surface)
<1>. DEFINE R == [surface : Seq(Chars), reading : Seq(Chars) \ {<<>>}]
<1>1. result \in Seq(R) /\ at + 1 \in 1 .. Len(result)
  <2>1. result \in Seq(R)
    BY TextsAssumption DEF RubyInv
  <2>. HIDE DEF R
  <2>2. Len(result) \in Nat /\ at \in Nat
    BY <2>1 DEF RubyInv
  <2>. QED
    BY <2>1, <2>2
<1>2. Turned \in R
  <2>. HIDE DEF R
  <2>. QED
    BY <1>1 DEF Turned
<1>3. Word = [surface |-> Utf8(Turned.surface), reading |-> Utf8(Turned.reading)]
  BY DEF Word, Turned
<1>4. Turned.surface \in Seq(Chars)
  BY <1>2
<1>5. HasKanji(Word.surface) <=> HasKanjiChar(Turned.surface)
  <2>1. Word.surface = Utf8(Turned.surface)
    BY <1>3
  <2>. QED
    BY <1>4, <2>1, KanjiSeen
<1>. QED
  BY <1>2, <1>3, <1>5

\* A step adds the units of one word.
LEMMA NewAre ==
  ASSUME RubyInv, NEW units \in Seq(Unit), Emit(units)
  PROVE  New = units /\ RubyInv'
<1>1. rubyResult \in Seq(Unit) /\ rubyResult' = rubyResult \o units
  BY DEF RubyInv, Emit
<1>2. SubSeq(rubyResult \o units, Len(rubyResult) + 1, Len(rubyResult \o units)) = units
  BY <1>1, CutWhereJoined
<1>3. New = units
  BY <1>1, <1>2 DEF New
<1>4. rubyResult' \in Seq(Unit)
  BY <1>1, ConcatProperties
<1>. QED
  BY <1>3, <1>4 DEF RubyInv, Emit

\* What the units of a step are, by the word.
Dealt(w) ==
  (\/ HasKanjiChar(w.surface)
   \/ Annotated(w) /\ AllOfThreeBytes(w.surface)
   \/ w.surface = w.reading)
  => Spoken(New) = Utf8(w.reading)
Separated(w) ==
  /\ PlainOkurigana(w) =>
       /\ Shown(New) = Utf8(w.surface) /\ Len(New) = 1 + Len(Okurigana(w.surface))
       /\ \A i \in 2 .. Len(New) : New[i].readings = <<>>
  /\ ~HasKanjiChar(w.surface) => Shown(New) = Utf8(w.surface)
Beaten(w) ==
  Countable(w.surface) /\ Countable(w.reading) =>
    IF HasKanjiChar(w.surface)
    THEN Len(New) - 1 + Len(New[1].readings) = MoraCount(w.reading)
    ELSE IF MoraCount(w.surface) = MoraCount(w.reading)
    THEN Len(New) = MoraCount(w.reading)
    ELSE Annotated(w) => Len(New[1].readings) = MoraCount(w.reading)

LEMMA KanjiStep ==
  ASSUME RubyInv, at < Len(result), KanjiWord
  PROVE  RubyInv' /\ Dealt(Turned) /\ Separated(Turned) /\ Beaten(Turned)
<1>. DEFINE w == Turned
            s == w.surface
            r == w.reading
            b == Utf8(s)
            m == Morae(r)
            units == KanjiUnits([surface |-> b, reading |-> Utf8(r)])
<1>1. /\ w = [surface |-> s, reading |-> r] /\ s \in Seq(Chars) /\ r \in Seq(Chars) /\ r # <<>>
      /\ Word = [surface |-> b, reading |-> Utf8(r)]
      /\ HasKanji(Word.surface) <=> HasKanjiChar(s)
  BY WordTurned
<1>2. HasKanjiChar(s) /\ Emit(units)
  BY <1>1 DEF KanjiWord
<1>. HIDE DEF w, s, r
<1>3. b \in Seq(Bytes)
  BY <1>1, Utf8Of
<1>4. /\ units \in Seq(Unit) /\ Len(units) = 1 + Beats(b, m)
      /\ Len(units) - 1 + Len(units[1].readings) = Len(m)
      /\ \A i \in 2 .. Len(units) : units[i].readings = <<>>
      /\ Shown(units) = SubSeq(b, 1, OkuriStart(b)) \o FlattenSeq(TailBeats(b, m))
      /\ Spoken(units) = Utf8(r)
  BY <1>1, <1>3, KanjiDealt
<1>. HIDE DEF units
<1>5. New = units /\ RubyInv'
  BY <1>2, <1>4, NewAre
<1>6. Dealt(w)
  BY <1>4, <1>5 DEF Dealt, r
<1>7. Separated(w)
  <2>1. ASSUME PlainOkurigana(w)
        PROVE  /\ Shown(units) = b /\ Len(units) = 1 + Len(Okurigana(s))
    <3>1. PlainOkurigana([surface |-> s, reading |-> r])
      BY <1>1, <2>1
    <3>2. Beats(b, m) = Len(Okurigana(s)) /\ SubSeq(b, 1, OkuriStart(b)) \o FlattenSeq(TailBeats(b, m)) = b
      BY <1>1, <3>1, PlainCut
    <3>. QED
      BY <1>4, <3>2
  <2>. QED
    BY <1>2, <1>4, <1>5, <2>1 DEF Separated, s
<1>8. Beaten(w)
  <2>1. ASSUME Countable(r) PROVE Len(m) = MoraCount(r)
    BY <1>1, <2>1, MoraeCounted DEF Countable
  <2>. QED
    BY <1>2, <1>4, <1>5, <2>1 DEF Beaten, s, r
<1>. QED
  BY <1>5, <1>6, <1>7, <1>8 DEF w

LEMMA KanaStep ==
  ASSUME RubyInv, at < Len(result), KanaByMora \/ KanaWhole
  PROVE  RubyInv' /\ Dealt(Turned) /\ Separated(Turned) /\ Beaten(Turned)
<1>. DEFINE w == Turned
            s == w.surface
            r == w.reading
            e == [surface |-> Utf8(s), reading |-> Utf8(r)]
<1>1. /\ w = [surface |-> s, reading |-> r] /\ s \in Seq(Chars) /\ r \in Seq(Chars) /\ r # <<>>
      /\ Word = e
      /\ HasKanji(Word.surface) <=> HasKanjiChar(s)
  BY WordTurned
<1>2. ~HasKanjiChar(s)
  BY <1>1 DEF KanaByMora, KanaWhole
<1>3. Aligned(e) <=> Len(Morae(s)) = Len(Morae(r)) /\ Len(Morae(s)) > 1
  <2>1. e.surface = Utf8(s) /\ e.reading = Utf8(r)
    OBVIOUS
  <2>. HIDE DEF e
  <2>. QED
    BY <2>1 DEF Aligned, Morae
<1>4. /\ Countable(s) => Len(Morae(s)) = MoraCount(s)
      /\ Countable(r) => Len(Morae(r)) = MoraCount(r)
  BY <1>1, MoraeCounted DEF Countable
<1>5. \/ Aligned(e) /\ Emit(MoraUnits(e))
      \/ ~Aligned(e) /\ Emit(WholeUnit(e))
  BY <1>1 DEF KanaByMora, KanaWhole
<1>. HIDE DEF w, s, r
<1>6. CASE Aligned(e) /\ Emit(MoraUnits(e))
  <2>. DEFINE units == MoraUnits(e)
  <2>1. /\ units \in Seq(Unit) /\ Len(units) = Len(Morae(s)) /\ Shown(units) = Utf8(s)
        /\ HasKata(e) \/ s = r => Spoken(units) = Utf8(r)
    BY <1>1, <1>3, <1>6, MoraByMora
  <2>2. Annotated(w) /\ AllOfThreeBytes(s) => HasKata(e)
    BY <1>1, KatakanaSeen
  <2>. HIDE DEF units, e
  <2>3. New = units /\ RubyInv'
    BY <1>6, <2>1, NewAre DEF units
  <2>4. Dealt(w)
    BY <1>2, <2>1, <2>2, <2>3 DEF Dealt, s, r
  <2>5. Separated(w)
    BY <1>2, <2>1, <2>3 DEF Separated, PlainOkurigana, s
  <2>6. Beaten(w)
    BY <1>2, <1>3, <1>4, <1>6, <2>1, <2>3 DEF Beaten, s, r
  <2>. QED
    BY <2>3, <2>4, <2>5, <2>6 DEF w
<1>7. CASE ~Aligned(e) /\ Emit(WholeUnit(e))
  <2>. DEFINE units == WholeUnit(e)
  <2>1. /\ units \in Seq(Unit) /\ Len(units) = 1
        /\ Shown(units) = Utf8(s) /\ Spoken(units) = Utf8(r)
        /\ Utf8(s) # Utf8(r) => units[1].readings = Morae(r)
    BY <1>1, WholeWord
  <2>2. Len(Morae(s)) \in Nat /\ Len(Morae(r)) \in Nat /\ Len(Morae(r)) > 0
    <3>1. Morae(s) \in Seq(Seq(Bytes)) /\ Morae(r) \in Seq(Seq(Bytes)) /\ Morae(r) # <<>>
      BY <1>1, MoraeShape
    <3>. QED
      BY <3>1
  <2>3. Utf8(s) = Utf8(r) => Len(Morae(s)) = Len(Morae(r))
    BY DEF Morae
  <2>. HIDE DEF units, e
  <2>4. New = units /\ RubyInv'
    BY <1>7, <2>1, NewAre DEF units
  <2>5. Dealt(w)
    BY <2>1, <2>4 DEF Dealt, r
  <2>6. Separated(w)
    BY <1>2, <2>1, <2>4 DEF Separated, PlainOkurigana, s
  <2>7. Beaten(w)
    <3>1. SUFFICES ASSUME Countable(s), Countable(r)
                   PROVE  /\ MoraCount(s) = MoraCount(r) => Len(units) = MoraCount(r)
                          /\ MoraCount(s) # MoraCount(r) => Len(units[1].readings) = MoraCount(r)
      BY <1>2, <2>4 DEF Beaten, s, r
    <3>2. Len(Morae(s)) = MoraCount(s) /\ Len(Morae(r)) = MoraCount(r)
      BY <1>4, <3>1
    <3>3. CASE MoraCount(s) = MoraCount(r)
      BY <1>3, <1>7, <2>1, <2>2, <3>2, <3>3
    <3>4. CASE MoraCount(s) # MoraCount(r)
      BY <2>1, <2>3, <3>2, <3>4
    <3>. QED
      BY <3>3, <3>4
  <2>. QED
    BY <2>4, <2>5, <2>6, <2>7 DEF w
<1>. QED
  BY <1>5, <1>6, <1>7

LEMMA InitInv == Init => RubyInv
BY DEF Init, RubyInv

LEMMA StepInv == RubyInv /\ [Next]_vars => RubyInv'
<1>. SUFFICES ASSUME RubyInv, [Next]_vars PROVE RubyInv'
  OBVIOUS
<1>1. CASE Next
  BY <1>1, KanjiStep, KanaStep DEF Next
<1>2. CASE UNCHANGED vars
  BY <1>2 DEF RubyInv, vars
<1>. QED
  BY <1>1, <1>2

LEMMA StepDeals ==
  RubyInv /\ Next => Dealt(Turned) /\ Separated(Turned) /\ Beaten(Turned)
BY KanjiStep, KanaStep DEF Next

LEMMA Ruby == Spec => []RubyInv
BY InitInv, StepInv, PTL DEF Spec

\* analyzeRuby, jumanlrc_lib.cc:298: whatever the characters and the words of
\* the dictionary, the reading of a word with kanji is dealt out completely
\* between the kanji and the okurigana, a katakana word of characters of three
\* bytes is spoken as it is read where readings are asked for, and a word read
\* as it is written is spoken so.
THEOREM AllReadingsDealtOut == Spec => ReadingDealtOut
<1>1. RubyInv /\ [Next]_vars =>
        [(\/ HasKanjiChar(Turned.surface)
          \/ Annotated(Turned) /\ AllOfThreeBytes(Turned.surface)
          \/ Turned.surface = Turned.reading)
         => Spoken(New) = Utf8(Turned.reading)]_vars
  BY StepDeals DEF Dealt
<1>. QED
  BY <1>1, Ruby, PTL DEF Spec, ReadingDealtOut

\* analyzeRuby, README "okurigana: separated": whatever the characters and the
\* words, plain okurigana stands under its kanji as it is written, one unit a
\* character, and a word without kanji is shown as it is written.
THEOREM OkuriganaStandsApart == Spec => OkuriganaSeparated
<1>1. RubyInv /\ [Next]_vars =>
        [/\ PlainOkurigana(Turned) =>
              /\ Shown(New) = Utf8(Turned.surface)
              /\ Len(New) = 1 + Len(Okurigana(Turned.surface))
              /\ \A i \in 2 .. Len(New) : New[i].readings = <<>>
         /\ ~HasKanjiChar(Turned.surface) => Shown(New) = Utf8(Turned.surface)]_vars
  BY StepDeals DEF Separated
<1>. QED
  BY <1>1, Ruby, PTL DEF Spec, OkuriganaSeparated

\* splitIntoMora, jumanlrc_lib.cc:242: whatever the characters and the words, a
\* word with kanji has one beat for each mora of its reading, and so has any
\* other word of as many morae as it is read with, and a katakana word that is
\* to be annotated; texts with a long vowel mark or cut characters aside.
THEOREM EveryBeatAMora == Spec => BeatsAreMorae
<1>1. RubyInv /\ [Next]_vars =>
        [Countable(Turned.surface) /\ Countable(Turned.reading) =>
           IF HasKanjiChar(Turned.surface)
           THEN Len(New) - 1 + Len(New[1].readings) = MoraCount(Turned.reading)
           ELSE IF MoraCount(Turned.surface) = MoraCount(Turned.reading)
           THEN Len(New) = MoraCount(Turned.reading)
           ELSE Annotated(Turned) => Len(New[1].readings) = MoraCount(Turned.reading)]_vars
  BY StepDeals DEF Beaten
<1>. QED
  BY <1>1, Ruby, PTL DEF Spec, BeatsAreMorae
=============================================================================
