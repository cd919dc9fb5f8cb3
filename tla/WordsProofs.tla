----------------------------- MODULE WordsProofs -----------------------------
(***************************************************************************)
(* Proofs about words.  First about the arena, for every page size and all *)
(* requests and then as the words of a sentence use it: what holds for any *)
(* requests holds of the nodes of unknown words, whose size follows from   *)
(* the dictionary that was loaded.  Then about the one walker that reads   *)
(* words and nodes: wherever it was before, it tells what a new one tells. *)
(***************************************************************************)
EXTENDS Words, CommonLemmas, TLAPS

-----------------------------------------------------------------------------
(* The arena by itself *)

\* Rounding up does not go back.
LEMMA AlignUp ==
  ASSUME NEW val \in Nat, NEW alignment \in Nat \ {0}
  PROVE  Align(val, alignment) \in Nat /\ Align(val, alignment) >= val
<1> DEFINE d == val \div alignment
           r == val % alignment
<1>1. d \in Nat /\ r \in 0 .. alignment - 1 /\ val = alignment * d + r
  OBVIOUS
<1>2. d * alignment = alignment * d /\ d * alignment \in Nat
  BY <1>1
<1> QED
  BY <1>1, <1>2 DEF Align

Managers == [currentPage : Nat, pages : Nat]
Pools == [base : Nat, offset : Nat, end : Nat]
Objects == [page : Nat, from : Nat, to : Nat]

\* The page the pool holds is the last one that objects of this sentence are
\* in, and they end before the place where the next one goes.
PagesOrdered ==
  /\ pool.offset <= pool.end /\ pool.end <= PageSize
  /\ pool.base <= mgr.currentPage /\ (pool.base = 0 => pool.end = 0)
  /\ \A i \in DOMAIN live :
       /\ live[i].from <= live[i].to /\ live[i].to <= PageSize
       /\ live[i].page <= pool.base
       /\ live[i].page = pool.base => live[i].to <= pool.offset
       /\ live[i].page = 0 => live[i].from = live[i].to

IInv ==
  /\ mgr \in Managers /\ pool \in Pools /\ live \in Seq(Objects)
  /\ mgr.currentPage <= mgr.pages
  /\ PagesOrdered
  /\ NoOverlap

\* The new object is the last of the sequence and the others are as before.
LEMMA Appended ==
  ASSUME NEW s \in Seq(Objects), NEW o \in Objects
  PROVE  /\ Append(s, o) \in Seq(Objects)
         /\ \A i \in DOMAIN Append(s, o) :
              (i \in DOMAIN s /\ Append(s, o)[i] = s[i]) \/ (i = Len(s) + 1 /\ Append(s, o)[i] = o)
  OBVIOUS

LEMMA InitInv == ArenaInit => IInv
  BY PageAssumption DEF ArenaInit, IInv, Managers, Pools, Objects, PagesOrdered, NoOverlap

\* An object behind all those of its page keeps them apart.
LEMMA BehindAll ==
  ASSUME NEW s \in Seq(Objects), NEW o \in Objects,
         \A i, j \in DOMAIN s :
           i # j => s[i].page # s[j].page \/ s[i].to <= s[j].from \/ s[j].to <= s[i].from,
         \A i \in DOMAIN s : s[i].page # o.page \/ s[i].to <= o.from
  PROVE  \A i, j \in DOMAIN Append(s, o) :
           i # j => \/ Append(s, o)[i].page # Append(s, o)[j].page
                    \/ Append(s, o)[i].to <= Append(s, o)[j].from
                    \/ Append(s, o)[j].to <= Append(s, o)[i].from
<1> SUFFICES ASSUME NEW i \in DOMAIN Append(s, o), NEW j \in DOMAIN Append(s, o), i # j
             PROVE  \/ Append(s, o)[i].page # Append(s, o)[j].page
                    \/ Append(s, o)[i].to <= Append(s, o)[j].from
                    \/ Append(s, o)[j].to <= Append(s, o)[i].from
  OBVIOUS
<1>1. (i \in DOMAIN s /\ Append(s, o)[i] = s[i]) \/ (i = Len(s) + 1 /\ Append(s, o)[i] = o)
  BY Appended
<1>2. (j \in DOMAIN s /\ Append(s, o)[j] = s[j]) \/ (j = Len(s) + 1 /\ Append(s, o)[j] = o)
  BY Appended
<1> QED
  BY <1>1, <1>2

LEMMA PlaceInv ==
  ASSUME IInv, NEW size \in Nat, NEW align \in Nat \ {0}, Place(size, align)
  PROVE  IInv'
<1> DEFINE address == Align(pool.offset, align)
           o == [page |-> pool.base, from |-> address, to |-> address + size]
<1>1. address \in Nat /\ address >= pool.offset
  BY AlignUp DEF IInv, Pools
<1> HIDE DEF address
<1>2. /\ address + size <= pool.end /\ live' = Append(live, o) /\ mgr' = mgr
      /\ pool' = [pool EXCEPT !.offset = address + size]
  BY DEF Place, address
<1>3. o \in Objects /\ live \in Seq(Objects)
  BY <1>1 DEF IInv, Pools, Objects
<1>4. mgr' \in Managers /\ pool' \in Pools /\ live' \in Seq(Objects)
  <2>1. mgr' \in Managers /\ pool' \in Pools
    BY <1>1, <1>2 DEF IInv, Pools
  <2> QED
    BY <2>1, <1>2, <1>3, Appended
<1>5. PagesOrdered'
  <2>1. /\ pool'.base = pool.base /\ pool'.offset = address + size /\ pool'.end = pool.end
        /\ pool.base \in Nat /\ pool.offset \in Nat /\ pool.end \in Nat
    BY <1>2 DEF IInv, Pools
  <2>2. ASSUME NEW i \in DOMAIN live'
        PROVE  /\ live'[i].from <= live'[i].to /\ live'[i].to <= PageSize
               /\ live'[i].page <= pool'.base
               /\ live'[i].page = pool'.base => live'[i].to <= pool'.offset
               /\ live'[i].page = 0 => live'[i].from = live'[i].to
    <3>1. CASE i \in DOMAIN live /\ live'[i] = live[i]
      <4>1. live[i] \in Objects
        BY <3>1, <1>3
      <4>2. /\ live[i].from <= live[i].to /\ live[i].to <= PageSize
            /\ live[i].page <= pool.base
            /\ live[i].page = pool.base => live[i].to <= pool.offset
            /\ live[i].page = 0 => live[i].from = live[i].to
        BY <3>1 DEF IInv, PagesOrdered
      <4>3. pool.offset <= address + size /\ live[i].to \in Nat
        BY <4>1, <2>1, <1>1 DEF Objects
      <4> QED
        BY <3>1, <4>2, <4>3, <2>1, <1>1
    <3>2. CASE live'[i] = o
      BY <3>2, <2>1, <1>1, <1>2, PageAssumption DEF IInv, PagesOrdered
    <3> QED
      BY <3>1, <3>2, <1>2, <1>3, Appended
  <2> QED
    BY <2>1, <2>2, <1>2 DEF IInv, PagesOrdered
<1>6. NoOverlap'
  <2>1. \A i \in DOMAIN live : live[i].page # o.page \/ live[i].to <= o.from
    <3> TAKE i \in DOMAIN live
    <3>1. live[i] \in Objects
      BY <1>3
    <3> QED
      BY <3>1, <1>1 DEF IInv, PagesOrdered, Objects, Pools
  <2> QED
    BY <2>1, <1>2, <1>3, BehindAll DEF IInv, NoOverlap
<1> QED
  BY <1>2, <1>4, <1>5, <1>6 DEF IInv

LEMMA SwitchInv ==
  ASSUME IInv, NEW size \in Nat, NEW align \in Nat \ {0}, SwitchToNewPage(size, align)
  PROVE  IInv'
<1>1. /\ mgr' \in Managers /\ mgr'.currentPage = mgr.currentPage + 1
      /\ mgr'.currentPage <= mgr'.pages
  BY DEF SwitchToNewPage, NewPage, IInv, Managers
<1>2. CASE PageSize < size
  <2>1. pool' = pool /\ live' = live
    BY <1>2 DEF SwitchToNewPage
  <2>2. PagesOrdered'
    BY <2>1, <1>1 DEF IInv, PagesOrdered, Managers, Pools
  <2> QED
    BY <1>1, <2>1, <2>2 DEF IInv, NoOverlap
<1>3. CASE ~(PageSize < size)
  <2> DEFINE page == mgr.currentPage + 1
             o == [page |-> page, from |-> 0, to |-> size]
  <2>1. /\ pool' = [base |-> page, offset |-> size, end |-> PageSize]
        /\ live' = Append(live, o)
    BY <1>1, <1>3 DEF SwitchToNewPage
  <2>2. page \in Nat \ {0} /\ pool.base < page /\ size <= PageSize
    BY <1>3, PageAssumption DEF IInv, PagesOrdered, Managers, Pools
  <2> HIDE DEF page
  <2>3. o \in Objects /\ live \in Seq(Objects)
    BY <2>2 DEF IInv, Objects
  <2>4. pool' \in Pools /\ live' \in Seq(Objects)
    BY <2>1, <2>2, <2>3, Appended, PageAssumption DEF Pools
  <2>5. \A i \in DOMAIN live : live[i] \in Objects /\ live[i].page < page
    <3> TAKE i \in DOMAIN live
    <3>1. live[i] \in Objects
      BY <2>3
    <3> QED
      BY <3>1, <2>2 DEF IInv, PagesOrdered, Objects, Pools
  <2>6. PagesOrdered'
    <3>1. ASSUME NEW i \in DOMAIN live'
          PROVE  /\ live'[i].from <= live'[i].to /\ live'[i].to <= PageSize
                 /\ live'[i].page <= pool'.base
                 /\ live'[i].page = pool'.base => live'[i].to <= pool'.offset
                 /\ live'[i].page = 0 => live'[i].from = live'[i].to
      <4>1. CASE i \in DOMAIN live /\ live'[i] = live[i]
        BY <4>1, <2>1, <2>2, <2>5 DEF IInv, PagesOrdered, Objects
      <4>2. CASE live'[i] = o
        BY <4>2, <2>1, <2>2
      <4> QED
        BY <4>1, <4>2, <2>1, <2>3, Appended
    <3>2. pool'.base = mgr'.currentPage
      BY <2>1, <1>1 DEF page
    <3> QED
      BY <3>1, <3>2, <2>1, <2>2, <1>1, PageAssumption DEF PagesOrdered, Managers
  <2>7. NoOverlap'
    <3>1. \A i \in DOMAIN live : live[i].page # o.page \/ live[i].to <= o.from
      BY <2>2, <2>5 DEF Objects
    <3> QED
      BY <3>1, <2>1, <2>3, BehindAll DEF IInv, NoOverlap
  <2> QED
    BY <1>1, <2>4, <2>6, <2>7 DEF IInv
<1> QED
  BY <1>2, <1>3

LEMMA ResetInv == ASSUME IInv, ResetMemory PROVE IInv'
<1>1. /\ mgr' \in Managers /\ mgr'.currentPage = 0 /\ mgr'.pages = mgr.pages
      /\ mgr.pages \in Nat
  BY DEF ResetMemory, IInv, Managers
<1>2. pool' = [base |-> 0, offset |-> 0, end |-> 0] /\ pool' \in Pools /\ live' = <<>>
  BY DEF ResetMemory, ResetPool, Pools
<1>3. live' \in Seq(Objects) /\ DOMAIN live' = {}
  BY <1>2
<1>4. PagesOrdered' /\ NoOverlap'
  BY <1>1, <1>2, <1>3, PageAssumption DEF PagesOrdered, NoOverlap
<1> QED
  BY <1>1, <1>2, <1>3, <1>4 DEF IInv

LEMMA NextInv == IInv /\ [ArenaNext]_arenaVars => IInv'
<1> SUFFICES ASSUME IInv, [ArenaNext]_arenaVars PROVE IInv'
  OBVIOUS
<1>1. CASE \E r \in Requests : AllocateMemory(r.size, r.align)
  <2>1. PICK r \in Requests : AllocateMemory(r.size, r.align)
    BY <1>1
  <2>2. r.size \in Nat /\ r.align \in Nat \ {0}
    BY RequestsAssumption
  <2> QED
    BY <2>1, <2>2, PlaceInv, SwitchInv DEF AllocateMemory
<1>2. CASE ResetMemory
  BY <1>2, ResetInv
<1>3. CASE UNCHANGED arenaVars
  BY <1>3 DEF arenaVars, IInv, PagesOrdered, NoOverlap
<1> QED
  BY <1>1, <1>2, <1>3 DEF ArenaNext

\* Whatever is asked for and whenever a sentence ends, two objects of a
\* sentence never share memory.
THEOREM ObjectsApart == ArenaSpec => []NoOverlap
<1>1. IInv => NoOverlap
  BY DEF IInv
<1> QED
  BY InitInv, NextInv, <1>1, PTL DEF ArenaSpec

LEMMA InvInPages == IInv => InPages
<1> SUFFICES ASSUME IInv PROVE InPages
  OBVIOUS
<1>1. ASSUME NEW i \in DOMAIN live, live[i].from < live[i].to
      PROVE  live[i].page \in 1 .. mgr.currentPage /\ live[i].to <= PageSize
  <2>1. live[i] \in Objects /\ mgr.currentPage \in Nat /\ pool.base \in Nat
    BY DEF IInv, Managers, Pools
  <2>2. live[i].page \in Nat /\ live[i].from \in Nat /\ live[i].to \in Nat
    BY <2>1 DEF Objects
  <2>3. /\ live[i].to <= PageSize /\ live[i].page <= pool.base /\ pool.base <= mgr.currentPage
        /\ live[i].page = 0 => live[i].from = live[i].to
    BY DEF IInv, PagesOrdered
  <2> QED
    BY <1>1, <2>1, <2>2, <2>3
<1> QED
  BY <1>1 DEF IInv, InPages

\* No object reaches behind the end of its page or stands in a page that the
\* sentence was not given.
THEOREM ObjectsInPages == ArenaSpec => []InPages
  BY InitInv, NextInv, InvInPages, PTL DEF ArenaSpec

-----------------------------------------------------------------------------
(* Where the fields of a dictionary stand *)

\* Where a field may stand.
Places(nf, nd) == -nd .. nf - 1

\* A column has as many columns before it as there is room for.
LEMMA RankBelow ==
  ASSUME NEW n \in Nat, NEW S \in SUBSET (1 .. n), NEW x \in S
  PROVE  Cardinality(S) \in Nat /\ Rank(S, x) \in 0 .. Cardinality(S) - 1
<1>1. IsFiniteSet(S) /\ Cardinality(S) \in Nat
  <2>1. IsFiniteSet(1 .. n)
    BY FS_Interval
  <2>2. IsFiniteSet(S)
    BY <2>1, FS_Subset
  <2>. QED
    BY <2>2, FS_CardinalityType
<1>. DEFINE T == {y \in S : y < x}
<1>2. T \subseteq S /\ x \notin T /\ T # S
  OBVIOUS
<1>3. IsFiniteSet(T) /\ Cardinality(T) \in Nat /\ Cardinality(T) < Cardinality(S)
  <2>. HIDE DEF T
  <2>1. IsFiniteSet(T) /\ Cardinality(T) <= Cardinality(S) /\ (Cardinality(S) = Cardinality(T) => S = T)
    BY <1>1, <1>2, FS_Subset
  <2>2. Cardinality(T) \in Nat
    BY <2>1, FS_CardinalityType
  <2>. QED
    BY <1>1, <1>2, <2>1, <2>2
<1>. QED
  BY <1>1, <1>3 DEF Rank

\* How many numbers an entry has.
LEMMA SizesOf ==
  ASSUME NEW i \in Inputs
  PROVE  /\ NumDicFeatures(i.spec) \in Nat /\ NumDicData(i.spec) \in Nat
         /\ NumDicFeatures(i.spec) >= Cardinality(ComputeByName(i.spec))
<1>. DEFINE s == i.spec
            n == Len(s.fields)
            C == ComputeByName(s)
            D == DataFields(s)
            M == {FlagColumn(m) : m \in DOMAIN s.matches}
<1>1. n \in Nat /\ C \in SUBSET (1 .. n) /\ D \in SUBSET (1 .. n) /\ IsFiniteSet(DOMAIN s.matches)
  BY InputsAssumption DEF DataFields
<1>2. Cardinality(M) \in Nat
  <2>1. IsFiniteSet(M)
    <3>. DEFINE f == [m \in DOMAIN s.matches |-> FlagColumn(m)]
    <3>1. f \in Surjection(DOMAIN s.matches, M)
      BY DEF Surjection
    <3>. QED
      BY <1>1, <3>1, FS_Surjection
  <2>. QED
    BY <2>1, FS_CardinalityType
<1>3. Cardinality(C) \in Nat /\ Cardinality(D) \in Nat
  <2>1. IsFiniteSet(1 .. n)
    BY <1>1, FS_Interval
  <2>2. IsFiniteSet(C) /\ IsFiniteSet(D)
    BY <1>1, <2>1, FS_Subset
  <2>. QED
    BY <2>2, FS_CardinalityType
<1>4. NumDicFeatures(s) = Cardinality(C) + Cardinality(M) /\ NumDicData(s) = Cardinality(D)
  BY DEF NumDicFeatures, GeneratedColumns, NumDicData
<1>. HIDE DEF s, C, D, M
<1>. QED
  BY <1>2, <1>3, <1>4 DEF s, C

\* Every field stands where a buffer has a cell for it.
LEMMA IndexInPlace ==
  ASSUME NEW i \in Inputs, NEW k \in Fields(i.spec)
  PROVE  DicIndex(i.spec, k) \in Places(NumDicFeatures(i.spec), NumDicData(i.spec))
<1>. DEFINE s == i.spec
            n == Len(s.fields)
            C == ComputeByName(s)
            D == DataFields(s)
<1>1. n \in Nat /\ Fields(s) = 1 .. n /\ C \in SUBSET (1 .. n)
  BY InputsAssumption
<1>2. D \in SUBSET (1 .. n) /\ k \in 1 .. n /\ (k \in C \/ k \in D)
  BY <1>1 DEF DataFields
<1>3. NumDicFeatures(s) \in Nat /\ NumDicFeatures(s) >= Cardinality(C) /\ NumDicData(s) = Cardinality(D)
  BY SizesOf DEF NumDicData
<1>4. DicIndex(s, k) = IF k \in C THEN Rank(C, k) ELSE -1 - Rank(D, k)
  BY DEF DicIndex
<1>. HIDE DEF s, n, C, D
<1>5. k \in C => Cardinality(C) \in Nat /\ Rank(C, k) \in 0 .. Cardinality(C) - 1
  BY <1>1, RankBelow
<1>6. k \in D => Cardinality(D) \in Nat /\ Rank(D, k) \in 0 .. Cardinality(D) - 1
  BY <1>1, <1>2, RankBelow
<1>7. NumDicData(s) \in Nat
  BY SizesOf DEF s
<1>8. DicIndex(s, k) \in Places(NumDicFeatures(s), NumDicData(s))
  BY <1>2, <1>3, <1>4, <1>5, <1>6, <1>7 DEF Places
<1>. QED
  BY <1>8 DEF s

-----------------------------------------------------------------------------
(* The arena under the words of a sentence *)

\* The arena is in order and the numbers of a node can be counted.
WInv ==
  /\ IInv
  /\ input \in Inputs
  /\ model.restored => model.numFeatures \in Nat

LEMMA WInit == Init => WInv
<1> SUFFICES ASSUME Init PROVE WInv
  OBVIOUS
<1>1. IInv
  BY InitInv DEF Init
<1>2. input \in Inputs
  BY DEF Init, BuilderInit
<1>3. ~model.restored
  BY DEF Init, NoDictionary
<1> QED
  BY <1>1, <1>2, <1>3 DEF WInv

\* A node is placed like any other request.
LEMMA NodeStep ==
  ASSUME WInv, model.restored, NEW u, NEW surface, NEW template,
         MakeNode(u, surface, template)
  PROVE  WInv'
<1>1. AllocateMemory(NodeHeader + model.numFeatures, NodeAlign) /\ input' = input /\ model' = model
  BY DEF MakeNode, builderVars
<1>2. NodeHeader + model.numFeatures \in Nat /\ NodeAlign \in Nat \ {0} /\ IInv
  BY NodeAssumption DEF WInv
<1>3. IInv'
  BY <1>1, <1>2, PlaceInv, SwitchInv DEF AllocateMemory
<1> QED
  BY <1>1, <1>3 DEF WInv

\* A step that leaves the arena and the dictionary alone.
LEMMA StepAside ==
  ASSUME WInv, UNCHANGED <<arenaVars, input, model>>
  PROVE  WInv'
<1>1. IInv'
  BY DEF WInv, arenaVars, IInv, PagesOrdered, NoOverlap
<1> QED
  BY <1>1 DEF WInv

LEMMA ImportKeepsInput == ImportCsv => input' = input
  BY DEF ImportCsv, ComputeStats, MakeStringStorage, ImportOneLine, WriteRest, BuildTrie

LEMMA LoadStep == ASSUME WInv, LoadModel PROVE WInv'
<1>1. arenaVars' = arenaVars /\ input' = input
  BY DEF LoadModel, builderVars
<1>2. IInv'
  BY <1>1 DEF WInv, arenaVars, IInv, PagesOrdered, NoOverlap
<1>3. model'.restored => model'.numFeatures \in Nat
  <2>1. CASE model' = Holder(Restored)
    <3>1. model'.numFeatures = NumDicFeatures(spec)
      BY <2>1 DEF Holder
    <3> QED
      BY <3>1, SizesOf DEF WInv, spec
  <2>2. CASE model' = NoDictionary
    BY <2>2 DEF NoDictionary
  <2> QED
    BY <2>1, <2>2 DEF LoadModel
<1> QED
  BY <1>1, <1>2, <1>3 DEF WInv

LEMMA WNext == WInv /\ [Next]_wordsVars => WInv'
<1> SUFFICES ASSUME WInv, [Next]_wordsVars PROVE WInv'
  OBVIOUS
<1>1. CASE ImportCsv /\ UNCHANGED <<arenaVars, model, extra, walker, current, told>>
  BY <1>1, ImportKeepsInput, StepAside
<1>2. CASE LoadModel
  BY <1>2, LoadStep
<1>3. CASE MakeUnknown
  BY <1>3, NodeStep DEF MakeUnknown, Analyzing
<1>4. CASE MakeNormalized
  BY <1>4, NodeStep DEF MakeNormalized, Analyzing
<1>5. CASE OtherMemory
  <2>1. PICK r \in Requests : AllocateMemory(r.size, r.align)
    BY <1>5 DEF OtherMemory
  <2>2. r.size \in Nat /\ r.align \in Nat \ {0}
    BY RequestsAssumption
  <2>3. IInv'
    BY <2>1, <2>2, PlaceInv, SwitchInv DEF AllocateMemory, WInv
  <2> QED
    BY <1>5, <2>3 DEF OtherMemory, WInv, builderVars
<1>6. CASE Locate
  BY <1>6, StepAside DEF Locate, builderVars
<1>7. CASE NextRow
  BY <1>7, StepAside DEF NextRow, builderVars
<1>8. CASE NewSentence
  <2>1. IInv'
    BY <1>8, ResetInv DEF NewSentence, WInv
  <2> QED
    BY <1>8, <2>1 DEF NewSentence, WInv, builderVars
<1>9. CASE UNCHANGED wordsVars
  BY <1>9, StepAside DEF wordsVars, builderVars
<1> QED
  BY <1>1, <1>2, <1>3, <1>4, <1>5, <1>6, <1>7, <1>8, <1>9 DEF Next

\* Whatever dictionary is loaded and whichever nodes, boundaries and beams a
\* sentence needs, none shares memory with another one.
THEOREM NodesApart == Spec => []NoOverlap
<1>1. WInv => NoOverlap
  BY DEF WInv, IInv
<1> QED
  BY WInit, WNext, <1>1, PTL DEF Spec

\* None of them reaches behind the end of its page.
THEOREM NodesInPages == Spec => []InPages
<1>1. WInv => InPages
  BY InvInPages DEF WInv
<1> QED
  BY WInit, WNext, <1>1, PTL DEF Spec

-----------------------------------------------------------------------------
(* Reading numbers one after the other *)

\* A number that is read ends before the buffer does.
LEMMA ReadAdvances ==
  ASSUME NEW buf \in Seq(Int), NEW at \in Nat, ReadVarint(buf, at).ok
  PROVE  ReadVarint(buf, at).next \in at + 1 .. Len(buf)
<1>. DEFINE Ends(i) == buf[i] < Base /\ \A j \in at + 1 .. i - 1 : buf[j] >= Base
            T == {i \in Nat : i \in at + 1 .. Len(buf) /\ ~(buf[i] >= Base)}
            end == CHOOSE i \in at + 1 .. Len(buf) : Ends(i)
<1>1. ~\A i \in at + 1 .. Len(buf) : buf[i] >= Base
  BY DEF ReadVarint, Nothing
<1>2. ReadVarint(buf, at).next = end
  BY <1>1 DEF ReadVarint
<1>3. PICK m \in T : \A k \in T : m <= k
  <2>1. T # {}
    BY <1>1
  <2>. HIDE DEF T
  <2>. QED
    BY <2>1, LeastNumber DEF T
<1>4. m \in at + 1 .. Len(buf) /\ Ends(m)
  <2>1. m \in 1 .. Len(buf) /\ buf[m] \in Int
    OBVIOUS
  <2>2. ASSUME NEW j \in at + 1 .. m - 1 PROVE buf[j] >= Base
    <3>1. j \notin T
      BY <1>3
    <3>. QED
      BY <3>1
  <2>. QED
    BY <2>1, <2>2, BaseAssumption
<1>5. end \in at + 1 .. Len(buf)
  <2>. HIDE DEF Ends
  <2>. QED
    BY <1>4
<1>. QED
  BY <1>2, <1>5

\* What has been read after one number more.
ReadStep(buf, acc) ==
  LET r == ReadVarint(buf, acc.next)
  IN IF acc.ok /\ r.ok
     THEN [ok |-> TRUE, values |-> Append(acc.values, r.value), next |-> r.next]
     ELSE [acc EXCEPT !.ok = FALSE]
ReadFrom(at) == [ok |-> TRUE, values |-> <<>>, next |-> at]
IsReading(f, buf, at, n) ==
  f[0] = ReadFrom(at) /\ \A k \in 1 .. n : f[k] = ReadStep(buf, f[k - 1])
Readings(buf) ==
  [ok : BOOLEAN, values : Seq({ReadVarint(buf, p).value : p \in Nat}), next : Nat]

\* A reading goes on as a reading.
LEMMA ReadStepShape ==
  ASSUME NEW buf \in Seq(Int), NEW acc \in Readings(buf)
  PROVE  ReadStep(buf, acc) \in Readings(buf)
<1>1. CASE acc.ok /\ ReadVarint(buf, acc.next).ok
  <2>1. acc.next \in Nat /\ Len(buf) \in Nat
    BY DEF Readings
  <2>2. ReadVarint(buf, acc.next).next \in Nat
    BY <1>1, <2>1, ReadAdvances
  <2>3. acc.values \in Seq({ReadVarint(buf, p).value : p \in Nat})
    BY DEF Readings
  <2>4. Append(acc.values, ReadVarint(buf, acc.next).value) \in Seq({ReadVarint(buf, p).value : p \in Nat})
    BY <2>1, <2>3
  <2>. QED
    BY <1>1, <2>2, <2>4 DEF ReadStep, Readings
<1>2. CASE ~(acc.ok /\ ReadVarint(buf, acc.next).ok)
  BY <1>2 DEF ReadStep, Readings
<1>. QED
  BY <1>1, <1>2

\* There is a function from steps to what has been read by then.
LEMMA ReadingExists ==
  ASSUME NEW buf, NEW at, NEW n \in Nat
  PROVE  \E f : IsReading(f, buf, at, n)
<1>. DEFINE H == {m \in Nat : \E f : IsReading(f, buf, at, m)}
<1>1. 0 \in H
  <2>1. IsReading([k \in {0} |-> ReadFrom(at)], buf, at, 0)
    BY DEF IsReading
  <2>. QED
    BY <2>1
<1>2. ASSUME NEW m \in Nat, m \in H PROVE m + 1 \in H
  <2>1. PICK f : IsReading(f, buf, at, m)
    BY <1>2
  <2>. DEFINE g == [k \in 0 .. m + 1 |-> IF k = m + 1 THEN ReadStep(buf, f[m]) ELSE f[k]]
  <2>2. g[0] = ReadFrom(at)
    BY <2>1 DEF IsReading
  <2>3. ASSUME NEW k \in 1 .. m + 1 PROVE g[k] = ReadStep(buf, g[k - 1])
    <3>1. k \in 0 .. m + 1 /\ k - 1 \in 0 .. m + 1 /\ k - 1 # m + 1 /\ g[k - 1] = f[k - 1]
      OBVIOUS
    <3>2. CASE k = m + 1
      BY <3>1, <3>2
    <3>3. CASE k # m + 1
      <4>1. k \in 1 .. m /\ g[k] = f[k]
        BY <3>3
      <4>. QED
        BY <2>1, <3>1, <4>1 DEF IsReading
    <3>. QED
      BY <3>2, <3>3
  <2>4. IsReading(g, buf, at, m + 1)
    <3>. HIDE DEF g
    <3>. QED
      BY <2>2, <2>3 DEF IsReading
  <2>. QED
    BY <2>4
<1>3. \A k \in Nat : k \in H
  <2>. HIDE DEF H
  <2>. QED
    BY <1>1, <1>2, Induction
<1>. QED
  BY <1>3

\* The fold of ReadVarints runs through them all.
LEMMA ReadUnrolls ==
  ASSUME NEW buf \in Seq(Int), NEW at \in Nat, NEW n \in Nat
  PROVE  \E f : /\ IsReading(f, buf, at, n) /\ ReadVarints(buf, at, n) = f[n]
                /\ \A k \in 0 .. n : f[k] \in Readings(buf)
<1>. DEFINE seq == [i \in 1 .. n |-> i]
            Eq(h) == h = [s \in SUBSET DOMAIN seq |->
                     IF s = {} THEN ReadFrom(at) ELSE ReadStep(buf, h[s \ {Max(s)}])]
            h == CHOOSE h : Eq(h)
<1>1. ReadVarints(buf, at, n) = h[DOMAIN seq] /\ DOMAIN seq = 1 .. n
  BY DEF ReadVarints, FoldLeft, MapThenFoldSet, ReadFrom, ReadStep
<1>. HIDE DEF seq
<1>2. PICK f : IsReading(f, buf, at, n)
  BY ReadingExists
<1>. DEFINE e == [s \in SUBSET DOMAIN seq |-> f[Cardinality(s)]]
<1>3. Eq(e)
  <2>1. ASSUME NEW s \in SUBSET DOMAIN seq
        PROVE  e[s] = IF s = {} THEN ReadFrom(at) ELSE ReadStep(buf, e[s \ {Max(s)}])
    <3>1. CASE s = {}
      <4>1. Cardinality(s) = 0
        BY <3>1, FS_EmptySet
      <4>. QED
        BY <1>2, <3>1, <4>1 DEF IsReading
    <3>2. CASE s # {}
      <4>1. /\ s \ {Max(s)} \in SUBSET DOMAIN seq /\ Cardinality(s) \in 1 .. n
            /\ Cardinality(s \ {Max(s)}) = Cardinality(s) - 1
        BY <1>1, <3>2, WithoutMax
      <4>2. f[Cardinality(s)] = ReadStep(buf, f[Cardinality(s) - 1])
        BY <1>2, <4>1 DEF IsReading
      <4>. QED
        BY <3>2, <4>1, <4>2
    <3>. QED
      BY <3>1, <3>2
  <2>2. e = [s \in SUBSET DOMAIN seq |-> e[s]]
    OBVIOUS
  <2>. HIDE DEF e
  <2>. QED
    BY <2>1, <2>2
<1>4. Eq(h)
  <2>. HIDE DEF Eq
  <2>. QED
    BY <1>3
<1>. HIDE DEF h
<1>5. e[1 .. n] = f[n]
  <2>1. Cardinality(1 .. n) = n /\ 1 .. n \in SUBSET DOMAIN seq
    BY <1>1, FS_Interval
  <2>. QED
    BY <2>1
<1>6. h[1 .. n] = e[1 .. n]
  <2>. HIDE DEF e
  <2>1. \A s \in SUBSET (1 .. n) :
          /\ h[s] = IF s = {} THEN ReadFrom(at) ELSE ReadStep(buf, h[s \ {Max(s)}])
          /\ e[s] = IF s = {} THEN ReadFrom(at) ELSE ReadStep(buf, e[s \ {Max(s)}])
    BY <1>1, <1>3, <1>4
  <2>2. FoldAlike(h, e, n)
    BY <2>1 DEF FoldAlike
  <2>. QED
    BY <2>2, FoldSame
<1>. DEFINE H == {k \in Nat : f[k] \in Readings(buf)}
<1>7. 0 \in H
  <2>1. f[0] = ReadFrom(at)
    BY <1>2 DEF IsReading
  <2>2. ReadFrom(at) \in Readings(buf)
    <3>1. <<>> \in Seq({ReadVarint(buf, p).value : p \in Nat})
      OBVIOUS
    <3>. QED
      BY <3>1 DEF ReadFrom, Readings
  <2>. QED
    BY <2>1, <2>2
<1>8. ASSUME NEW k \in 0 .. n - 1, k \in H PROVE k + 1 \in H
  <2>1. k + 1 \in 1 .. n /\ (k + 1) - 1 = k /\ k + 1 \in Nat
    OBVIOUS
  <2>2. f[k + 1] = ReadStep(buf, f[k])
    BY <1>2, <2>1 DEF IsReading
  <2>. QED
    BY <1>8, <2>1, <2>2, ReadStepShape
<1>9. \A k \in 0 .. n : k \in H
  <2>1. 0 \in Int /\ n \in Int /\ \A k \in 0 .. n - 1 : k \in H => k + 1 \in H
    BY <1>8
  <2>. HIDE DEF H
  <2>. QED
    BY <1>7, <2>1, InductionTo
<1>. QED
  BY <1>1, <1>2, <1>5, <1>6, <1>9

ReadThrough(buf, at, acc, k) ==
  acc.ok => Len(acc.values) = k /\ acc.next >= at + k /\ (k > 0 => acc.next <= Len(buf))

\* Reading numbers that are all there ends behind as many cells at least, and
\* not behind the buffer.
LEMMA ReadWhole ==
  ASSUME NEW buf \in Seq(Int), NEW at \in Nat, NEW n \in Nat
  PROVE  /\ ReadVarints(buf, at, n) \in Readings(buf)
         /\ ReadThrough(buf, at, ReadVarints(buf, at, n), n)
<1>1. PICK f : /\ IsReading(f, buf, at, n) /\ ReadVarints(buf, at, n) = f[n]
               /\ \A k \in 0 .. n : f[k] \in Readings(buf)
  BY ReadUnrolls
<1>. DEFINE H == {k \in Nat : ReadThrough(buf, at, f[k], k)}
<1>2. 0 \in H
  BY <1>1 DEF IsReading, ReadFrom, ReadThrough
<1>3. ASSUME NEW k \in 0 .. n - 1, k \in H PROVE k + 1 \in H
  <2>1. k \in Nat /\ k + 1 \in 1 .. n /\ (k + 1) - 1 = k /\ k \in 0 .. n
    OBVIOUS
  <2>2. f[k + 1] = ReadStep(buf, f[k]) /\ f[k] \in Readings(buf)
    BY <1>1, <2>1 DEF IsReading
  <2>. DEFINE acc == f[k]
              r == ReadVarint(buf, acc.next)
  <2>3. CASE acc.ok /\ r.ok
    <3>1. acc.next \in Nat /\ acc.values \in Seq({ReadVarint(buf, p).value : p \in Nat}) /\ Len(buf) \in Nat
      BY <2>2 DEF Readings
    <3>2. r.next \in acc.next + 1 .. Len(buf)
      BY <2>3, <3>1, ReadAdvances
    <3>3. Len(acc.values) = k /\ acc.next >= at + k
      BY <1>3, <2>3 DEF ReadThrough
    <3>4. f[k + 1] = [ok |-> TRUE, values |-> Append(acc.values, r.value), next |-> r.next]
      BY <2>2, <2>3 DEF ReadStep
    <3>. HIDE DEF r, acc
    <3>5. Len(Append(acc.values, r.value)) = k + 1
      BY <3>1, <3>3
    <3>. QED
      BY <2>1, <3>1, <3>2, <3>3, <3>4, <3>5 DEF ReadThrough
  <2>4. CASE ~(acc.ok /\ r.ok)
    <3>1. ~f[k + 1].ok
      BY <2>2, <2>4 DEF ReadStep, Readings
    <3>. QED
      BY <2>1, <3>1 DEF ReadThrough
  <2>. QED
    BY <2>3, <2>4
<1>4. \A k \in 0 .. n : k \in H
  <2>1. 0 \in Int /\ n \in Int /\ \A k \in 0 .. n - 1 : k \in H => k + 1 \in H
    BY <1>3
  <2>. HIDE DEF H
  <2>. QED
    BY <1>2, <2>1, InductionTo
<1>. QED
  BY <1>1, <1>4

-----------------------------------------------------------------------------

\* What the cells of a buffer may hold: memory that was never written is a
\* number, and so is what is read.
CellValues(E) == Int \cup {ReadVarint(E, p).value : p \in Nat}
Arrays(E) == [1 .. FieldsLimit -> CellValues(E)]
Buffers(E) ==
  [numFeatures : Nat, numData : Nat, features : Arrays(E), data : Arrays(E),
   remaining : [length : Nat, position : Nat, at : Nat]]

\* Values written over an array stand in front, and the rest of it stays.
LEMMA OverShape ==
  ASSUME NEW E, NEW a \in Arrays(E), NEW v \in Seq(CellValues(E))
  PROVE  /\ Over(v, a) \in Arrays(E)
         /\ \A k \in 1 .. FieldsLimit : k <= Len(v) => Over(v, a)[k] = v[k]
         /\ \A k \in 1 .. FieldsLimit : k > Len(v) => Over(v, a)[k] = a[k]
<1>1. DOMAIN a = 1 .. FieldsLimit /\ Len(v) \in Nat
  BY DEF Arrays
<1>2. ASSUME NEW k \in 1 .. FieldsLimit
      PROVE  (IF k <= Len(v) THEN v[k] ELSE a[k]) \in CellValues(E)
  BY <1>1 DEF Arrays
<1>3. Over(v, a) = [k \in 1 .. FieldsLimit |-> IF k <= Len(v) THEN v[k] ELSE a[k]]
  BY <1>1 DEF Over
<1>4. \A k \in 1 .. FieldsLimit : k > Len(v) => ~(k <= Len(v))
  BY <1>1, FieldsAssumption
<1>. QED
  BY <1>2, <1>3, <1>4 DEF Arrays

\* What is read may stand in a cell.
LEMMA ReadingCells ==
  ASSUME NEW E, NEW r \in Readings(E)
  PROVE  r.values \in Seq(CellValues(E)) /\ r.next \in Nat
<1>1. r.values \in Seq({ReadVarint(E, p).value : p \in Nat}) /\ r.next \in Nat
  BY DEF Readings
<1>2. {ReadVarint(E, p).value : p \in Nat} \subseteq CellValues(E)
  BY DEF CellValues
<1>. HIDE DEF CellValues
<1>. QED
  BY <1>1, <1>2

\* A buffer of these parts, and what the assignments to its parts make of it.
Parts(p, q, f, d, r) ==
  [numFeatures |-> p, numData |-> q, features |-> f, data |-> d, remaining |-> r]
Left(l, place, at) == [length |-> l, position |-> place, at |-> at]

\* Every buffer is made of such parts,
LEMMA PartsOf ==
  ASSUME NEW E, NEW b \in Buffers(E)
  PROVE  \E f \in Arrays(E), d \in Arrays(E), l \in Nat, place \in Nat, at \in Nat :
           /\ b = Parts(b.numFeatures, b.numData, f, d, Left(l, place, at))
           /\ b.features = f /\ b.data = d /\ b.remaining = Left(l, place, at)
<1>1. b = Parts(b.numFeatures, b.numData, b.features, b.data, b.remaining)
  BY DEF Buffers, Parts
<1>2. b.features \in Arrays(E) /\ b.data \in Arrays(E) /\ b.remaining \in [length : Nat, position : Nat, at : Nat]
  BY DEF Buffers
<1>3. b.remaining = Left(b.remaining.length, b.remaining.position, b.remaining.at)
      /\ b.remaining.length \in Nat /\ b.remaining.position \in Nat /\ b.remaining.at \in Nat
  BY <1>2 DEF Left
<1>. QED
  BY <1>1, <1>2, <1>3

\* its parts are what it was made of,
LEMMA PartsAre ==
  ASSUME NEW p, NEW q, NEW f, NEW d, NEW l, NEW place, NEW at, NEW b,
         b = Parts(p, q, f, d, Left(l, place, at))
  PROVE  /\ b.numFeatures = p /\ b.numData = q /\ b.features = f /\ b.data = d
         /\ b.remaining = Left(l, place, at) /\ b.remaining.length = l
         /\ b.remaining.position = place /\ b.remaining.at = at
BY DEF Parts, Left

\* and whatever is made of such parts is a buffer.
LEMMA PartsShape ==
  ASSUME NEW E, NEW p \in Nat, NEW q \in Nat, NEW f \in Arrays(E), NEW d \in Arrays(E),
         NEW l \in Nat, NEW place \in Nat, NEW at \in Nat
  PROVE  Parts(p, q, f, d, Left(l, place, at)) \in Buffers(E)
BY DEF Parts, Left, Buffers

\* The assignments of fillFromStorage, overwriteFeaturesWith and nextData.
WithFeatures(b, o) == [b EXCEPT !.features = o]
WithRest(b, r) == [b EXCEPT !.remaining = r]
WithOneRow(b, r) == [b EXCEPT !.remaining = r, !.data[1] = 1]
WithRow(b, o, next) == [b EXCEPT !.data = o, !.remaining.position = @ + b.numData, !.remaining.at = next]

LEMMA PutFeatures ==
  ASSUME NEW p, NEW q, NEW f, NEW d, NEW r, NEW o
  PROVE  WithFeatures(Parts(p, q, f, d, r), o) = Parts(p, q, o, d, r)
BY DEF Parts, WithFeatures

LEMMA PutRest ==
  ASSUME NEW p, NEW q, NEW f, NEW d, NEW r, NEW o
  PROVE  WithRest(Parts(p, q, f, d, r), o) = Parts(p, q, f, d, o)
BY DEF Parts, WithRest

LEMMA PutOneRow ==
  ASSUME NEW p, NEW q, NEW f, NEW d, NEW r, NEW o
  PROVE  WithOneRow(Parts(p, q, f, d, r), o) = Parts(p, q, f, [d EXCEPT ![1] = 1], o)
<1>1. [Parts(p, q, f, d, r) EXCEPT !.remaining = o] = Parts(p, q, f, d, o)
  BY DEF Parts
<1>2. [Parts(p, q, f, d, o) EXCEPT !.data[1] = 1] = Parts(p, q, f, [d EXCEPT ![1] = 1], o)
  BY DEF Parts
<1>. QED
  BY <1>1, <1>2 DEF WithOneRow

LEMMA PutRow ==
  ASSUME NEW p, NEW q, NEW f, NEW d, NEW o, NEW l, NEW place, NEW at, NEW next
  PROVE  WithRow(Parts(p, q, f, d, Left(l, place, at)), o, next)
         = Parts(p, q, f, o, Left(l, place + q, next))
<1>. DEFINE b == Parts(p, q, f, d, Left(l, place, at))
<1>1. [Parts(p, q, f, d, Left(l, place, at)) EXCEPT !.data = o] = Parts(p, q, f, o, Left(l, place, at))
  BY DEF Parts
<1>2. [Parts(p, q, f, o, Left(l, place, at)) EXCEPT !.remaining.position = @ + q]
      = Parts(p, q, f, o, Left(l, place + q, at))
  BY DEF Parts, Left
<1>3. [Parts(p, q, f, o, Left(l, place + q, at)) EXCEPT !.remaining.at = next]
      = Parts(p, q, f, o, Left(l, place + q, next))
  BY DEF Parts, Left
<1>4. [Parts(p, q, f, d, Left(l, place, at))
         EXCEPT !.data = o, !.remaining.position = @ + q, !.remaining.at = next]
      = Parts(p, q, f, o, Left(l, place + q, next))
  BY <1>1, <1>2, <1>3
<1>5. Parts(p, q, f, d, Left(l, place, at)).numData = q
  BY DEF Parts
<1>. QED
  BY <1>4, <1>5 DEF WithRow

\* What fillFromStorage makes of a buffer, if all numbers are there.
LEMMA SingleParts ==
  ASSUME NEW p, NEW q, NEW f, NEW d, NEW l, NEW place, NEW at, NEW E, NEW ptr,
         ReadVarints(E, ptr \div 2, p + q).ok
  PROVE  FillSingle(Parts(p, q, f, d, Left(l, place, at)), E, ptr)
         = Parts(p, q, Over(ReadVarints(E, ptr \div 2, p + q).values, f), [d EXCEPT ![1] = 1], Left(0, 0, at))
<1>. DEFINE b == Parts(p, q, f, d, Left(l, place, at))
            read == ReadVarints(E, ptr \div 2, p + q)
            o == Over(read.values, f)
<1>1. b.numFeatures = p /\ b.numData = q /\ b.features = f /\ b.remaining.at = at
  BY DEF Parts, Left
<1>2. FillSingle(b, E, ptr) = WithOneRow(WithFeatures(b, Over(read.values, b.features)), Rest(0, b.remaining.at))
  BY <1>1 DEF FillSingle, WithOneRow, WithFeatures
<1>3. WithFeatures(b, o) = Parts(p, q, o, d, Left(l, place, at))
  BY PutFeatures
<1>4. WithOneRow(Parts(p, q, o, d, Left(l, place, at)), Left(0, 0, at))
      = Parts(p, q, o, [d EXCEPT ![1] = 1], Left(0, 0, at))
  BY PutOneRow
<1>5. Rest(0, at) = Left(0, 0, at)
  BY DEF Rest, Left
<1>. DEFINE e == [d EXCEPT ![1] = 1]
<1>. HIDE DEF b, read, o
<1>6. WithOneRow(Parts(p, q, o, d, Left(l, place, at)), Left(0, 0, at)) = Parts(p, q, o, e, Left(0, 0, at))
  BY <1>4
<1>. HIDE DEF e
<1>7. FillSingle(b, E, ptr) = Parts(p, q, o, e, Left(0, 0, at))
  BY <1>1, <1>2, <1>3, <1>5, <1>6 DEF o
<1>. QED
  BY <1>7 DEF o, read, b, e

\* The same for an entry that rows share.
LEMMA SharedParts ==
  ASSUME NEW p, NEW q, NEW f, NEW d, NEW l, NEW place, NEW at, NEW E, NEW ptr,
         ReadVarints(E, ptr \div 2, p + 1).ok
  PROVE  LET read == ReadVarints(E, ptr \div 2, p + 1)
             o == Over(read.values, f)
         IN FillShared(Parts(p, q, f, d, Left(l, place, at)), E, ptr)
            = Parts(p, q, o, d, Left(q * o[p + 1], 0, read.next))
<1>. DEFINE b == Parts(p, q, f, d, Left(l, place, at))
            read == ReadVarints(E, ptr \div 2, p + 1)
            o == Over(read.values, f)
            filled == WithFeatures(b, Over(read.values, b.features))
<1>1. b.numFeatures = p /\ b.numData = q /\ b.features = f
  BY DEF Parts
<1>2. WithFeatures(b, o) = Parts(p, q, o, d, Left(l, place, at))
  BY PutFeatures
<1>3. WithRest(Parts(p, q, o, d, Left(l, place, at)), Left(q * o[p + 1], 0, read.next))
      = Parts(p, q, o, d, Left(q * o[p + 1], 0, read.next))
  BY PutRest
<1>4. /\ Parts(p, q, o, d, Left(l, place, at)).features = o
      /\ Parts(p, q, o, d, Left(l, place, at)).numData = q
      /\ Parts(p, q, o, d, Left(l, place, at)).numFeatures = p
  BY DEF Parts
<1>5. FillShared(b, E, ptr) = WithRest(filled, Rest(b.numData * filled.features[b.numFeatures + 1], read.next))
  BY <1>1 DEF FillShared, WithRest, WithFeatures
<1>6. Rest(q * o[p + 1], read.next) = Left(q * o[p + 1], 0, read.next)
  BY DEF Rest, Left
<1>. HIDE DEF b, read, o
<1>7. filled = Parts(p, q, o, d, Left(l, place, at))
  BY <1>1, <1>2 DEF o
<1>. HIDE DEF filled
<1>8. FillShared(b, E, ptr) = Parts(p, q, o, d, Left(q * o[p + 1], 0, read.next))
  BY <1>1, <1>3, <1>4, <1>5, <1>6, <1>7
<1>. QED
  BY <1>8 DEF o, read, b

\* What overwriteFeaturesWith and setCounts make of it.
LEMMA OverwrittenParts ==
  ASSUME NEW p, NEW q, NEW f, NEW d, NEW r, NEW v
  PROVE  OverwriteFeatures(Parts(p, q, f, d, r), v) = Parts(p, q, Over(v, f), d, r)
BY DEF OverwriteFeatures, Parts

LEMMA SetParts ==
  ASSUME NEW p, NEW q, NEW f, NEW d, NEW r, NEW nf, NEW nd
  PROVE  SetCounts(Parts(p, q, f, d, r), nf, nd) = Parts(nf, nd, f, d, r)
<1>1. [Parts(p, q, f, d, r) EXCEPT !.numFeatures = nf] = Parts(nf, q, f, d, r)
  BY DEF Parts
<1>2. [Parts(nf, q, f, d, r) EXCEPT !.numData = nd] = Parts(nf, nd, f, d, r)
  BY DEF Parts
<1>. QED
  BY <1>1, <1>2 DEF SetCounts

OneLess(d) == [d EXCEPT ![1] = @ - 1]
\* What nextData makes of it: of an entry of one row, of a list that is at its
\* end, and of one that is not.
LEMMA NextWithoutRest ==
  ASSUME NEW p, NEW q, NEW f, NEW d, NEW place, NEW at, NEW E
  PROVE  NextData(Parts(p, q, f, d, Left(0, place, at)), E)
         = [more |-> d[1] > 0, buffer |-> Parts(p, q, f, OneLess(d), Left(0, place, at))]
<1>. DEFINE b == Parts(p, q, f, d, Left(0, place, at))
<1>1. b.remaining.length = 0 /\ b.data = d
  BY DEF Parts, Left
<1>2. [b EXCEPT !.data[1] = @ - 1] = Parts(p, q, f, OneLess(d), Left(0, place, at))
  BY DEF Parts, OneLess
<1>3. NextData(b, E) = [more |-> b.data[1] > 0, buffer |-> [b EXCEPT !.data[1] = @ - 1]]
  BY <1>1 DEF NextData
<1>. QED
  BY <1>1, <1>2, <1>3

LEMMA NextAtEnd ==
  ASSUME NEW p, NEW q, NEW f, NEW d, NEW l \in Nat, l # 0, NEW at, NEW E
  PROVE  NextData(Parts(p, q, f, d, Left(l, l, at)), E)
         = [more |-> FALSE, buffer |-> Parts(p, q, f, d, Left(l, l, at))]
<1>. DEFINE b == Parts(p, q, f, d, Left(l, l, at))
<1>1. b.remaining.length = l /\ b.remaining.position = l /\ l - l = 0
  BY DEF Parts, Left
<1>. HIDE DEF b
<1>2. NextData(b, E) = [more |-> FALSE, buffer |-> b]
  BY <1>1 DEF NextData
<1>. QED
  BY <1>2 DEF b

LEMMA NextWithRest ==
  ASSUME NEW p, NEW q, NEW f, NEW d, NEW l \in Nat, l # 0, NEW place \in Nat, place # l, NEW at, NEW E
  PROVE  LET read == ReadVarints(E, at, q)
         IN NextData(Parts(p, q, f, d, Left(l, place, at)), E)
            = [more |-> read.ok,
               buffer |-> Parts(p, q, f, Over(read.values, d), Left(l, place + q, read.next))]
<1>. DEFINE b == Parts(p, q, f, d, Left(l, place, at))
            read == ReadVarints(E, at, q)
            o == Over(read.values, d)
<1>1. /\ b.remaining.length = l /\ b.remaining.position = place /\ b.remaining.at = at /\ l - place # 0
      /\ b.numData = q /\ b.data = d
  BY DEF Parts, Left
<1>2. WithRow(b, o, read.next) = Parts(p, q, f, o, Left(l, place + q, read.next))
  BY PutRow
<1>3. NextData(b, E) = [more |-> read.ok, buffer |-> WithRow(b, Over(read.values, b.data), read.next)]
  BY <1>1 DEF NextData, WithRow
<1>. HIDE DEF b, read, o
<1>4. NextData(b, E) = [more |-> read.ok, buffer |-> Parts(p, q, f, o, Left(l, place + q, read.next))]
  BY <1>1, <1>2, <1>3 DEF o
<1>. QED
  BY <1>4 DEF b, read, o

\* The numbers of features and data that a dictionary may have.
Sizes(nf, nd) == nf \in Nat /\ nd \in Nat \ {0} /\ nf + nd <= FieldsLimit
Counted(b, nf, nd) == b.numFeatures = nf /\ b.numData = nd
HeadIsRead(E, nf, nd, ptr) ==
  LET shared == ptr % 2 = 1
      head == ReadVarints(E, ptr \div 2, nf + IF shared THEN 1 ELSE nd)
  IN /\ ptr \in Nat /\ head.ok
     /\ shared => head.values[nf + 1] \in Nat \ {0}

\* Two buffers at the same place: where nothing remains, with all numbers in
\* the features and as many rows left; otherwise with as much to read, and
\* with the same data if a row has been read.
Same(E, nf, nd, b, c, k) ==
  /\ Counted(b, nf, nd) /\ Counted(c, nf, nd)
  /\ b.remaining.length = c.remaining.length
  /\ \A i \in 1 .. nf : b.features[i] = c.features[i]
  /\ c.remaining.length = 0 =>
       /\ b.data[1] = 1 - k /\ c.data[1] = 1 - k /\ k <= 1 /\ Len(E) > 0
       /\ \A i \in nf + 1 .. nf + nd : b.features[i] = c.features[i]
  /\ c.remaining.length # 0 =>
       /\ b.remaining = c.remaining /\ c.remaining.at \in k + 1 .. Len(E)
       /\ k > 0 => \A i \in 1 .. nd : b.data[i] = c.data[i]

\* What a single entry fills does not depend on what was there.
LEMMA SingleFills ==
  ASSUME NEW E \in Seq(Nat), NEW nf, NEW nd, Sizes(nf, nd), NEW ptr, ptr % 2 # 1,
         HeadIsRead(E, nf, nd, ptr), NEW b \in Buffers(E), Counted(b, nf, nd)
  PROVE  LET x == FillFromStorage(b, E, ptr)
             values == ReadVarints(E, ptr \div 2, nf + nd).values
         IN /\ x \in Buffers(E) /\ Counted(x, nf, nd) /\ Len(E) > 0
            /\ x.remaining.length = 0 /\ x.data[1] = 1
            /\ \A i \in 1 .. nf + nd : x.features[i] = values[i]
<1>. DEFINE read == ReadVarints(E, ptr \div 2, nf + nd)
<1>1. ptr \in Nat /\ ptr \div 2 \in Nat /\ nf + nd \in Nat /\ nf + nd > 0 /\ E \in Seq(Int) /\ Len(E) \in Nat
  <2>1. ptr \in Nat
    BY DEF HeadIsRead
  <2>2. ptr \div 2 \in Nat
    BY <2>1
  <2>. QED
    BY <2>1, <2>2 DEF Sizes
<1>2. read \in Readings(E) /\ ReadThrough(E, ptr \div 2, read, nf + nd)
  BY <1>1, ReadWhole
<1>3. read.ok
  BY DEF HeadIsRead
<1>. HIDE DEF read
<1>4. read.values \in Seq(CellValues(E)) /\ read.next \in Nat
  BY <1>2, ReadingCells
<1>5. Len(read.values) = nf + nd /\ read.next >= (ptr \div 2) + (nf + nd) /\ read.next <= Len(E)
  BY <1>1, <1>2, <1>3 DEF ReadThrough
<1>6. Len(E) > 0
  BY <1>1, <1>4, <1>5
<1>7. PICK f \in Arrays(E), d \in Arrays(E), l \in Nat, place \in Nat, at \in Nat :
        b = Parts(nf, nd, f, d, Left(l, place, at)) /\ b.features = f
        /\ b.remaining = Left(l, place, at)
  BY PartsOf DEF Counted
<1>. DEFINE o == Over(read.values, f)
            e == [d EXCEPT ![1] = 1]
            x == Parts(nf, nd, o, e, Left(0, 0, at))
<1>8. o \in Arrays(E) /\ \A i \in 1 .. FieldsLimit : i <= Len(read.values) => o[i] = read.values[i]
  BY <1>4, OverShape
<1>. HIDE DEF o
<1>9. e \in Arrays(E) /\ e[1] = 1
  <2>1. 1 \in CellValues(E) /\ 1 \in 1 .. FieldsLimit
    BY FieldsAssumption DEF CellValues
  <2>. QED
    BY <2>1 DEF Arrays
<1>10. FillFromStorage(b, E, ptr) = x
  <2>1. b.numFeatures = nf /\ b.numData = nd
    BY DEF Counted
  <2>2. FillFromStorage(b, E, ptr) = FillSingle(b, E, ptr)
    BY DEF FillFromStorage
  <2>. HIDE DEF x
  <2>. QED
    BY <1>3, <1>7, <2>2, SingleParts DEF read, o, x
<1>. HIDE DEF e
<1>11. /\ x.numFeatures = nf /\ x.numData = nd /\ x.features = o /\ x.data = e /\ x.remaining.length = 0
       /\ x \in Buffers(E)
  <2>1. nf \in Nat /\ nd \in Nat /\ 0 \in Nat
    BY DEF Sizes
  <2>2. x \in Buffers(E)
    BY <2>1, <1>8, <1>9, PartsShape
  <2>. QED
    BY <2>2, PartsAre
<1>. HIDE DEF x
<1>12. \A i \in 1 .. nf + nd : o[i] = read.values[i]
  <2>. TAKE i \in 1 .. nf + nd
  <2>1. i \in 1 .. FieldsLimit /\ i <= Len(read.values)
    BY <1>5, FieldsAssumption DEF Sizes
  <2>. QED
    BY <1>8, <2>1
<1>. QED
  BY <1>6, <1>9, <1>10, <1>11, <1>12 DEF Counted, read

\* Nor does what is filled of an entry that rows share.
LEMMA SharedFills ==
  ASSUME NEW E \in Seq(Nat), NEW nf, NEW nd, Sizes(nf, nd), NEW ptr, ptr % 2 = 1,
         HeadIsRead(E, nf, nd, ptr), NEW b \in Buffers(E), Counted(b, nf, nd)
  PROVE  LET x == FillFromStorage(b, E, ptr)
             read == ReadVarints(E, ptr \div 2, nf + 1)
         IN /\ x \in Buffers(E) /\ Counted(x, nf, nd)
            /\ x.remaining = Left(nd * read.values[nf + 1], 0, read.next)
            /\ x.remaining.length # 0 /\ x.remaining.at \in 1 .. Len(E)
            /\ \A i \in 1 .. nf : x.features[i] = read.values[i]
<1>. DEFINE read == ReadVarints(E, ptr \div 2, nf + 1)
<1>1. /\ ptr \div 2 \in Nat /\ nf \in Nat /\ nf + 1 \in Nat /\ nf + 1 > 0 /\ nf + 1 \in 1 .. FieldsLimit
      /\ E \in Seq(Int) /\ Len(E) \in Nat /\ nd \in Nat /\ nd # 0
  <2>1. ptr \in Nat
    BY DEF HeadIsRead
  <2>2. ptr \div 2 \in Nat
    BY <2>1
  <2>. QED
    BY <2>1, <2>2, FieldsAssumption DEF Sizes
<1>2. read \in Readings(E) /\ ReadThrough(E, ptr \div 2, read, nf + 1)
  BY <1>1, ReadWhole
<1>3. read.ok /\ read.values[nf + 1] \in Nat \ {0}
  BY DEF HeadIsRead
<1>. HIDE DEF read
<1>4. read.values \in Seq(CellValues(E)) /\ read.next \in Nat
  BY <1>2, ReadingCells
<1>5. Len(read.values) = nf + 1 /\ read.next >= (ptr \div 2) + (nf + 1) /\ read.next <= Len(E)
  BY <1>1, <1>2, <1>3 DEF ReadThrough
<1>6. read.next \in 1 .. Len(E)
  BY <1>1, <1>4, <1>5
<1>7. PICK f \in Arrays(E), d \in Arrays(E), l \in Nat, place \in Nat, at \in Nat :
        b = Parts(nf, nd, f, d, Left(l, place, at)) /\ b.features = f
        /\ b.remaining = Left(l, place, at)
  BY PartsOf DEF Counted
<1>. DEFINE o == Over(read.values, f)
            count == read.values[nf + 1]
            x == Parts(nf, nd, o, d, Left(nd * count, 0, read.next))
<1>8. o \in Arrays(E) /\ \A i \in 1 .. FieldsLimit : i <= Len(read.values) => o[i] = read.values[i]
  BY <1>4, OverShape
<1>. HIDE DEF o
<1>9. o[nf + 1] = count
  BY <1>1, <1>5, <1>8
<1>. HIDE DEF count
<1>10. FillFromStorage(b, E, ptr) = x
  <2>1. FillFromStorage(b, E, ptr) = FillShared(b, E, ptr)
    BY DEF FillFromStorage
  <2>2. FillShared(b, E, ptr) = Parts(nf, nd, o, d, Left(nd * o[nf + 1], 0, read.next))
    BY <1>3, <1>7, SharedParts DEF read, o
  <2>. QED
    BY <2>1, <2>2, <1>9
<1>11. nd * count \in Nat /\ nd * count # 0
  <2>1. count \in Nat /\ count # 0
    BY <1>3 DEF count
  <2>. QED
    BY <2>1, <1>1
<1>12. x \in Buffers(E)
  BY <1>1, <1>4, <1>8, <1>11, PartsShape
<1>13. /\ x.numFeatures = nf /\ x.numData = nd /\ x.features = o
       /\ x.remaining = Left(nd * count, 0, read.next) /\ x.remaining.length = nd * count
       /\ x.remaining.at = read.next
  <2>1. x = Parts(nf, nd, o, d, Left(nd * count, 0, read.next))
    OBVIOUS
  <2>. HIDE DEF x
  <2>. QED
    BY <2>1, PartsAre
<1>. HIDE DEF x
<1>14. \A i \in 1 .. nf : o[i] = read.values[i]
  <2>. TAKE i \in 1 .. nf
  <2>1. i \in 1 .. FieldsLimit /\ i <= Len(read.values)
    BY <1>1, <1>5, FieldsAssumption
  <2>. QED
    BY <1>8, <2>1
<1>. QED
  BY <1>6, <1>10, <1>11, <1>12, <1>13, <1>14 DEF Counted, read, count

\* Two buffers that are sent to the same entry are at the same place.
LEMMA FillSame ==
  ASSUME NEW E \in Seq(Nat), NEW nf, NEW nd, Sizes(nf, nd), NEW ptr, HeadIsRead(E, nf, nd, ptr),
         NEW b \in Buffers(E), Counted(b, nf, nd), NEW c \in Buffers(E), Counted(c, nf, nd)
  PROVE  /\ FillFromStorage(b, E, ptr) \in Buffers(E) /\ FillFromStorage(c, E, ptr) \in Buffers(E)
         /\ Same(E, nf, nd, FillFromStorage(b, E, ptr), FillFromStorage(c, E, ptr), 0)
<1>. DEFINE x == FillFromStorage(b, E, ptr)
            y == FillFromStorage(c, E, ptr)
<1>0. nf \in Nat /\ nd \in Nat
  BY DEF Sizes
<1>1. CASE ptr % 2 = 1
  <2>. DEFINE read == ReadVarints(E, ptr \div 2, nf + 1)
  <2>1. /\ x \in Buffers(E) /\ Counted(x, nf, nd)
        /\ x.remaining = Left(nd * read.values[nf + 1], 0, read.next)
        /\ x.remaining.length # 0 /\ x.remaining.at \in 1 .. Len(E)
        /\ \A i \in 1 .. nf : x.features[i] = read.values[i]
    BY <1>1, SharedFills
  <2>2. /\ y \in Buffers(E) /\ Counted(y, nf, nd)
        /\ y.remaining = Left(nd * read.values[nf + 1], 0, read.next)
        /\ y.remaining.length # 0 /\ y.remaining.at \in 1 .. Len(E)
        /\ \A i \in 1 .. nf : y.features[i] = read.values[i]
    BY <1>1, SharedFills
  <2>. HIDE DEF x, y, read
  <2>3. Same(E, nf, nd, x, y, 0)
    BY <2>1, <2>2 DEF Same
  <2>. QED
    BY <2>1, <2>2, <2>3 DEF x, y
<1>2. CASE ptr % 2 # 1
  <2>. DEFINE values == ReadVarints(E, ptr \div 2, nf + nd).values
  <2>1. /\ x \in Buffers(E) /\ Counted(x, nf, nd) /\ Len(E) > 0
        /\ x.remaining.length = 0 /\ x.data[1] = 1
        /\ \A i \in 1 .. nf + nd : x.features[i] = values[i]
    BY <1>2, SingleFills
  <2>2. /\ y \in Buffers(E) /\ Counted(y, nf, nd)
        /\ y.remaining.length = 0 /\ y.data[1] = 1
        /\ \A i \in 1 .. nf + nd : y.features[i] = values[i]
    BY <1>2, SingleFills
  <2>. HIDE DEF x, y, values
  <2>3. Same(E, nf, nd, x, y, 0)
    <3>1. \A i \in 1 .. nf : i \in 1 .. nf + nd
      BY <1>0
    <3>2. \A i \in nf + 1 .. nf + nd : i \in 1 .. nf + nd
      BY <1>0
    <3>. QED
      BY <2>1, <2>2, <3>1, <3>2 DEF Same
  <2>. QED
    BY <2>1, <2>2, <2>3 DEF x, y
<1>. QED
  BY <1>1, <1>2

\* They stay there when the numbers of a node replace their features.
LEMMA OverwriteSame ==
  ASSUME NEW E, NEW nf, NEW nd, Sizes(nf, nd), NEW b \in Buffers(E), NEW c \in Buffers(E),
         Same(E, nf, nd, b, c, 0), NEW v \in Seq(CellValues(E)), Len(v) = nf
  PROVE  /\ OverwriteFeatures(b, v) \in Buffers(E) /\ OverwriteFeatures(c, v) \in Buffers(E)
         /\ Same(E, nf, nd, OverwriteFeatures(b, v), OverwriteFeatures(c, v), 0)
<1>. DEFINE x == OverwriteFeatures(b, v)
            y == OverwriteFeatures(c, v)
<1>0. nf \in Nat /\ nd \in Nat /\ nf + nd <= FieldsLimit /\ Counted(b, nf, nd) /\ Counted(c, nf, nd)
  BY DEF Sizes, Same
<1>1. PICK f \in Arrays(E), d \in Arrays(E), l \in Nat, place \in Nat, at \in Nat :
        b = Parts(nf, nd, f, d, Left(l, place, at)) /\ b.features = f /\ b.data = d
        /\ b.remaining = Left(l, place, at)
  BY <1>0, PartsOf DEF Counted
<1>2. PICK g \in Arrays(E), e \in Arrays(E), m \in Nat, other \in Nat, on \in Nat :
        c = Parts(nf, nd, g, e, Left(m, other, on)) /\ c.features = g /\ c.data = e
        /\ c.remaining = Left(m, other, on)
  BY <1>0, PartsOf DEF Counted
<1>3. x = Parts(nf, nd, Over(v, f), d, Left(l, place, at)) /\ y = Parts(nf, nd, Over(v, g), e, Left(m, other, on))
  BY <1>1, <1>2, OverwrittenParts
<1>. HIDE DEF x, y
<1>4. /\ Over(v, f) \in Arrays(E)
      /\ \A k \in 1 .. FieldsLimit : k <= Len(v) => Over(v, f)[k] = v[k]
      /\ \A k \in 1 .. FieldsLimit : k > Len(v) => Over(v, f)[k] = f[k]
  BY OverShape
<1>5. /\ Over(v, g) \in Arrays(E)
      /\ \A k \in 1 .. FieldsLimit : k <= Len(v) => Over(v, g)[k] = v[k]
      /\ \A k \in 1 .. FieldsLimit : k > Len(v) => Over(v, g)[k] = g[k]
  BY OverShape
<1>6. x \in Buffers(E) /\ y \in Buffers(E)
  BY <1>0, <1>3, <1>4, <1>5, PartsShape
<1>7. /\ x.numFeatures = nf /\ x.numData = nd /\ x.features = Over(v, f) /\ x.data = b.data
      /\ x.remaining = b.remaining
      /\ y.numFeatures = nf /\ y.numData = nd /\ y.features = Over(v, g) /\ y.data = c.data
      /\ y.remaining = c.remaining
  BY <1>1, <1>2, <1>3, PartsAre
<1>8. \A i \in 1 .. nf : Over(v, f)[i] = Over(v, g)[i]
  <2>. TAKE i \in 1 .. nf
  <2>1. i \in 1 .. FieldsLimit /\ i <= Len(v)
    BY <1>0, FieldsAssumption
  <2>. QED
    BY <1>4, <1>5, <2>1
<1>9. \A i \in nf + 1 .. nf + nd : Over(v, f)[i] = f[i] /\ Over(v, g)[i] = g[i]
  <2>. TAKE i \in nf + 1 .. nf + nd
  <2>1. i \in 1 .. FieldsLimit /\ i > Len(v)
    BY <1>0, FieldsAssumption
  <2>2. Over(v, f)[i] = f[i]
    BY <1>4, <2>1
  <2>3. Over(v, g)[i] = g[i]
    BY <1>5, <2>1
  <2>. QED
    BY <2>2, <2>3
<1>10. Same(E, nf, nd, x, y, 0)
  <2>1. /\ b.remaining.length = c.remaining.length
        /\ c.remaining.length = 0 =>
             /\ b.data[1] = 1 - 0 /\ c.data[1] = 1 - 0 /\ 0 <= 1 /\ Len(E) > 0
             /\ \A i \in nf + 1 .. nf + nd : f[i] = g[i]
        /\ c.remaining.length # 0 => b.remaining = c.remaining /\ c.remaining.at \in 0 + 1 .. Len(E)
    BY <1>1, <1>2 DEF Same
  <2>. QED
    BY <1>7, <1>8, <1>9, <2>1 DEF Same, Counted
<1>. QED
  BY <1>6, <1>10 DEF x, y

\* They tell the same next row, or none.
LEMMA NextSame ==
  ASSUME NEW E \in Seq(Nat), NEW nf, NEW nd, Sizes(nf, nd), NEW b \in Buffers(E), NEW c \in Buffers(E),
         NEW k \in Nat, Same(E, nf, nd, b, c, k)
  PROVE  LET x == NextData(b, E)
             y == NextData(c, E)
         IN /\ x.more = y.more /\ x.more \in BOOLEAN
            /\ x.buffer \in Buffers(E) /\ y.buffer \in Buffers(E)
            /\ x.more => Same(E, nf, nd, x.buffer, y.buffer, k + 1)
<1>. DEFINE x == NextData(b, E)
            y == NextData(c, E)
<1>0. /\ nf \in Nat /\ nd \in Nat /\ nd > 0 /\ nf + nd <= FieldsLimit
      /\ Counted(b, nf, nd) /\ Counted(c, nf, nd) /\ Len(E) \in Nat /\ E \in Seq(Int)
  BY DEF Sizes, Same
<1>1. PICK f \in Arrays(E), d \in Arrays(E), l \in Nat, place \in Nat, at \in Nat :
        b = Parts(nf, nd, f, d, Left(l, place, at)) /\ b.features = f /\ b.data = d
        /\ b.remaining = Left(l, place, at)
  BY <1>0, PartsOf DEF Counted
<1>2. PICK g \in Arrays(E), e \in Arrays(E), m \in Nat, other \in Nat, on \in Nat :
        c = Parts(nf, nd, g, e, Left(m, other, on)) /\ c.features = g /\ c.data = e
        /\ c.remaining = Left(m, other, on)
  BY <1>0, PartsOf DEF Counted
<1>3. /\ b.remaining.length = l /\ c.remaining.length = m /\ b.remaining.position = place
      /\ b.remaining.at = at /\ c.remaining.position = other /\ c.remaining.at = on
  BY <1>1, <1>2 DEF Left
<1>4. l = m /\ \A i \in 1 .. nf : f[i] = g[i]
  BY <1>1, <1>2, <1>3 DEF Same
<1>5. CASE l = 0
  <2>1. /\ d[1] = 1 - k /\ e[1] = 1 - k /\ Len(E) > 0
        /\ \A i \in nf + 1 .. nf + nd : f[i] = g[i]
    BY <1>1, <1>2, <1>3, <1>4, <1>5 DEF Same
  <2>. DEFINE dd == OneLess(d)
              ee == OneLess(e)
              xb == Parts(nf, nd, f, dd, Left(0, place, at))
              yb == Parts(nf, nd, g, ee, Left(0, other, on))
  <2>2. 1 \in 1 .. FieldsLimit /\ 1 - k \in Int /\ (1 - k) - 1 \in CellValues(E) /\ (1 - k) - 1 = 1 - (k + 1)
    BY FieldsAssumption DEF CellValues
  <2>3. dd \in Arrays(E) /\ ee \in Arrays(E) /\ dd[1] = 1 - (k + 1) /\ ee[1] = 1 - (k + 1)
    BY <2>1, <2>2 DEF Arrays, OneLess
  <2>4. x = [more |-> d[1] > 0, buffer |-> xb] /\ y = [more |-> e[1] > 0, buffer |-> yb]
    <3>1. b = Parts(nf, nd, f, d, Left(0, place, at)) /\ c = Parts(nf, nd, g, e, Left(0, other, on))
      BY <1>1, <1>2, <1>4, <1>5
    <3>2. x = [more |-> d[1] > 0, buffer |-> xb]
      BY <3>1, NextWithoutRest
    <3>3. y = [more |-> e[1] > 0, buffer |-> yb]
      BY <3>1, NextWithoutRest
    <3>. QED
      BY <3>2, <3>3
  <2>. HIDE DEF dd, ee, x, y
  <2>5. xb \in Buffers(E) /\ yb \in Buffers(E)
    BY <1>0, <2>3, PartsShape
  <2>6. /\ xb.numFeatures = nf /\ xb.numData = nd /\ xb.features = f /\ xb.data = dd /\ xb.remaining.length = 0
        /\ yb.numFeatures = nf /\ yb.numData = nd /\ yb.features = g /\ yb.data = ee /\ yb.remaining.length = 0
    <3>1. xb = Parts(nf, nd, f, dd, Left(0, place, at)) /\ yb = Parts(nf, nd, g, ee, Left(0, other, on))
      OBVIOUS
    <3>. HIDE DEF xb, yb
    <3>. QED
      BY <3>1, PartsAre
  <2>. HIDE DEF xb, yb
  <2>7. ASSUME 1 - k > 0 PROVE Same(E, nf, nd, xb, yb, k + 1)
    <3>1. k + 1 <= 1
      BY <2>7
    <3>. QED
      BY <1>4, <2>1, <2>3, <2>6, <3>1 DEF Same, Counted
  <2>8. x.more = (1 - k > 0) /\ y.more = (1 - k > 0) /\ x.buffer = xb /\ y.buffer = yb
    BY <2>1, <2>4
  <2>9. x.more = y.more /\ x.more \in BOOLEAN
    <3>1. (1 - k > 0) \in BOOLEAN
      OBVIOUS
    <3>. QED
      BY <2>8, <3>1
  <2>10. ASSUME x.more PROVE Same(E, nf, nd, x.buffer, y.buffer, k + 1)
    <3>1. 1 - k > 0
      BY <2>8, <2>10
    <3>2. Same(E, nf, nd, xb, yb, k + 1)
      BY <2>7, <3>1
    <3>. QED
      BY <2>8, <3>2
  <2>. QED
    BY <2>5, <2>8, <2>9, <2>10 DEF x, y
<1>6. CASE l # 0
  <2>1. /\ place = other /\ at = on /\ at \in k + 1 .. Len(E)
        /\ k > 0 => \A i \in 1 .. nd : d[i] = e[i]
    <3>1. b.remaining = c.remaining /\ on \in k + 1 .. Len(E) /\ (k > 0 => \A i \in 1 .. nd : b.data[i] = c.data[i])
      BY <1>3, <1>4, <1>6 DEF Same
    <3>2. place = other /\ at = on
      BY <1>3, <3>1
    <3>. QED
      BY <3>1, <3>2, <1>1, <1>2
  <2>2. CASE place = l
    <3>1. x = [more |-> FALSE, buffer |-> b] /\ y = [more |-> FALSE, buffer |-> c]
      BY <1>1, <1>2, <1>4, <1>6, <2>1, <2>2, NextAtEnd
    <3>. QED
      BY <3>1
  <2>3. CASE place # l
    <3>. DEFINE read == ReadVarints(E, at, nd)
                dd == Over(read.values, d)
                ee == Over(read.values, e)
                xb == Parts(nf, nd, f, dd, Left(l, place + nd, read.next))
                yb == Parts(nf, nd, g, ee, Left(l, place + nd, read.next))
    <3>1. x = [more |-> read.ok, buffer |-> xb] /\ y = [more |-> read.ok, buffer |-> yb]
      BY <1>1, <1>2, <1>4, <1>6, <2>1, <2>3, NextWithRest
    <3>2. read \in Readings(E) /\ ReadThrough(E, at, read, nd)
      BY <1>0, ReadWhole
    <3>. HIDE DEF x, y, read
    <3>3. read.values \in Seq(CellValues(E)) /\ read.next \in Nat /\ read.ok \in BOOLEAN
      BY <3>2, ReadingCells DEF Readings
    <3>4. /\ dd \in Arrays(E) /\ ee \in Arrays(E)
          /\ \A i \in 1 .. FieldsLimit : i <= Len(read.values) => dd[i] = read.values[i] /\ ee[i] = read.values[i]
      BY <3>3, OverShape
    <3>. HIDE DEF dd, ee
    <3>5. xb \in Buffers(E) /\ yb \in Buffers(E)
      <4>1. place + nd \in Nat
        BY <1>0
      <4>. QED
        BY <1>0, <3>3, <3>4, <4>1, PartsShape
    <3>6. /\ xb.numFeatures = nf /\ xb.numData = nd /\ xb.features = f /\ xb.data = dd
          /\ xb.remaining = Left(l, place + nd, read.next) /\ xb.remaining.length = l
          /\ yb.numFeatures = nf /\ yb.numData = nd /\ yb.features = g /\ yb.data = ee
          /\ yb.remaining = Left(l, place + nd, read.next) /\ yb.remaining.length = l
          /\ yb.remaining.at = read.next
      <4>1. /\ xb = Parts(nf, nd, f, dd, Left(l, place + nd, read.next))
            /\ yb = Parts(nf, nd, g, ee, Left(l, place + nd, read.next))
        OBVIOUS
      <4>. HIDE DEF xb, yb
      <4>. QED
        BY <4>1, PartsAre
    <3>. HIDE DEF xb, yb
    <3>7. ASSUME read.ok PROVE Same(E, nf, nd, xb, yb, k + 1)
      <4>1. Len(read.values) = nd /\ read.next >= at + nd /\ read.next <= Len(E)
        BY <1>0, <3>2, <3>7 DEF ReadThrough
      <4>2. read.next \in (k + 1) + 1 .. Len(E)
        BY <1>0, <2>1, <3>3, <4>1
      <4>3. \A i \in 1 .. nd : dd[i] = ee[i]
        <5>. TAKE i \in 1 .. nd
        <5>1. i \in 1 .. FieldsLimit /\ i <= Len(read.values)
          BY <1>0, <4>1, FieldsAssumption
        <5>. QED
          BY <3>4, <5>1
      <4>. QED
        BY <1>4, <1>6, <3>6, <4>2, <4>3 DEF Same, Counted
    <3>8. x.more = read.ok /\ y.more = read.ok /\ x.buffer = xb /\ y.buffer = yb
      BY <3>1
    <3>. QED
      BY <3>3, <3>5, <3>7, <3>8 DEF x, y
  <2>. QED
    BY <2>2, <2>3
<1>. QED
  BY <1>5, <1>6

\* A walker has told no more rows than there are cells.
LEMMA RoomIsLeft ==
  ASSUME NEW E \in Seq(Nat), NEW nf, NEW nd, NEW b, NEW c, NEW k \in Nat, Same(E, nf, nd, b, c, k)
  PROVE  k <= Len(E)
<1>1. Len(E) \in Nat
  OBVIOUS
<1>2. CASE c.remaining.length = 0
  BY <1>1, <1>2 DEF Same
<1>3. CASE c.remaining.length # 0
  BY <1>1, <1>3 DEF Same
<1>. QED
  BY <1>2, <1>3

\* At the same place, and with a row told, two buffers show the same value.
LEMMA ValueSame ==
  ASSUME NEW E, NEW nf, NEW nd, Sizes(nf, nd), NEW b, NEW c, NEW k \in Nat \ {0}, Same(E, nf, nd, b, c, k),
         NEW index \in Places(nf, nd)
  PROVE  ValueAt(b, index) = ValueAt(c, index)
<1>1. nf \in Nat /\ nd \in Nat /\ k > 0 /\ index \in Int /\ index >= -nd /\ index <= nf - 1
  BY DEF Sizes, Places
<1>2. CASE index >= 0
  <2>1. index + 1 \in 1 .. nf
    BY <1>1, <1>2
  <2>. QED
    BY <1>2, <2>1 DEF Same, ValueAt
<1>3. CASE ~(index >= 0)
  <2>1. -index \in 1 .. nd /\ nf + (-index) \in nf + 1 .. nf + nd
    BY <1>1, <1>3
  <2>2. CASE c.remaining.length = 0
    <3>1. DataAt(b, -index) = b.features[nf + (-index)] /\ DataAt(c, -index) = c.features[nf + (-index)]
      BY <2>2 DEF Same, Counted, DataAt
    <3>2. b.features[nf + (-index)] = c.features[nf + (-index)]
      BY <2>1, <2>2 DEF Same
    <3>. QED
      BY <1>3, <3>1, <3>2 DEF ValueAt
  <2>3. CASE c.remaining.length # 0
    <3>1. DataAt(b, -index) = b.data[-index] /\ DataAt(c, -index) = c.data[-index]
      BY <2>3 DEF Same, DataAt
    <3>2. b.data[-index] = c.data[-index]
      BY <1>1, <2>1, <2>3 DEF Same
    <3>. QED
      BY <1>3, <3>1, <3>2 DEF ValueAt
  <2>. QED
    BY <2>2, <2>3
<1>. QED
  BY <1>2, <1>3

\* A buffer whose cells are one number.
LEMMA BufferShape ==
  ASSUME NEW E, NEW value \in Int
  PROVE  Buffer(value) \in Buffers(E)
<1>1. [k \in 1 .. FieldsLimit |-> value] \in Arrays(E)
  BY DEF Arrays, CellValues
<1>. QED
  BY <1>1 DEF Buffer, Buffers

\* A buffer whose counts are set is a buffer with these counts.
LEMMA SetShape ==
  ASSUME NEW E, NEW nf \in Nat, NEW nd \in Nat, NEW b \in Buffers(E)
  PROVE  SetCounts(b, nf, nd) \in Buffers(E) /\ Counted(SetCounts(b, nf, nd), nf, nd)
<1>1. PICK f \in Arrays(E), d \in Arrays(E), l \in Nat, place \in Nat, at \in Nat :
        b = Parts(b.numFeatures, b.numData, f, d, Left(l, place, at))
  BY PartsOf
<1>. DEFINE x == SetCounts(b, nf, nd)
<1>2. x = Parts(nf, nd, f, d, Left(l, place, at))
  BY <1>1, SetParts
<1>. HIDE DEF x
<1>3. x \in Buffers(E)
  BY <1>2, PartsShape
<1>4. x.numFeatures = nf /\ x.numData = nd
  BY <1>2, PartsAre
<1>. QED
  BY <1>3, <1>4 DEF Counted, x

-----------------------------------------------------------------------------
(* Telling, one row after the other *)

\* What a walker that is new has told of an entry after n steps.
IsTelling(f, eptr, n) == f[0] = Untold(eptr) /\ \A k \in 1 .. n : f[k] = Told(f[k - 1], eptr)

\* There is a function from steps to what has been told by then.
LEMMA TellingExists ==
  ASSUME NEW eptr, NEW n \in Nat
  PROVE  \E f : IsTelling(f, eptr, n)
<1>. DEFINE H == {m \in Nat : \E f : IsTelling(f, eptr, m)}
<1>1. 0 \in H
  <2>1. IsTelling([k \in {0} |-> Untold(eptr)], eptr, 0)
    BY DEF IsTelling
  <2>. QED
    BY <2>1
<1>2. ASSUME NEW m \in Nat, m \in H PROVE m + 1 \in H
  <2>1. PICK f : IsTelling(f, eptr, m)
    BY <1>2
  <2>. DEFINE g == [k \in 0 .. m + 1 |-> IF k = m + 1 THEN Told(f[m], eptr) ELSE f[k]]
  <2>2. g[0] = Untold(eptr)
    BY <2>1 DEF IsTelling
  <2>3. ASSUME NEW k \in 1 .. m + 1 PROVE g[k] = Told(g[k - 1], eptr)
    <3>1. k \in 0 .. m + 1 /\ k - 1 \in 0 .. m + 1 /\ k - 1 # m + 1 /\ g[k - 1] = f[k - 1]
      OBVIOUS
    <3>2. CASE k = m + 1
      BY <3>1, <3>2
    <3>3. CASE k # m + 1
      <4>1. k \in 1 .. m /\ g[k] = f[k]
        BY <3>3
      <4>. QED
        BY <2>1, <3>1, <4>1 DEF IsTelling
    <3>. QED
      BY <3>2, <3>3
  <2>4. IsTelling(g, eptr, m + 1)
    <3>. HIDE DEF g
    <3>. QED
      BY <2>2, <2>3 DEF IsTelling
  <2>. QED
    BY <2>4
<1>3. \A k \in Nat : k \in H
  <2>. HIDE DEF H
  <2>. QED
    BY <1>1, <1>2, Induction
<1>. QED
  BY <1>3

\* The fold of Telling runs through them all.
LEMMA TellingRuns ==
  ASSUME NEW eptr, model.entries \in Seq(Nat)
  PROVE  \E f : /\ IsTelling(f, eptr, Len(model.entries))
                /\ Telling(eptr) = f[Len(model.entries)].rows
<1>. DEFINE E == model.entries
            n == Len(model.entries)
<1>1. n \in Nat /\ DOMAIN E = 1 .. n
  OBVIOUS
<1>2. PICK f : IsTelling(f, eptr, n)
  BY <1>1, TellingExists
<1>. DEFINE Eq(h) == h = [s \in SUBSET DOMAIN E |->
                     IF s = {} THEN Untold(eptr) ELSE Told(h[s \ {Max(s)}], eptr)]
            h == CHOOSE h : Eq(h)
            e == [s \in SUBSET DOMAIN E |-> f[Cardinality(s)]]
<1>3. Telling(eptr) = h[DOMAIN E].rows
  BY DEF Telling, FoldLeft, MapThenFoldSet
<1>. HIDE DEF E, n
<1>4. Eq(e)
  <2>1. ASSUME NEW s \in SUBSET DOMAIN E
        PROVE  e[s] = IF s = {} THEN Untold(eptr) ELSE Told(e[s \ {Max(s)}], eptr)
    <3>1. CASE s = {}
      <4>1. Cardinality(s) = 0
        BY <3>1, FS_EmptySet
      <4>. QED
        BY <1>2, <3>1, <4>1 DEF IsTelling
    <3>2. CASE s # {}
      <4>1. /\ s \ {Max(s)} \in SUBSET DOMAIN E /\ Cardinality(s) \in 1 .. n
            /\ Cardinality(s \ {Max(s)}) = Cardinality(s) - 1
        BY <1>1, <3>2, WithoutMax
      <4>2. f[Cardinality(s)] = Told(f[Cardinality(s) - 1], eptr)
        BY <1>2, <4>1 DEF IsTelling
      <4>. QED
        BY <3>2, <4>1, <4>2
    <3>. QED
      BY <3>1, <3>2
  <2>2. e = [s \in SUBSET DOMAIN E |-> e[s]]
    OBVIOUS
  <2>. HIDE DEF e
  <2>. QED
    BY <2>1, <2>2
<1>5. Eq(h)
  <2>. HIDE DEF Eq
  <2>. QED
    BY <1>4
<1>. HIDE DEF h
<1>6. e[1 .. n] = f[n]
  <2>1. Cardinality(1 .. n) = n /\ 1 .. n \in SUBSET DOMAIN E
    BY <1>1, FS_Interval
  <2>. QED
    BY <2>1
<1>7. h[1 .. n] = e[1 .. n]
  <2>1. \A s \in SUBSET (1 .. n) :
          /\ h[s] = IF s = {} THEN Untold(eptr) ELSE Told(h[s \ {Max(s)}], eptr)
          /\ e[s] = IF s = {} THEN Untold(eptr) ELSE Told(e[s \ {Max(s)}], eptr)
    <3>. HIDE DEF e
    <3>. QED
      BY <1>1, <1>4, <1>5
  <2>2. FoldAlike(h, e, n)
    <3>. HIDE DEF e
    <3>. QED
      BY <2>1 DEF FoldAlike
  <2>. QED
    BY <1>1, <2>2, FoldSame
<1>. QED
  BY <1>1, <1>2, <1>3, <1>6, <1>7 DEF n, E

-----------------------------------------------------------------------------
(* What a telling tells does not change when it goes on *)

WordsTold(f, eptr, n) == {WordOf(f[i].buffer, eptr) : i \in 0 .. n}
Steps(B, W) == [more : BOOLEAN, buffer : B, rows : Seq(W)]
Tales(f, eptr, n) == Steps({f[i].buffer : i \in 0 .. n}, WordsTold(f, eptr, n))

\* A step of a telling adds a word, or nothing and is the last to add one.
LEMMA TellingStep ==
  ASSUME NEW eptr, NEW B, NEW W, NEW acc \in Steps(B, W)
  PROVE  LET next == NextData(acc.buffer, model.entries)
             then == Told(acc, eptr)
         IN /\ acc.more /\ next.more =>
                 /\ then = [more |-> TRUE, buffer |-> next.buffer, rows |-> then.rows]
                 /\ then.more /\ then.buffer = next.buffer
                 /\ then.rows = Append(acc.rows, WordOf(next.buffer, eptr))
            /\ ~(acc.more /\ next.more) =>
                 /\ then \in Steps(B, W)
                 /\ ~then.more /\ then.buffer = acc.buffer /\ then.rows = acc.rows
<1>. DEFINE next == NextData(acc.buffer, model.entries)
<1>1. CASE acc.more /\ next.more
  BY <1>1 DEF Told
<1>2. CASE ~(acc.more /\ next.more)
  <2>1. Told(acc, eptr) = [acc EXCEPT !.more = FALSE]
    BY <1>2 DEF Told
  <2>. DEFINE then == Told(acc, eptr)
  <2>2. /\ then \in Steps(B, W)
        /\ ~then.more /\ then.buffer = acc.buffer /\ then.rows = acc.rows
    BY <2>1 DEF Steps
  <2>. QED
    BY <1>2, <2>2
<1>. QED
  BY <1>1, <1>2

\* What has been told, from its parts.
LEMMA StepIs ==
  ASSUME NEW B, NEW W, NEW b \in B, NEW s \in Seq(W), NEW acc,
         acc = [more |-> TRUE, buffer |-> b, rows |-> s]
  PROVE  acc \in Steps(B, W)
BY DEF Steps

\* Every step of a telling is a buffer, a sequence of words and whether there
\* is more.
LEMMA TellingShape ==
  ASSUME NEW eptr, NEW n \in Nat, NEW f, IsTelling(f, eptr, n)
  PROVE  \A k \in 0 .. n : f[k] \in Tales(f, eptr, n)
<1>. DEFINE W == WordsTold(f, eptr, n)
            B == {f[i].buffer : i \in 0 .. n}
            H == {m \in Nat : f[m] \in Steps(B, W)}
<1>1. 0 \in H
  <2>1. f[0] = [more |-> TRUE, buffer |-> f[0].buffer, rows |-> <<>>]
    BY DEF IsTelling, Untold
  <2>2. f[0].buffer \in B
    OBVIOUS
  <2>3. <<>> \in Seq(W)
    OBVIOUS
  <2>. HIDE DEF B, W
  <2>4. f[0] \in Steps(B, W)
    BY <2>1, <2>2, <2>3, StepIs
  <2>. QED
    BY <2>4
<1>2. ASSUME NEW m \in 0 .. n - 1, m \in H PROVE m + 1 \in H
  <2>. DEFINE next == NextData(f[m].buffer, model.entries)
  <2>1. m + 1 \in 1 .. n /\ (m + 1) - 1 = m /\ m + 1 \in 0 .. n /\ m + 1 \in Nat
    OBVIOUS
  <2>2. f[m + 1] = Told(f[m], eptr)
    BY <2>1 DEF IsTelling
  <2>3. f[m] \in Steps(B, W)
    BY <1>2
  <2>4. f[m + 1].buffer \in B /\ WordOf(f[m + 1].buffer, eptr) \in W
    BY <2>1 DEF WordsTold
  <2>. HIDE DEF B, W
  <2>5. CASE f[m].more /\ next.more
    <3>1. /\ f[m + 1] = [more |-> TRUE, buffer |-> next.buffer, rows |-> f[m + 1].rows]
          /\ f[m + 1].buffer = next.buffer
          /\ f[m + 1].rows = Append(f[m].rows, WordOf(next.buffer, eptr))
      <4>. DEFINE acc == f[m]
      <4>1. acc \in Steps(B, W) /\ acc.more /\ NextData(acc.buffer, model.entries).more
        BY <2>3, <2>5
      <4>. HIDE DEF acc
      <4>2. LET then == Told(acc, eptr)
            IN /\ then = [more |-> TRUE, buffer |-> NextData(acc.buffer, model.entries).buffer, rows |-> then.rows]
               /\ then.buffer = NextData(acc.buffer, model.entries).buffer
               /\ then.rows = Append(acc.rows, WordOf(NextData(acc.buffer, model.entries).buffer, eptr))
        BY <4>1, TellingStep
      <4>. QED
        BY <2>2, <4>2 DEF acc
    <3>2. f[m].rows \in Seq(W)
      BY <2>3 DEF Steps
    <3>. HIDE DEF next
    <3>3. f[m + 1].rows \in Seq(W)
      BY <2>4, <3>1, <3>2
    <3>4. f[m + 1] = [more |-> TRUE, buffer |-> f[m + 1].buffer, rows |-> f[m + 1].rows]
      BY <3>1
    <3>5. f[m + 1] \in Steps(B, W)
      BY <2>4, <3>3, <3>4, StepIs
    <3>. QED
      BY <2>1, <3>5
  <2>6. CASE ~(f[m].more /\ next.more)
    <3>1. f[m + 1] \in Steps(B, W)
      BY <2>2, <2>3, <2>6, TellingStep
    <3>. QED
      BY <2>1, <3>1
  <2>. QED
    BY <2>5, <2>6
<1>3. \A m \in 0 .. n : m \in H
  <2>1. 0 \in Int /\ n \in Int /\ \A m \in 0 .. n - 1 : m \in H => m + 1 \in H
    BY <1>2
  <2>. HIDE DEF H
  <2>. QED
    BY <1>1, <2>1, InductionTo
<1>. QED
  BY <1>3 DEF Tales

Begins(s, r) == Len(s) <= Len(r) /\ \A i \in 1 .. Len(s) : s[i] = r[i]

\* What has been told once stays told.
LEMMA TellingGrows ==
  ASSUME NEW eptr, NEW n \in Nat, NEW f, IsTelling(f, eptr, n), NEW k \in 0 .. n
  PROVE  Begins(f[k].rows, f[n].rows)
<1>. DEFINE W == WordsTold(f, eptr, n)
            H == {m \in Nat : /\ Len(f[k].rows) <= Len(f[m].rows)
                              /\ \A i \in 1 .. Len(f[k].rows) : f[k].rows[i] = f[m].rows[i]}
<1>1. \A m \in 0 .. n : f[m].rows \in Seq(W) /\ f[m] \in Tales(f, eptr, n)
  BY TellingShape DEF Tales, Steps
<1>2. k \in H
  <2>1. Len(f[k].rows) \in Nat
    BY <1>1
  <2>. QED
    BY <2>1
<1>3. ASSUME NEW m \in k .. n - 1, m \in H PROVE m + 1 \in H
  <2>. DEFINE next == NextData(f[m].buffer, model.entries)
  <2>1. m \in 0 .. n - 1 /\ m \in 0 .. n /\ m + 1 \in 0 .. n /\ m + 1 \in Nat
    OBVIOUS
  <2>2. f[m].rows \in Seq(W) /\ f[m + 1].rows \in Seq(W) /\ f[k].rows \in Seq(W)
    BY <1>1, <2>1
  <2>3. f[m + 1].rows = f[m].rows \/ f[m + 1].rows = Append(f[m].rows, WordOf(next.buffer, eptr))
    <3>1. f[m] \in Tales(f, eptr, n) /\ f[m + 1] = Told(f[m], eptr)
      <4>1. m + 1 \in 1 .. n /\ (m + 1) - 1 = m
        BY <2>1
      <4>. QED
        BY <1>1, <2>1, <4>1 DEF IsTelling
    <3>. QED
      BY <3>1, TellingStep DEF Tales
  <2>. HIDE DEF W, next
  <2>4. Len(f[m].rows) <= Len(f[m + 1].rows) /\ \A i \in 1 .. Len(f[m].rows) : f[m].rows[i] = f[m + 1].rows[i]
    BY <2>2, <2>3
  <2>5. /\ Len(f[k].rows) <= Len(f[m].rows) /\ \A i \in 1 .. Len(f[k].rows) : f[k].rows[i] = f[m].rows[i]
    BY <1>3
  <2>6. Len(f[k].rows) \in Nat /\ Len(f[m].rows) \in Nat /\ Len(f[m + 1].rows) \in Nat
    BY <2>2
  <2>. HIDE DEF H
  <2>7. Len(f[k].rows) <= Len(f[m + 1].rows)
    <3>1. Len(f[k].rows) <= Len(f[m].rows) /\ Len(f[m].rows) <= Len(f[m + 1].rows)
      BY <2>4, <2>5
    <3>2. \A x, y, z \in Nat : x <= y /\ y <= z => x <= z
      OBVIOUS
    <3>. QED
      BY <2>6, <3>1, <3>2
  <2>8. \A i \in 1 .. Len(f[k].rows) : i \in 1 .. Len(f[m].rows)
    BY <2>5, <2>6
  <2>. QED
    BY <2>1, <2>4, <2>5, <2>7, <2>8 DEF H
<1>4. \A m \in k .. n : m \in H
  <2>1. k \in Int /\ n \in Int /\ \A m \in k .. n - 1 : m \in H => m + 1 \in H
    BY <1>3
  <2>. HIDE DEF H
  <2>. QED
    BY <1>2, <2>1, InductionTo
<1>5. n \in k .. n
  OBVIOUS
<1>. QED
  BY <1>4, <1>5 DEF Begins

\* Once there is no more, nothing is added.
LEMMA TellingEnds ==
  ASSUME NEW eptr, NEW n \in Nat, NEW f, IsTelling(f, eptr, n), NEW k \in 0 .. n,
         ~NextData(f[k].buffer, model.entries).more
  PROVE  f[n].rows = f[k].rows
<1>. DEFINE H == {m \in Nat : /\ f[m].rows = f[k].rows
                              /\ f[m].buffer = f[k].buffer}
<1>1. k \in H
  OBVIOUS
<1>2. ASSUME NEW m \in k .. n - 1, m \in H PROVE m + 1 \in H
  <2>1. m \in 0 .. n - 1 /\ m + 1 \in Nat
    OBVIOUS
  <2>2. f[m + 1].buffer = f[m].buffer /\ f[m + 1].rows = f[m].rows
    <3>1. ~(f[m].more /\ NextData(f[m].buffer, model.entries).more)
      BY <1>2
    <3>2. m \in 0 .. n /\ m + 1 \in 1 .. n /\ (m + 1) - 1 = m
      BY <2>1
    <3>3. f[m] \in Tales(f, eptr, n) /\ f[m + 1] = Told(f[m], eptr)
      BY <3>2, TellingShape DEF IsTelling
    <3>. QED
      BY <3>1, <3>3, TellingStep DEF Tales
  <2>. QED
    BY <1>2, <2>1, <2>2
<1>3. \A m \in k .. n : m \in H
  <2>1. k \in Int /\ n \in Int /\ \A m \in k .. n - 1 : m \in H => m + 1 \in H
    BY <1>2
  <2>. HIDE DEF H
  <2>. QED
    BY <1>1, <2>1, InductionTo
<1>4. n \in k .. n
  OBVIOUS
<1>. QED
  BY <1>3, <1>4

-----------------------------------------------------------------------------
(* Two walkers at one entry *)

\* The loaded dictionary has room for its numbers in a buffer, and its fields
\* stand there.
Holds ==
  /\ Sizes(model.numFeatures, model.numData)
  /\ \A i \in DOMAIN model.fields :
       model.fields[i].index \in Places(model.numFeatures, model.numData)
Contents == {v \in Seq(CellValues(model.entries)) : Len(v) = model.numFeatures}
Nodes == [surface : Surfaces, template : Templates, content : Contents]
AtOnePlace(b, c, k) == Same(model.entries, model.numFeatures, model.numData, b, c, k)

\* Wherever a walker was, an entry is read into it as into a new one.
LEMMA EntrySame ==
  ASSUME Holds, model.restored, EntriesReadable, NEW ptr \in Templates, NEW b \in Buffers(model.entries)
  PROVE  /\ ReadEntry(b, ptr) \in Buffers(model.entries)
         /\ ReadEntry(Buffer(0), ptr) \in Buffers(model.entries)
         /\ AtOnePlace(ReadEntry(b, ptr), ReadEntry(Buffer(0), ptr), 0) /\ ptr \in Nat
<1>. DEFINE E == model.entries
            nf == model.numFeatures
            nd == model.numData
            x == SetCounts(b, nf, nd)
            y == SetCounts(Buffer(0), nf, nd)
<1>1. E \in Seq(Nat) /\ HeadIsRead(E, nf, nd, ptr) /\ ptr \in Nat
  BY DEF EntriesReadable, Readable, HeadIsRead
<1>2. Sizes(nf, nd) /\ nf \in Nat /\ nd \in Nat
  BY DEF Holds, Sizes
<1>3. Buffer(0) \in Buffers(E)
  BY BufferShape
<1>4. /\ x \in Buffers(E) /\ Counted(x, nf, nd) /\ y \in Buffers(E) /\ Counted(y, nf, nd)
  BY <1>2, <1>3, SetShape
<1>5. ReadEntry(b, ptr) = FillFromStorage(x, E, ptr) /\ ReadEntry(Buffer(0), ptr) = FillFromStorage(y, E, ptr)
  BY DEF ReadEntry
<1>. HIDE DEF E, nf, nd, x, y
<1>6. /\ FillFromStorage(x, E, ptr) \in Buffers(E) /\ FillFromStorage(y, E, ptr) \in Buffers(E)
      /\ Same(E, nf, nd, FillFromStorage(x, E, ptr), FillFromStorage(y, E, ptr), 0)
  BY <1>1, <1>2, <1>4, FillSame
<1>. QED
  BY <1>1, <1>5, <1>6 DEF AtOnePlace, E, nf, nd

\* Wherever a walker was, it is sent to the place that a new one is sent to.
LEMMA LocatedSame ==
  ASSUME Holds, model.restored, EntriesReadable, extra \in Seq(Nodes),
         NEW eptr \in WordPointers \cup {-n : n \in DOMAIN extra}, NEW b \in Buffers(model.entries)
  PROVE  /\ Located(b, eptr) \in Buffers(model.entries)
         /\ Located(Buffer(0), eptr) \in Buffers(model.entries)
         /\ AtOnePlace(Located(b, eptr), Located(Buffer(0), eptr), 0)
<1>1. CASE eptr \in WordPointers
  <2>1. eptr \in Templates
    BY <1>1 DEF Templates
  <2>2. eptr >= 0
    <3>1. eptr \in Nat
      BY <2>1, EntrySame
    <3>. QED
      BY <3>1
  <2>3. Located(b, eptr) = ReadEntry(b, eptr) /\ Located(Buffer(0), eptr) = ReadEntry(Buffer(0), eptr)
    BY <2>2 DEF Located
  <2>. QED
    BY <2>1, <2>3, EntrySame
<1>2. CASE eptr \in {-n : n \in DOMAIN extra}
  <2>1. PICK n \in DOMAIN extra : eptr = -n
    BY <1>2
  <2>2. n \in Nat /\ n > 0 /\ -eptr = n /\ ~(eptr >= 0) /\ extra[n] \in Nodes
    BY <2>1
  <2>. DEFINE template == extra[n].template
              content == extra[n].content
  <2>3. template \in Templates /\ content \in Seq(CellValues(model.entries)) /\ Len(content) = model.numFeatures
    BY <2>2 DEF Nodes, Contents
  <2>4. NodeOf(eptr) = extra[n]
    BY <2>2 DEF NodeOf
  <2>5. /\ Located(b, eptr) = OverwriteFeatures(ReadEntry(b, template), content)
        /\ Located(Buffer(0), eptr) = OverwriteFeatures(ReadEntry(Buffer(0), template), content)
    BY <2>2, <2>4 DEF Located
  <2>. HIDE DEF template, content
  <2>6. /\ ReadEntry(b, template) \in Buffers(model.entries)
        /\ ReadEntry(Buffer(0), template) \in Buffers(model.entries)
        /\ AtOnePlace(ReadEntry(b, template), ReadEntry(Buffer(0), template), 0)
    BY <2>3, EntrySame
  <2>. QED
    BY <2>3, <2>5, <2>6, OverwriteSame DEF AtOnePlace, Holds
<1>. QED
  BY <1>1, <1>2

\* Two walkers at one place read one word there.
LEMMA WordSame ==
  ASSUME Holds, NEW b, NEW c, NEW k \in Nat \ {0}, AtOnePlace(b, c, k), NEW eptr
  PROVE  WordOf(b, eptr) = WordOf(c, eptr)
<1>1. ASSUME NEW i \in DOMAIN model.fields
      PROVE  FieldOf(b, eptr, model.fields[i]) = FieldOf(c, eptr, model.fields[i])
  <2>1. model.fields[i].index \in Places(model.numFeatures, model.numData)
    BY DEF Holds
  <2>2. ValueAt(b, model.fields[i].index) = ValueAt(c, model.fields[i].index)
    BY <2>1, ValueSame DEF AtOnePlace, Holds
  <2>. QED
    BY <2>2 DEF FieldOf
<1>. QED
  BY <1>1 DEF WordOf

\* What a creator writes into a node is as many numbers as there are features.
LEMMA NodeSound ==
  ASSUME Holds, model.restored, EntriesReadable, NEW u, NEW surface \in Surfaces, NEW ptr \in Templates
  PROVE  MakePtr(u, surface, ptr) \in Nodes
<1>. DEFINE C == CellValues(model.entries)
            nf == model.numFeatures
            features == FeaturesAt(ptr)
            content == FillElems(features, u, HashOf(surface))
            a == ReadEntry(Buffer(0), ptr).features
<1>1. a \in [1 .. FieldsLimit -> C]
  <2>1. Buffer(0) \in Buffers(model.entries)
    BY BufferShape
  <2>2. ReadEntry(Buffer(0), ptr) \in Buffers(model.entries)
    BY <2>1, EntrySame
  <2>. QED
    BY <2>2 DEF Buffers, Arrays
<1>2. nf \in Nat /\ nf <= FieldsLimit /\ FieldsLimit \in Nat
  BY FieldsAssumption DEF Holds, Sizes
<1>3. features = SubSeq(a, 1, nf)
  BY DEF FeaturesAt
<1>4. -1 \in C
  BY DEF CellValues
<1>. HIDE DEF C, nf, features, a
<1>5. features \in Seq(C) /\ Len(features) = nf
  <2>1. a \in Seq(C) /\ Len(a) = FieldsLimit
    BY <1>1, <1>2
  <2>. QED
    BY <1>2, <1>3, <2>1
<1>6. content = [k \in 1 .. nf |->
                  IF k - 1 \in {model.fields[i].index : i \in spec.unks[u].outputs} THEN -1 ELSE features[k]]
  BY <1>2, <1>5 DEF FillElems, HashOf
<1>. DEFINE I == {model.fields[i].index : i \in spec.unks[u].outputs}
<1>. HIDE DEF I, content
<1>7. content = [k \in 1 .. nf |-> IF k - 1 \in I THEN -1 ELSE features[k]]
  BY <1>6 DEF I
<1>8. \A k \in 1 .. nf : (IF k - 1 \in I THEN -1 ELSE features[k]) \in C
  BY <1>2, <1>4, <1>5
<1>9. content \in Seq(C) /\ Len(content) = nf
  <2>1. content \in [1 .. nf -> C]
    BY <1>7, <1>8
  <2>. QED
    BY <1>2, <2>1
<1>10. content \in Contents
  BY <1>9 DEF Contents, C, nf
<1>11. MakePtr(u, surface, ptr) = [surface |-> surface, template |-> ptr, content |-> content]
  BY DEF MakePtr, content, features
<1>. QED
  BY <1>10, <1>11 DEF Nodes

-----------------------------------------------------------------------------
(* A walker and a telling, side by side *)

\* The walker w, sent to e, has told what t says, and a new one f.
Abreast(w, e, t, f) ==
  LET new == f[t.rows]
  IN /\ t.more \in BOOLEAN /\ new.more /\ Len(new.rows) = t.rows /\ t.rows <= Len(model.entries)
     /\ new.buffer \in Buffers(model.entries)
     /\ t.more => /\ AtOnePlace(w, new.buffer, t.rows)
                  /\ t.rows > 0 => WordOf(w, e) = new.rows[t.rows]
     /\ ~t.more => ~NextData(new.buffer, model.entries).more

\* A walker that is sent to an entry starts beside a new one.
LEMMA StartAbreast ==
  ASSUME Holds, model.restored, EntriesReadable, extra \in Seq(Nodes),
         NEW e \in WordPointers \cup {-n : n \in DOMAIN extra}, NEW b \in Buffers(model.entries),
         NEW f, IsTelling(f, e, 0)
  PROVE  Abreast(Located(b, e), e, [rows |-> 0, more |-> TRUE], f)
<1>. DEFINE t == [rows |-> 0, more |-> TRUE]
<1>1. t.rows = 0 /\ t.more /\ t.more \in BOOLEAN
  OBVIOUS
<1>. HIDE DEF t
<1>2. f[0] = [more |-> TRUE, buffer |-> Located(Buffer(0), e), rows |-> <<>>]
  BY DEF IsTelling, Untold
<1>3. f[0].more /\ f[0].buffer = Located(Buffer(0), e) /\ f[0].rows = <<>>
  BY <1>2
<1>4. Len(f[0].rows) = 0
  BY <1>3
<1>5. Len(model.entries) \in Nat /\ 0 <= Len(model.entries)
  BY DEF EntriesReadable
<1>6. /\ Located(Buffer(0), e) \in Buffers(model.entries)
      /\ AtOnePlace(Located(b, e), Located(Buffer(0), e), 0)
  BY LocatedSame
<1>. DEFINE new == f[0]
            w == Located(b, e)
<1>7. /\ AtOnePlace(w, new.buffer, 0) /\ new.buffer \in Buffers(model.entries)
      /\ new.more /\ Len(new.rows) = 0
  BY <1>3, <1>4, <1>6
<1>. HIDE DEF w, new
<1>8. Abreast(w, e, t, f)
  BY <1>1, <1>5, <1>7 DEF Abreast, new
<1>. QED
  BY <1>8 DEF t, w

\* One more row, or none: of both.
LEMMA StayAbreast ==
  ASSUME Holds, model.restored, EntriesReadable, NEW w \in Buffers(model.entries), NEW e,
         NEW t, t.rows \in Nat, t.more, NEW f, NEW then,
         then = [rows |-> t.rows + IF NextData(w, model.entries).more THEN 1 ELSE 0,
                 more |-> NextData(w, model.entries).more],
         IsTelling(f, e, then.rows), Abreast(w, e, t, f)
  PROVE  /\ NextData(w, model.entries).buffer \in Buffers(model.entries)
         /\ Abreast(NextData(w, model.entries).buffer, e, then, f)
<1>. DEFINE E == model.entries
            k == t.rows
            new == f[k]
            x == NextData(w, E)
            y == NextData(new.buffer, E)
<1>1. /\ new.more /\ Len(new.rows) = k /\ k <= Len(E) /\ new.buffer \in Buffers(E)
      /\ AtOnePlace(w, new.buffer, k) /\ E \in Seq(Nat)
  BY DEF Abreast, EntriesReadable
<1>2. /\ x.more = y.more /\ x.more \in BOOLEAN
      /\ x.buffer \in Buffers(E) /\ y.buffer \in Buffers(E)
      /\ x.more => AtOnePlace(x.buffer, y.buffer, k + 1)
  <2>1. Sizes(model.numFeatures, model.numData)
    BY DEF Holds
  <2>. HIDE DEF new
  <2>. QED
    BY <1>1, <2>1, NextSame DEF AtOnePlace
<1>3. CASE ~x.more
  <2>1. then.rows = k /\ then.more = x.more
    <3>. HIDE DEF x, k
    <3>1. then = [rows |-> k + 0, more |-> x.more]
      BY <1>3 DEF x, k
    <3>. QED
      BY <3>1 DEF k
  <2>2. ~then.more /\ then.more \in BOOLEAN /\ ~y.more
    <3>. HIDE DEF x, y
    <3>. QED
      BY <1>2, <1>3, <2>1
  <2>. HIDE DEF x
  <2>3. Abreast(x.buffer, e, then, f)
    BY <1>1, <2>1, <2>2 DEF Abreast
  <2>. QED
    BY <1>2, <2>3 DEF x
<1>4. CASE x.more
  <2>1. then.rows = k + 1 /\ then.more = x.more
    <3>. HIDE DEF x, k
    <3>1. then = [rows |-> k + 1, more |-> x.more]
      BY <1>4 DEF x, k
    <3>. QED
      BY <3>1
  <2>2. then.more /\ then.more \in BOOLEAN /\ y.more
    <3>. HIDE DEF x, y
    <3>. QED
      BY <1>2, <1>4, <2>1
  <2>3. /\ f[k + 1].more /\ f[k + 1].buffer = y.buffer
        /\ f[k + 1].rows = Append(new.rows, WordOf(y.buffer, e)) /\ new.rows \in Seq(WordsTold(f, e, k + 1))
    <3>1. k + 1 \in 1 .. k + 1 /\ (k + 1) - 1 = k /\ k \in 0 .. k + 1 /\ k + 1 \in Nat
      OBVIOUS
    <3>2. f[k + 1] = Told(new, e)
      BY <2>1, <3>1 DEF IsTelling
    <3>3. new \in Tales(f, e, k + 1)
      BY <2>1, <3>1, TellingShape
    <3>4. new.rows \in Seq(WordsTold(f, e, k + 1))
      BY <3>3 DEF Tales, Steps
    <3>. HIDE DEF new
    <3>5. /\ Told(new, e).more /\ Told(new, e).buffer = y.buffer
          /\ Told(new, e).rows = Append(new.rows, WordOf(y.buffer, e))
      BY <1>1, <2>2, <3>3, TellingStep DEF Tales
    <3>. QED
      BY <3>2, <3>4, <3>5
  <2>. HIDE DEF new, y, x
  <2>4. Len(f[k + 1].rows) = k + 1 /\ f[k + 1].rows[k + 1] = WordOf(y.buffer, e)
    BY <1>1, <2>3
  <2>5. WordOf(x.buffer, e) = WordOf(y.buffer, e) /\ AtOnePlace(x.buffer, y.buffer, k + 1)
    <3>1. k + 1 \in Nat \ {0} /\ AtOnePlace(x.buffer, y.buffer, k + 1)
      BY <1>2, <1>4
    <3>. QED
      BY <3>1, WordSame
  <2>6. k + 1 <= Len(E)
    <3>1. k + 1 \in Nat
      OBVIOUS
    <3>. QED
      BY <1>1, <2>5, <3>1, RoomIsLeft DEF AtOnePlace
  <2>7. /\ f[then.rows].more /\ Len(f[then.rows].rows) = then.rows /\ then.rows <= Len(model.entries)
        /\ f[then.rows].buffer \in Buffers(model.entries)
        /\ AtOnePlace(x.buffer, f[then.rows].buffer, then.rows)
        /\ WordOf(x.buffer, e) = f[then.rows].rows[then.rows]
    BY <1>2, <2>1, <2>3, <2>4, <2>5, <2>6
  <2>8. Abreast(x.buffer, e, then, f)
    BY <2>2, <2>7 DEF Abreast
  <2>. QED
    BY <1>2, <2>8 DEF x
<1>. QED
  BY <1>3, <1>4

\* Side by side to the end, both tell the same.
LEMMA AbreastTells ==
  ASSUME EntriesReadable, model.restored, NEW w, NEW e, NEW t, t.rows \in Nat,
         \A f : IsTelling(f, e, t.rows) => Abreast(w, e, t, f)
  PROVE  LET telling == Telling(e)
         IN /\ t.rows <= Len(telling)
            /\ t.rows > 0 /\ t.more => WordOf(w, e) = telling[t.rows]
            /\ ~t.more => t.rows = Len(telling)
<1>. DEFINE n == Len(model.entries)
            k == t.rows
<1>1. model.entries \in Seq(Nat) /\ n \in Nat
  BY DEF EntriesReadable
<1>2. PICK f : IsTelling(f, e, n) /\ Telling(e) = f[n].rows
  BY <1>1, TellingRuns
<1>3. PICK g : IsTelling(g, e, k)
  BY TellingExists
<1>4. k \in 0 .. n
  BY <1>1, <1>3 DEF Abreast
<1>5. IsTelling(f, e, k)
  BY <1>2, <1>4 DEF IsTelling
<1>6. Abreast(w, e, t, f)
  BY <1>5
<1>7. Len(f[k].rows) = k
  BY <1>6 DEF Abreast
<1>8. k <= Len(f[n].rows) /\ \A i \in 1 .. k : f[k].rows[i] = f[n].rows[i]
  <2>1. IsTelling(f, e, n)
    BY <1>2
  <2>. HIDE DEF n, k
  <2>2. Begins(f[k].rows, f[n].rows)
    BY <1>1, <1>4, <2>1, TellingGrows
  <2>. QED
    BY <1>7, <2>2 DEF Begins
<1>9. t.rows > 0 /\ t.more => WordOf(w, e) = f[n].rows[k]
  <2>1. ASSUME t.rows > 0 PROVE k \in 1 .. k
    BY <2>1
  <2>. QED
    BY <1>6, <1>8, <2>1 DEF Abreast
<1>10. ~t.more => k = Len(f[n].rows)
  <2>1. ASSUME ~t.more PROVE f[n].rows = f[k].rows
    <3>1. ~NextData(f[k].buffer, model.entries).more
      BY <1>6, <2>1 DEF Abreast
    <3>2. IsTelling(f, e, n)
      BY <1>2
    <3>. HIDE DEF n, k
    <3>. QED
      BY <1>1, <1>4, <3>1, <3>2, TellingEnds
  <2>. QED
    BY <1>7, <2>1
<1>. QED
  BY <1>2, <1>8, <1>9, <1>10

-----------------------------------------------------------------------------
(* The walker of the library *)

\* The walker and a telling of the entry it was sent to are side by side.
SideBySide ==
  /\ extra \in Seq(Nodes) /\ walker \in Buffers(model.entries)
  /\ told = Nowhere \/ told.rows \in Nat
  /\ \A w, e, t, f :
       w = walker /\ e = current /\ t = told /\ t # Nowhere /\ IsTelling(f, e, t.rows) =>
         Abreast(w, e, t, f)
WalkInv ==
  /\ input \in Inputs
  /\ ~model.restored => extra = <<>> /\ told = Nowhere /\ \E value \in Int : walker = Buffer(value)
  /\ model.restored => Holds
  /\ model.restored /\ EntriesReadable => SideBySide

\* What does not change as long as the dictionary does not,
LEMMA Unmoved ==
  ASSUME model' = model, input' = input
  PROVE  /\ EntriesReadable' <=> EntriesReadable
         /\ Nodes' = Nodes /\ Templates' = Templates
         /\ Holds' <=> Holds
<1>1. WordPointers' = WordPointers
  BY DEF WordPointers, PointersOf
<1>2. Templates' = Templates
  BY <1>1 DEF Templates, spec
<1>3. \A ptr : Readable(ptr)' <=> Readable(ptr)
  BY DEF Readable
<1>4. EntriesReadable' <=> EntriesReadable
  BY <1>2, <1>3 DEF EntriesReadable
<1>5. Nodes' = Nodes
  BY <1>2 DEF Nodes, Contents
<1>6. Holds' <=> Holds
  BY DEF Holds
<1>. QED
  BY <1>2, <1>4, <1>5, <1>6

\* and while the nodes do not either.
LEMMA UnmovedTelling ==
  ASSUME model' = model, extra' = extra, NEW w, NEW e, NEW t, NEW f
  PROVE  /\ IsTelling(f, e, t.rows)' <=> IsTelling(f, e, t.rows)
         /\ Abreast(w, e, t, f)' <=> Abreast(w, e, t, f)
<1>1. \A b : WordOf(b, e)' = WordOf(b, e)
  BY DEF WordOf, FieldOf, NodeOf
<1>2. Untold(e)' = Untold(e)
  BY DEF Untold, Located, ReadEntry, NodeOf
<1>3. \A acc : Told(acc, e)' = Told(acc, e)
  BY <1>1 DEF Told
<1>4. IsTelling(f, e, t.rows)' <=> IsTelling(f, e, t.rows)
  BY <1>2, <1>3 DEF IsTelling
<1>5. Abreast(w, e, t, f)' <=> Abreast(w, e, t, f)
  BY <1>1 DEF Abreast, AtOnePlace
<1>. QED
  BY <1>4, <1>5

\* A step that leaves dictionary, nodes and walker alone.
LEMMA WalkKept ==
  ASSUME WalkInv, UNCHANGED <<input, model, extra, walker, current, told>>
  PROVE  WalkInv'
<1>1. (EntriesReadable' <=> EntriesReadable) /\ Nodes' = Nodes /\ (Holds' <=> Holds)
  BY Unmoved
<1>2. ASSUME SideBySide PROVE SideBySide'
  <2>1. ASSUME NEW w, NEW e, NEW t, NEW f, w = walker', e = current', t = told', t # Nowhere,
               IsTelling(f, e, t.rows)'
        PROVE  Abreast(w, e, t, f)'
    <3>1. IsTelling(f, e, t.rows)
      BY <2>1, UnmovedTelling
    <3>2. Abreast(w, e, t, f)
      BY <1>2, <2>1, <3>1 DEF SideBySide
    <3>. QED
      BY <3>2, UnmovedTelling
  <2>2. extra' \in Seq(Nodes') /\ walker' \in Buffers(model'.entries) /\ (told' = Nowhere \/ told'.rows \in Nat)
    BY <1>1, <1>2 DEF SideBySide
  <2>. QED
    BY <2>1, <2>2 DEF SideBySide, Nowhere
<1>. QED
  BY <1>1, <1>2 DEF WalkInv, Nowhere

\* A walker of the library that was never sent anywhere is not asked anything.
LEMMA WalkStart == Init => WalkInv
<1>. SUFFICES ASSUME Init PROVE WalkInv
  OBVIOUS
<1>1. input \in Inputs
  BY DEF Init, BuilderInit
<1>2. ~model.restored /\ extra = <<>> /\ told = Nowhere
  BY DEF Init, NoDictionary
<1>3. \E value \in Int : walker = Buffer(value)
  BY MemoryAssumption DEF Init
<1>. QED
  BY <1>1, <1>2, <1>3 DEF WalkInv

\* A dictionary of such inputs holds what its fields ask for.
LEMMA WalkLoad ==
  ASSUME InputsFit, WalkInv, LoadModel
  PROVE  WalkInv'
<1>1. /\ ~model.restored /\ input' = input /\ input \in Inputs /\ extra' = extra /\ walker' = walker
      /\ told' = told /\ current' = current
      /\ extra = <<>> /\ told = Nowhere /\ \E value \in Int : walker = Buffer(value)
  BY DEF LoadModel, WalkInv, builderVars
<1>2. CASE model' = Holder(Restored)
  <2>1. /\ model'.numFeatures = NumDicFeatures(spec) /\ model'.numData = NumDicData(spec)
        /\ DOMAIN model'.fields = Fields(spec)
        /\ \A i \in Fields(spec) : model'.fields[i].index = DicIndex(spec, i)
    BY <1>2 DEF Holder
  <2>2. spec' = spec /\ input.spec = spec
    BY <1>1 DEF spec
  <2>3. NumDicFeatures(spec) \in Nat /\ NumDicData(spec) \in Nat
    BY <1>1, SizesOf DEF spec
  <2>4. NumDicData(spec) > 0 /\ NumDicFeatures(spec) + NumDicData(spec) <= FieldsLimit
    BY <1>1 DEF InputsFit, Fits, spec
  <2>5. \A i \in Fields(spec) : DicIndex(spec, i) \in Places(NumDicFeatures(spec), NumDicData(spec))
    BY <1>1, IndexInPlace DEF spec
  <2>6. Sizes(NumDicFeatures(spec), NumDicData(spec))
    BY <2>3, <2>4 DEF Sizes
  <2>7. Holds'
    BY <2>1, <2>5, <2>6 DEF Holds
  <2>8. walker' \in Buffers(model'.entries)
    BY <1>1, BufferShape
  <2>9. SideBySide'
    BY <1>1, <2>8 DEF SideBySide, Nowhere
  <2>10. model'.restored
    BY <1>2 DEF Holder
  <2>. QED
    BY <1>1, <2>7, <2>9, <2>10 DEF WalkInv
<1>3. CASE model' = NoDictionary
  <2>1. ~model'.restored
    BY <1>3 DEF NoDictionary
  <2>. QED
    BY <1>1, <2>1 DEF WalkInv, Nowhere
<1>. QED
  BY <1>2, <1>3 DEF LoadModel

\* A node that is made can be told like a word.
LEMMA WalkNode ==
  ASSUME WalkInv, model.restored, told = Nowhere, NEW u, NEW surface \in Surfaces, NEW ptr \in Templates,
         MakeNode(u, surface, ptr)
  PROVE  WalkInv'
<1>1. /\ model' = model /\ input' = input /\ walker' = walker /\ told' = told
      /\ extra' = extra \/ extra' = Append(extra, MakePtr(u, surface, ptr))
  BY DEF MakeNode, builderVars
<1>2. (EntriesReadable' <=> EntriesReadable) /\ Nodes' = Nodes /\ (Holds' <=> Holds)
  BY <1>1, Unmoved
<1>3. Holds /\ input \in Inputs
  BY DEF WalkInv
<1>4. ASSUME EntriesReadable PROVE SideBySide'
  <2>1. extra \in Seq(Nodes) /\ walker \in Buffers(model.entries)
    BY <1>4 DEF WalkInv, SideBySide
  <2>2. MakePtr(u, surface, ptr) \in Nodes
    BY <1>3, <1>4, NodeSound
  <2>3. extra' \in Seq(Nodes')
    <3>1. extra' \in Seq(Nodes)
      BY <1>1, <2>1, <2>2
    <3>. QED
      BY <1>2, <3>1
  <2>4. walker' \in Buffers(model'.entries) /\ told' = Nowhere
    BY <1>1, <2>1
  <2>. QED
    BY <2>3, <2>4 DEF SideBySide, Nowhere
<1>. QED
  BY <1>1, <1>2, <1>3, <1>4 DEF WalkInv

\* Sent to an entry, the walker is beside a new one,
LEMMA WalkLocate ==
  ASSUME WalkInv, Locate
  PROVE  WalkInv'
<1>1. PICK eptr \in WordPointers \cup {-n : n \in DOMAIN extra} :
        walker' = Located(walker, eptr) /\ current' = eptr
  BY DEF Locate
<1>2. /\ model.restored /\ model' = model /\ input' = input /\ extra' = extra
      /\ told' = [rows |-> 0, more |-> TRUE]
  BY DEF Locate, builderVars
<1>3. (EntriesReadable' <=> EntriesReadable) /\ Nodes' = Nodes /\ (Holds' <=> Holds)
  BY <1>2, Unmoved
<1>4. Holds /\ input \in Inputs
  BY <1>2 DEF WalkInv
<1>5. ASSUME EntriesReadable PROVE SideBySide'
  <2>1. extra \in Seq(Nodes) /\ walker \in Buffers(model.entries)
    BY <1>2, <1>5 DEF WalkInv, SideBySide
  <2>2. Located(walker, eptr) \in Buffers(model.entries)
    BY <1>2, <1>4, <1>5, <2>1, LocatedSame
  <2>3. ASSUME NEW w, NEW e, NEW t, NEW f, w = walker', e = current', t = told', IsTelling(f, e, t.rows)'
        PROVE  Abreast(w, e, t, f)'
    <3>1. w = Located(walker, eptr) /\ e = eptr /\ t = [rows |-> 0, more |-> TRUE] /\ t.rows = 0
      BY <1>1, <1>2, <2>3
    <3>2. IsTelling(f, e, t.rows)
      BY <1>2, <2>3, UnmovedTelling
    <3>3. IsTelling(f, eptr, 0)
      BY <3>1, <3>2
    <3>4. Abreast(Located(walker, eptr), eptr, [rows |-> 0, more |-> TRUE], f)
      BY <1>2, <1>4, <1>5, <2>1, <3>3, StartAbreast
    <3>5. Abreast(w, e, t, f)
      BY <3>1, <3>4
    <3>. QED
      BY <1>2, <3>5, UnmovedTelling
  <2>4. extra' \in Seq(Nodes') /\ walker' \in Buffers(model'.entries) /\ told'.rows \in Nat
    BY <1>1, <1>2, <1>3, <2>1, <2>2
  <2>. QED
    BY <2>3, <2>4 DEF SideBySide
<1>. QED
  BY <1>2, <1>3, <1>4, <1>5 DEF WalkInv

\* stays there row after row,
LEMMA WalkNext ==
  ASSUME WalkInv, NextRow
  PROVE  WalkInv'
<1>1. /\ told.more /\ model' = model /\ input' = input /\ extra' = extra /\ current' = current
      /\ walker' = NextData(walker, model.entries).buffer
      /\ told' = [rows |-> told.rows + IF NextData(walker, model.entries).more THEN 1 ELSE 0,
                  more |-> NextData(walker, model.entries).more]
  BY DEF NextRow, builderVars
<1>2. told # Nowhere /\ model.restored
  <2>1. told # Nowhere
    BY <1>1 DEF Nowhere
  <2>. QED
    BY <2>1 DEF WalkInv
<1>3. (EntriesReadable' <=> EntriesReadable) /\ Nodes' = Nodes /\ (Holds' <=> Holds)
  BY <1>1, Unmoved
<1>4. Holds /\ input \in Inputs
  BY <1>2 DEF WalkInv
<1>5. ASSUME EntriesReadable PROVE SideBySide'
  <2>1. /\ extra \in Seq(Nodes) /\ walker \in Buffers(model.entries) /\ told.rows \in Nat
        /\ SideBySide
    BY <1>2, <1>5 DEF WalkInv, SideBySide
  <2>2. told'.rows \in {told.rows, told.rows + 1}
    BY <1>1, <2>1
  <2>3. ASSUME NEW w, NEW e, NEW t, NEW f, w = walker', e = current', t = told', IsTelling(f, e, t.rows)'
        PROVE  w \in Buffers(model.entries) /\ Abreast(w, e, t, f)'
    <3>1. IsTelling(f, e, t.rows)
      BY <1>1, <2>3, UnmovedTelling
    <3>2. IsTelling(f, e, told.rows)
      BY <2>1, <2>2, <2>3, <3>1 DEF IsTelling
    <3>3. Abreast(walker, e, told, f)
      BY <1>1, <1>2, <2>1, <2>3, <3>2 DEF SideBySide
    <3>. DEFINE v == walker
                s == told
    <3>4. NextData(v, model.entries).buffer \in Buffers(model.entries)
          /\ Abreast(NextData(v, model.entries).buffer, e, t, f)
      <4>1. t = [rows |-> s.rows + IF NextData(v, model.entries).more THEN 1 ELSE 0,
                 more |-> NextData(v, model.entries).more]
        BY <1>1, <2>3
      <4>. QED
        BY <1>1, <1>2, <1>4, <1>5, <2>1, <3>1, <3>3, <4>1, StayAbreast
    <3>5. w \in Buffers(model.entries) /\ Abreast(w, e, t, f)
      BY <1>1, <2>3, <3>4
    <3>. QED
      BY <1>1, <3>5, UnmovedTelling
  <2>4. walker' \in Buffers(model.entries)
    <3>1. \A e, t : t = told' => t.rows \in Nat
      BY <2>1, <2>2
    <3>2. \A e, t : e = current' /\ t = told' => \E f : IsTelling(f, e, t.rows)
      BY <3>1, TellingExists
    <3>3. \A e, t, f : IsTelling(f, e, t.rows) => IsTelling(f, e, t.rows)'
      BY <1>1, UnmovedTelling
    <3>. QED
      BY <2>3, <3>2, <3>3
  <2>5. extra' \in Seq(Nodes') /\ walker' \in Buffers(model'.entries) /\ told'.rows \in Nat
    BY <1>1, <1>3, <2>1, <2>2, <2>4
  <2>. QED
    BY <2>3, <2>5 DEF SideBySide
<1>. QED
  BY <1>1, <1>2, <1>3, <1>4, <1>5 DEF WalkInv

\* and a new sentence forgets where it was sent.
LEMMA WalkAnew ==
  ASSUME WalkInv, NewSentence
  PROVE  WalkInv'
<1>1. model' = model /\ input' = input /\ walker' = walker /\ extra' = <<>> /\ told' = Nowhere /\ model.restored
  BY DEF NewSentence, builderVars
<1>2. (EntriesReadable' <=> EntriesReadable) /\ Nodes' = Nodes /\ (Holds' <=> Holds)
  BY <1>1, Unmoved
<1>3. ASSUME EntriesReadable PROVE SideBySide'
  <2>1. walker' \in Buffers(model'.entries)
    BY <1>1, <1>3 DEF WalkInv, SideBySide
  <2>2. extra' \in Seq(Nodes')
    BY <1>1
  <2>. QED
    BY <1>1, <2>1, <2>2 DEF SideBySide, Nowhere
<1>. QED
  BY <1>1, <1>2, <1>3 DEF WalkInv

\* So every step keeps the two together.
LEMMA WalkStep ==
  ASSUME InputsFit
  PROVE  WalkInv /\ [Next]_wordsVars => WalkInv'
<1>. SUFFICES ASSUME WalkInv, [Next]_wordsVars PROVE WalkInv'
  OBVIOUS
<1>1. CASE ImportCsv /\ UNCHANGED <<arenaVars, model, extra, walker, current, told>>
  <2>1. input' = input
    BY <1>1, ImportKeepsInput
  <2>. QED
    BY <1>1, <2>1, WalkKept
<1>2. CASE LoadModel
  BY <1>2, WalkLoad
<1>3. CASE MakeUnknown
  <2>1. model.restored /\ told = Nowhere
    BY <1>3 DEF MakeUnknown, Analyzing
  <2>2. PICK u \in DOMAIN spec.unks, surface \in Surfaces : MakeNode(u, surface, model.patternPtrs[u])
    BY <1>3 DEF MakeUnknown
  <2>3. model.patternPtrs[u] \in Templates
    BY DEF Templates
  <2>. QED
    BY <2>1, <2>2, <2>3, WalkNode
<1>4. CASE MakeNormalized
  <2>1. model.restored /\ told = Nowhere
    BY <1>4 DEF MakeNormalized, Analyzing
  <2>2. PICK u \in DOMAIN spec.unks, surface \in Surfaces, ptr \in WordPointers : MakeNode(u, surface, ptr)
    BY <1>4 DEF MakeNormalized
  <2>3. ptr \in Templates
    BY DEF Templates
  <2>. QED
    BY <2>1, <2>2, <2>3, WalkNode
<1>5. CASE OtherMemory
  BY <1>5, WalkKept DEF OtherMemory, builderVars
<1>6. CASE Locate
  BY <1>6, WalkLocate
<1>7. CASE NextRow
  BY <1>7, WalkNext
<1>8. CASE NewSentence
  BY <1>8, WalkAnew
<1>9. CASE UNCHANGED wordsVars
  BY <1>9, WalkKept DEF wordsVars, builderVars
<1>. QED
  BY <1>1, <1>2, <1>3, <1>4, <1>5, <1>6, <1>7, <1>8, <1>9 DEF Next

\* Side by side they tell the same.
LEMMA WalkTells == WalkInv /\ EntriesReadable => WalkerTellsTheWord
<1>. SUFFICES ASSUME WalkInv, EntriesReadable, told # Nowhere
              PROVE  LET telling == Telling(current)
                     IN /\ told.rows <= Len(telling)
                        /\ told.rows > 0 /\ told.more => WordOf(walker, current) = telling[told.rows]
                        /\ ~told.more => told.rows = Len(telling)
  BY DEF WalkerTellsTheWord
<1>1. model.restored /\ SideBySide
  BY DEF WalkInv
<1>2. told.rows \in Nat
  BY <1>1 DEF SideBySide
<1>3. \A f : IsTelling(f, current, told.rows) => Abreast(walker, current, told, f)
  BY <1>1 DEF SideBySide
<1>. QED
  BY <1>1, <1>2, <1>3, AbreastTells

\* Whatever the one walker of the library was sent to before, and whatever its
\* memory held when it was made, it tells of a word or a node the rows that a
\* new walker tells, all of them and in order: nothing of an earlier entry is
\* left in features, data, the rows that remain or the count of rows.
THEOREM WalkersTellTheWord ==
  ASSUME InputsFit
  PROVE  Spec => [](EntriesReadable => WalkerTellsTheWord)
<1>1. WalkInv => (EntriesReadable => WalkerTellsTheWord)
  BY WalkTells
<1>2. WalkInv /\ [Next]_wordsVars => WalkInv'
  BY WalkStep
<1>. QED
  BY WalkStart, <1>1, <1>2, PTL DEF Spec
=============================================================================
