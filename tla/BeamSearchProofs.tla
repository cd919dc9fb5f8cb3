-------------------------- MODULE BeamSearchProofs ---------------------------
(***************************************************************************)
(* Theorems of BeamSearch for every set of lattices and every beam         *)
(* configuration: pointers between beams are valid, fillIn knows where it  *)
(* is, and the words it returns cover the sentence; every node that can be *)
(* reached keeps a path; the score of the best path is that of its words;  *)
(* and the search keeps the promise of Segmentation.                       *)
(***************************************************************************)
EXTENDS BeamSearch, CommonLemmas, TLAPS

\* A sequence of one element, as the solvers need it.
LEMMA Singleton == ASSUME NEW S, NEW x \in S PROVE <<x>> \in Seq(S)
OBVIOUS

\* The sizes of the beams are numbers.
LEMMA ConfigSizes ==
  ASSUME cfg \in Configs
  PROVE  BeamSize \in Nat /\ GlobalBeam \in Int
BY ConfigsAssumption DEF BeamSize, GlobalBeam
-----------------------------------------------------------------------------
\* An address of an existing element.
IsElem(a) == a[1] \in DOMAIN beam /\ a[2] \in DOMAIN beam[a[1]]

\* Which nodes have beams: none before the bootstrap, then the two BOS; while
\* a boundary is scored all of its nodes but those still to do; no later one.
Scored ==
  /\ phase = "bootstrap" => DOMAIN beam = {}
  /\ phase # "bootstrap" =>
       /\ Bos0 \in DOMAIN beam /\ beam[Bos0] = <<Element(NullPtr, 0)>>
       /\ Bos1 \in DOMAIN beam /\ beam[Bos1] = <<Element(<<Bos0, 1>>, 0)>>
  /\ \A v \in DOMAIN beam : v[1] <= bnd
  /\ phase = "boundary" => \A v \in DOMAIN beam : v[1] < bnd
  /\ phase = "nodes" => \A v \in Row(bnd) : v \in todo <=> v \notin DOMAIN beam
  /\ phase = "nodes" => \A i \in DOMAIN gbeam : gbeam[i] \in Candidates(bnd)
  /\ phase \in {"path", "walk"} /\ lat.n > 0 => Eos \in DOMAIN beam

\* fillIn has collected a chain of words from EOS back to where topPtr is.
Chained ==
  /\ elems # <<>> => EndOf(elems[1][1]) = lat.n + 2
  /\ \A i \in 1 .. Len(elems) - 1 : EndOf(elems[i + 1][1]) = elems[i][1][1]
Walking ==
  phase = "walk" =>
    /\ lat.n > 0
    /\ IsElem(top)
    /\ top[1][1] >= 2
    /\ IF elems = <<>> THEN top[1] = Eos ELSE top = elems[Len(elems)]
    /\ Chained

IInv == TypeOK /\ BackPointers /\ Scored /\ Walking /\ KnowsItsBeam /\ CoversSentence

\* The lattice of a well-typed state has the shape LatticeBuilder gives it.
LEMMA LatIsLattice == TypeOK => IsLattice(lat) /\ lat.n \in Nat
BY LatticesAssumption DEF TypeOK, IsLattice

\* The members of Candidates are the elements that end at the boundary.
LEMMA CandidateIsElem ==
  ASSUME NEW b, NEW a
  PROVE  a \in Candidates(b) <=>
           \E v \in DOMAIN beam : \E k \in DOMAIN beam[v] : EndOf(v) = b /\ a = <<v, k>>
BY DEF Candidates, Ends

\* Extending an element by a node that starts where it ends gives a well-typed
\* element with a valid pointer and the right score.
LEMMA Extends ==
  ASSUME IInv, bnd >= 2, NEW v \in Row(bnd), NEW a \in Candidates(bnd)
  PROVE  /\ IsElem(a)
         /\ a \in Addr
         /\ EndOf(a[1]) = bnd
         /\ NewScore(a, v) \in Int
         /\ NewScore(a, v) = Elem(a).score + weight[<<Elem(a).prev[1], a[1], v>>]
<1>1. PICK u \in DOMAIN beam : \E k \in DOMAIN beam[u] : EndOf(u) = bnd /\ a = <<u, k>>
  BY CandidateIsElem
<1>k. PICK k \in DOMAIN beam[u] : EndOf(u) = bnd /\ a = <<u, k>>
  BY <1>1
<1>2. u \in Node /\ k \in Nat
  BY Member DEF IInv, TypeOK
<1>3. u # Bos0
  BY <1>k, LatIsLattice DEF IInv, Bos0, EndOf, EndIn
<1>4. /\ Elem(a) \in [prev : Addr \cup {NullPtr}, score : Int]
      /\ Elem(a) = beam[u][k]
  BY <1>k, Member DEF IInv, TypeOK, Elem
<1>5. /\ Elem(a).prev[1] \in DOMAIN beam
      /\ EndOf(Elem(a).prev[1]) = u[1]
  <2>1. u \in DOMAIN beam \ {Bos0}
    BY <1>3
  <2>2. /\ beam[u][k].prev[1] \in DOMAIN beam
        /\ EndOf(beam[u][k].prev[1]) = u[1]
    BY <2>1 DEF IInv, BackPointers
  <2>. QED
    BY <2>2, <1>4
<1>6. Elem(a).prev[1] \in Node /\ v \in Node /\ v[1] = bnd
  BY <1>5 DEF IInv, TypeOK, Row, RowOf, Node
<1>7. <<Elem(a).prev[1], u, v>> \in TriplesOf(lat)
  BY <1>k, <1>2, <1>5, <1>6 DEF TriplesOf, EndOf, Node
<1>8. weight[<<Elem(a).prev[1], u, v>>] \in Int
  BY <1>7, ScoresAssumption DEF IInv, TypeOK
<1>. QED
  BY <1>k, <1>2, <1>4, <1>8 DEF NewScore, LocalScore, IsElem, Addr

\* The invariant holds before the first BOS beam exists.
LEMMA InitIInv == Init => IInv
<1> SUFFICES ASSUME Init PROVE IInv
  OBVIOUS
<1>1. IsLattice(lat) /\ lat.n \in Nat
  BY LatticesAssumption DEF Init, IsLattice
<1>2. TypeOK
  BY <1>1 DEF Init, TypeOK, Addr
<1>. QED
  BY <1>1, <1>2 DEF Init, IInv, BackPointers, Scored, Walking, KnowsItsBeam, CoversSentence

\* Bootstrap creates the two BOS beams, whose pointers start the chains.
LEMMA BootstrapStep == IInv /\ Bootstrap => IInv'
<1> SUFFICES ASSUME IInv, Bootstrap PROVE IInv'
  OBVIOUS
<1>1. IsLattice(lat) /\ lat.n \in Nat /\ lat' = lat
  BY LatIsLattice DEF IInv, Bootstrap
<1>2. Bos0 # Bos1 /\ Bos0 \in Node /\ Bos1 \in Node /\ <<Bos0, 1>> \in Addr
  BY DEF Bos0, Bos1, Node, NodesOf, Addr
<1>3. /\ DOMAIN beam' = {Bos0, Bos1}
      /\ beam'[Bos0] = <<Element(NullPtr, 0)>>
      /\ beam'[Bos1] = <<Element(<<Bos0, 1>>, 0)>>
  BY <1>2 DEF Bootstrap
<1>4. TypeOK'
  <2>1. \A v \in DOMAIN beam' : beam'[v] \in Seq([prev : Addr \cup {NullPtr}, score : Int])
    <3>1. Element(NullPtr, 0) \in [prev : Addr \cup {NullPtr}, score : Int]
      BY DEF Element
    <3>2. Element(<<Bos0, 1>>, 0) \in [prev : Addr \cup {NullPtr}, score : Int]
      BY <1>2 DEF Element
    <3> DEFINE R == [prev : Addr \cup {NullPtr}, score : Int]
    <3> HIDE DEF R
    <3>3. Element(NullPtr, 0) \in R /\ Element(<<Bos0, 1>>, 0) \in R
      BY <3>1, <3>2 DEF R
    <3>4. beam'[Bos0] \in Seq(R) /\ beam'[Bos1] \in Seq(R)
      BY <1>3, <3>3, Singleton
    <3>. QED
      BY <1>3, <3>4 DEF R
  <2>2. DOMAIN beam' \subseteq Node
    BY <1>2, <1>3
  <2>3. Node' = Node /\ Addr' = Addr /\ Row(bnd)' = Row(bnd)
    BY <1>1 DEF Bootstrap, Node, Addr, Row
  <2>. QED
    BY <2>1, <2>2, <2>3 DEF IInv, TypeOK, Bootstrap, walking
<1>5. BackPointers'
  <2>1. \A k \in DOMAIN beam'[Bos1] : k = 1 /\ beam'[Bos1][k].prev = <<Bos0, 1>>
    BY <1>3 DEF Element
  <2>2. EndIn(lat', Bos0) = 1 /\ Bos1[1] = 1
    BY <1>1 DEF EndIn, Bos0, Bos1
  <2>3. 1 \in DOMAIN beam'[Bos0]
    BY <1>3
  <2>. QED
    <3>1. DOMAIN beam' \ {Bos0} = {Bos1}
      BY <1>2, <1>3
    <3>2. \A k \in DOMAIN beam'[Bos1] :
            /\ beam'[Bos1][k].prev[1] \in DOMAIN beam'
            /\ EndIn(lat', beam'[Bos1][k].prev[1]) = Bos1[1]
            /\ beam'[Bos1][k].prev[2] \in DOMAIN beam'[beam'[Bos1][k].prev[1]]
      BY <1>3, <2>1, <2>2, <2>3
    <3>. QED
      BY <3>1, <3>2 DEF BackPointers, EndOf
<1>6. Scored'
  BY <1>1, <1>2, <1>3 DEF IInv, TypeOK, Scored, Bootstrap, Bos0, Bos1
<1>. QED
  BY <1>4, <1>5, <1>6 DEF IInv, Walking, KnowsItsBeam, CoversSentence, Bootstrap

\* The steps that leave the beams alone keep every fact about them.
LEMMA SameBeams ==
  ASSUME IInv, UNCHANGED <<cfg, lat, weight, beam>>
  PROVE  BackPointers' /\ Node' = Node /\ Addr' = Addr /\ Eos' = Eos
BY DEF IInv, BackPointers, Node, Addr, EndOf, Eos

\* Ranking the global beam and the cutoff change no beam.
LEMMA StartBoundaryStep == IInv /\ StartBoundary => IInv'
<1> SUFFICES ASSUME IInv, StartBoundary PROVE IInv'
  OBVIOUS
<1>1. UNCHANGED <<cfg, lat, weight, bnd, beam, top, myBeam, elems>> /\ phase = "boundary" /\ phase' = "nodes"
  BY DEF StartBoundary, walking
<1>2. BackPointers' /\ Node' = Node /\ Addr' = Addr
  BY <1>1, SameBeams
<1>3. /\ gbeam' \in Seq(Candidates(bnd))
      /\ Candidates(bnd)' = Candidates(bnd)
  <2>1. gbeam' \in Seq(Candidates(bnd))
    <3>1. CASE GlobalBeam > 0
      <4>1. gbeam' \in Best(Candidates(bnd), GlobalBeam, Outranks)
        BY <3>1 DEF StartBoundary
      <4>2. PICK m \in 0 .. GlobalBeam : gbeam' \in [1 .. m -> Candidates(bnd)]
        BY <4>1 DEF Best
      <4>. QED
        BY <4>2, ConfigSizes DEF IInv, TypeOK
    <3>2. CASE ~ GlobalBeam > 0
      BY <3>2 DEF StartBoundary
    <3>. QED
      BY <3>1, <3>2
  <2>. QED
    BY <2>1, <1>1 DEF Candidates, Ends, EndOf
<1>4. \A i \in DOMAIN gbeam' : gbeam'[i] \in Candidates(bnd)
  BY <1>3, Member
<1>5. bnd >= 2
  BY DEF IInv, TypeOK
<1>6. gbeam' \in Seq(Addr)
  <2>1. Candidates(bnd) \subseteq Addr
    <3> SUFFICES ASSUME NEW a \in Candidates(bnd) PROVE a \in Addr
      OBVIOUS
    <3>1. PICK v \in DOMAIN beam : \E k \in DOMAIN beam[v] : a = <<v, k>>
      BY CandidateIsElem
    <3>. QED
      BY <3>1, Member DEF IInv, TypeOK, Addr
  <2>. QED
    BY <1>3, <2>1
<1>7. kept' \subseteq Node
  BY <1>1 DEF StartBoundary, KeptNodes, Row, RowOf, Node
<1>8. todo' = Row(bnd) /\ Row(bnd)' = Row(bnd)
  BY <1>1 DEF StartBoundary, Row
<1>9. TypeOK'
  BY <1>1, <1>2, <1>6, <1>7, <1>8 DEF IInv, TypeOK
<1>10. Scored'
  <2>1. \A v \in Row(bnd) : v \notin DOMAIN beam
    BY <1>1 DEF IInv, TypeOK, Scored, Row, RowOf
  <2>. QED
    BY <1>1, <1>3, <1>4, <1>8, <2>1 DEF IInv, Scored
<1>. QED
  BY <1>1, <1>2, <1>9, <1>10 DEF IInv, Walking, KnowsItsBeam, CoversSentence

\* Advancing to the next boundary changes no beam.
LEMMA EndBoundaryStep == IInv /\ EndBoundary => IInv'
<1> SUFFICES ASSUME IInv, EndBoundary PROVE IInv'
  OBVIOUS
<1>1. /\ UNCHANGED <<cfg, lat, weight, beam, gbeam, todo, kept, top, myBeam, elems>>
      /\ phase = "nodes" /\ phase' \in {"path", "boundary"}
      /\ todo = {}
  BY DEF EndBoundary, walking
<1>2. BackPointers' /\ Node' = Node /\ Addr' = Addr /\ Eos' = Eos
  BY <1>1, SameBeams
<1>n. lat.n \in Nat /\ IsLattice(lat)
  BY LatIsLattice DEF IInv
<1>3. bnd \in Int /\ bnd \in 2 .. lat.n + 2
  BY <1>n DEF IInv, TypeOK
<1>b. bnd' \in 2 .. lat.n + 2 /\ (phase' = "boundary" => bnd' = bnd + 1) /\ bnd' >= bnd
  BY <1>n, <1>3 DEF EndBoundary
<1>4. TypeOK'
  BY <1>1, <1>2, <1>b DEF IInv, TypeOK, Row
<1>5. \A v \in DOMAIN beam : v[1] \in Int /\ v[1] <= bnd
  <2>1. \A v \in Node : v[1] \in Int
    BY <1>n, NodeShape DEF Node
  <2>. QED
    BY <2>1 DEF IInv, TypeOK, Scored
<1>6. phase' = "path" => Eos \in DOMAIN beam
  <2>1. Eos \in Row(lat.n + 2)
    BY DEF Eos, EosOf, Row, RowOf, NodesOf
  <2>. QED
    BY <1>1, <2>1 DEF IInv, Scored, EndBoundary
<1>7. Scored'
  BY <1>1, <1>2, <1>3, <1>b, <1>5, <1>6 DEF IInv, Scored
<1>. QED
  BY <1>1, <1>2, <1>4, <1>7 DEF IInv, Walking, KnowsItsBeam, CoversSentence

\* fillIn starts at the first element of EOS.
LEMMA StartPathStep == IInv /\ StartPath => IInv'
<1> SUFFICES ASSUME IInv, StartPath PROVE IInv'
  OBVIOUS
<1>1. /\ UNCHANGED <<cfg, lat, weight, bnd, beam, gbeam, todo, kept>>
      /\ phase = "path" /\ phase' \in {"done", "crashed", "walk"}
  BY DEF StartPath, scoring
<1>2. BackPointers' /\ Node' = Node /\ Addr' = Addr /\ Eos' = Eos
  BY <1>1, SameBeams
<1>3. lat.n \in Nat /\ IsLattice(lat)
  BY LatIsLattice DEF IInv
<1>4. Scored'
  BY <1>1, <1>2 DEF IInv, Scored
<1>5. CASE phase' = "walk"
  <2>1. /\ lat.n > 0 /\ beam[Eos] # <<>>
        /\ top' = <<Eos, 1>> /\ myBeam' = 1 /\ elems' = <<>>
    BY <1>3, <1>5 DEF StartPath
  <2>2. Eos \in DOMAIN beam /\ Eos \in Node /\ Eos[1] = lat.n + 2
    BY <1>1, <2>1 DEF IInv, Scored, Eos, EosOf, Node, NodesOf
  <2>3. 1 \in DOMAIN beam[Eos]
    <3>1. beam[Eos] \in Seq([prev : Addr \cup {NullPtr}, score : Int])
      BY <2>2 DEF IInv, TypeOK
    <3>. QED
      BY <2>1, <3>1
  <2>4. TypeOK'
    <3>1. top' \in Addr /\ myBeam' \in Nat /\ elems' \in Seq(Addr \cup {NullPtr})
      BY <2>1, <2>2 DEF Addr
    <3>. QED
      BY <1>1, <1>2, <1>5, <3>1 DEF IInv, TypeOK, Row
  <2>5. Walking' /\ KnowsItsBeam'
    BY <1>1, <1>2, <1>3, <2>1, <2>2, <2>3 DEF Walking, KnowsItsBeam, IsElem, Chained
  <2>. QED
    BY <1>2, <1>4, <1>5, <2>4, <2>5 DEF IInv, CoversSentence
<1>6. CASE phase' # "walk"
  <2>1. UNCHANGED <<top, myBeam, elems>> /\ (phase' = "done" => lat.n = 0)
    BY <1>3, <1>6 DEF StartPath, walking
  <2>2. TypeOK'
    BY <1>1, <1>2, <1>6, <2>1 DEF IInv, TypeOK, Row
  <2>. QED
    BY <1>1, <1>2, <1>3, <1>4, <1>6, <2>1, <2>2
    DEF IInv, Walking, KnowsItsBeam, CoversSentence
<1>. QED
  BY <1>5, <1>6

\* A turn of fillIn extends the chain by the word before.
LEMMA WalkBackStep == IInv /\ WalkBack => IInv'
<1> SUFFICES ASSUME IInv, WalkBack PROVE IInv'
  OBVIOUS
<1>1. /\ UNCHANGED <<cfg, lat, weight, phase, bnd, beam, gbeam, todo, kept>>
      /\ phase = "walk" /\ top[1][1] > 2
  BY DEF WalkBack, scoring
<1>2. BackPointers' /\ Node' = Node /\ Addr' = Addr /\ Eos' = Eos
  BY <1>1, SameBeams
<1>3. lat.n \in Nat /\ IsLattice(lat)
  BY LatIsLattice DEF IInv
<1>4. IsElem(top) /\ myBeam = top[2] /\ lat.n > 0
  BY <1>1 DEF IInv, Walking, KnowsItsBeam
<1> DEFINE e == Elem(top).prev
<1>5. /\ elems' = Append(elems, e)
      /\ myBeam' = e[2]
      /\ top' = e
  BY <1>4 DEF WalkBack, Elem
<1>6. top[1] # Bos0 /\ top[1] \in Node /\ top[1][1] \in Int
  BY <1>1, <1>3, <1>4, NodeShape DEF Bos0, IsElem, IInv, TypeOK, Node
<1>7. IsElem(e) /\ EndOf(e[1]) = top[1][1]
  BY <1>4, <1>6 DEF IInv, BackPointers, IsElem, Elem
<1>8. e[1] \in Node /\ e[2] \in Nat /\ e \in Addr \cup {NullPtr}
  <2>1. Elem(top) \in [prev : Addr \cup {NullPtr}, score : Int]
    <3> DEFINE R == [prev : Addr \cup {NullPtr}, score : Int]
    <3>1. beam[top[1]] \in Seq(R) /\ top[2] \in DOMAIN beam[top[1]]
      BY <1>4 DEF IInv, TypeOK, IsElem
    <3> HIDE DEF R
    <3>2. beam[top[1]][top[2]] \in R
      BY <3>1, Member
    <3>. QED
      BY <3>2 DEF Elem, R
  <2>2. e \in Addr \cup {NullPtr}
    BY <2>1
  <2>3. e[1] \in Node
    BY <1>7 DEF IInv, TypeOK, IsElem
  <2>4. e[2] \in Nat
    BY <2>2 DEF Addr, NullPtr
  <2>. QED
    BY <2>2, <2>3, <2>4
<1>9. e[1][1] >= 2
  BY <1>1, <1>3, <1>6, <1>7, <1>8, NodeShape DEF EndOf, Node
<1>10. elems \in Seq(Addr \cup {NullPtr}) /\ elems' \in Seq(Addr \cup {NullPtr})
  BY <1>5, <1>8 DEF IInv, TypeOK
<1>11. TypeOK'
  BY <1>1, <1>2, <1>5, <1>8, <1>10 DEF IInv, TypeOK, Row
<1>12. Chained'
  <2>1. Chained /\ (IF elems = <<>> THEN top[1] = Eos ELSE top = elems[Len(elems)])
    BY <1>1 DEF IInv, Walking
  <2>2. elems' # <<>> /\ Len(elems') = Len(elems) + 1
    BY <1>5, <1>10
  <2>3. EndIn(lat, elems'[1][1]) = lat.n + 2
    <3>1. CASE elems = <<>>
      BY <2>1, <3>1, <1>3, <1>5, <1>7, <1>10 DEF EndOf, Eos, EosOf
    <3>2. CASE elems # <<>>
      BY <2>1, <3>2, <1>5, <1>10 DEF Chained, EndOf
    <3>. QED
      BY <3>1, <3>2
  <2>4. ASSUME NEW i \in 1 .. Len(elems') - 1
        PROVE  EndIn(lat, elems'[i + 1][1]) = elems'[i][1][1]
    <3>1. CASE i < Len(elems)
      BY <2>1, <2>2, <3>1, <1>5, <1>10 DEF Chained, EndOf
    <3>2. CASE i = Len(elems)
      BY <2>1, <2>2, <3>2, <1>5, <1>7, <1>10 DEF EndOf
    <3>. QED
      BY <2>2, <3>1, <3>2, <1>10
  <2>. QED
    BY <1>1, <2>3, <2>4 DEF Chained, EndOf
<1>13. Walking' /\ KnowsItsBeam'
  BY <1>1, <1>4, <1>5, <1>7, <1>9, <1>10, <1>12 DEF Walking, KnowsItsBeam, IsElem
<1>14. Scored'
  BY <1>1, <1>2 DEF IInv, Scored
<1>. QED
  BY <1>1, <1>2, <1>11, <1>13, <1>14 DEF IInv, CoversSentence

\* fillIn stops only at the beginning of the sentence.
LEMMA EndPathStep == IInv /\ EndPath => IInv'
<1> SUFFICES ASSUME IInv, EndPath PROVE IInv'
  OBVIOUS
<1>1. /\ UNCHANGED <<cfg, lat, weight, bnd, beam, gbeam, todo, kept, top, myBeam, elems>>
      /\ phase = "walk" /\ phase' = "done" /\ top[1][1] <= 2
  BY DEF EndPath, scoring, walking
<1>2. BackPointers' /\ Node' = Node /\ Addr' = Addr /\ Eos' = Eos
  BY <1>1, SameBeams
<1>3. lat.n \in Nat /\ IsLattice(lat)
  BY LatIsLattice DEF IInv
<1>4. TypeOK' /\ Scored'
  BY <1>1, <1>2 DEF IInv, TypeOK, Scored, Row
<1>5. top[1][1] = 2
  BY <1>1, <1>3, NodeShape DEF IInv, Walking, TypeOK, IsElem, Node
<1>6. CoversSentence'
  BY <1>1, <1>2, <1>3, <1>5 DEF IInv, Walking, Chained, CoversSentence, EndOf, Eos, EosOf
<1>. QED
  BY <1>1, <1>2, <1>4, <1>6 DEF IInv, Walking, KnowsItsBeam

\* Scoring a node adds a beam whose pointers are valid and keeps the others.
LEMMA ScoreNodeStep ==
  ASSUME IInv, NEW v \in Node, ScoreNode(v)
  PROVE  IInv'
<1> DEFINE Beam == Seq([prev : Addr \cup {NullPtr}, score : Int])
<1>1. /\ UNCHANGED <<cfg, lat, weight, phase, bnd, gbeam, kept, top, myBeam, elems>>
      /\ phase = "nodes" /\ v \in todo /\ todo' = todo \ {v}
  BY DEF ScoreNode, walking
<1>2. lat.n \in Nat /\ IsLattice(lat) /\ bnd \in 2 .. lat.n + 2
  BY LatIsLattice DEF IInv, TypeOK
<1>3. v \in Row(bnd) /\ v[1] = bnd /\ v \notin DOMAIN beam
  BY <1>1 DEF IInv, TypeOK, Scored, Row, RowOf
<1>4. \A w \in Node : EndOf(w) > w[1] /\ w[1] \in Int
  BY <1>2, NodeShape DEF Node, EndOf
<1>5. PICK addrs \in IF GlobalBeam > 0 THEN GlobalBeams(v) ELSE FullBeams(v) :
        beam' = [u \in DOMAIN beam \cup {v} |->
                   IF u = v THEN [i \in DOMAIN addrs |-> Element(addrs[i], NewScore(addrs[i], v))]
                            ELSE beam[u]]
  BY <1>1 DEF ScoreNode
<1>s. BeamSize \in Nat
  BY ConfigSizes DEF IInv, TypeOK
<1>6. PICK m \in Nat : addrs \in [1 .. m -> Candidates(bnd)]
  <2>1. CASE GlobalBeam > 0
    <3> DEFINE from == IF v \in kept THEN gbeam ELSE HeadOf(gbeam, bnd)
    <3>1. \A i \in DOMAIN from : from[i] \in Candidates(bnd)
      BY <1>1 DEF IInv, Scored, HeadOf
    <3>2. PICK m \in 0 .. BeamSize : addrs \in [1 .. m -> {from[i] : i \in DOMAIN from}]
      BY <1>5, <2>1 DEF GlobalBeams, Best
    <3>3. m \in Nat /\ {from[i] : i \in DOMAIN from} \subseteq Candidates(bnd)
      BY <3>1, <1>s
    <3> HIDE DEF from
    <3>. QED
      BY <3>2, <3>3
  <2>2. CASE ~ GlobalBeam > 0
    <3>1. PICK m \in 0 .. BeamSize : addrs \in [1 .. m -> Candidates(bnd)]
      BY <1>5, <2>2 DEF FullBeams, Best
    <3>2. m \in Nat
      BY <1>s
    <3>. QED
      BY <3>1, <3>2
  <2>. QED
    BY <2>1, <2>2
<1>7. /\ DOMAIN beam' = DOMAIN beam \cup {v}
      /\ \A u \in DOMAIN beam : beam'[u] = beam[u]
      /\ beam'[v] = [i \in 1 .. m |-> Element(addrs[i], NewScore(addrs[i], v))]
  BY <1>3, <1>5, <1>6
<1>8. \A i \in 1 .. m :
        /\ addrs[i] \in Candidates(bnd)
        /\ IsElem(addrs[i])
        /\ addrs[i] \in Addr
        /\ EndOf(addrs[i][1]) = bnd
        /\ NewScore(addrs[i], v) \in Int
        /\ NewScore(addrs[i], v)
             = Elem(addrs[i]).score + weight[<<Elem(addrs[i]).prev[1], addrs[i][1], v>>]
  BY <1>2, <1>3, <1>6, Extends
<1>9. Node' = Node /\ Addr' = Addr /\ Eos' = Eos /\ Row(bnd)' = Row(bnd)
  BY <1>1 DEF Node, Addr, Eos, Row
<1>10. beam'[v] \in Beam
  <2>1. \A i \in 1 .. m : Element(addrs[i], NewScore(addrs[i], v))
                            \in [prev : Addr \cup {NullPtr}, score : Int]
    BY <1>8 DEF Element
  <2>. QED
    BY <1>6, <1>7, <2>1
<1>11. TypeOK'
  <2>1. \A u \in DOMAIN beam' : beam'[u] \in Beam
    BY <1>7, <1>10 DEF IInv, TypeOK
  <2>2. DOMAIN beam' \subseteq Node
    BY <1>7 DEF IInv, TypeOK
  <2>. QED
    BY <1>1, <1>9, <2>1, <2>2 DEF IInv, TypeOK
<1>12. BackPointers'
  <2> SUFFICES ASSUME NEW u \in DOMAIN beam' \ {Bos0}, NEW k \in DOMAIN beam'[u]
               PROVE  LET e == beam'[u][k]
                      IN /\ e.prev[1] \in DOMAIN beam'
                         /\ EndIn(lat', e.prev[1]) = u[1]
                         /\ e.prev[2] \in DOMAIN beam'[e.prev[1]]
                         /\ u # Bos1 =>
                              LET from == beam'[e.prev[1]][e.prev[2]]
                              IN e.score = from.score + weight'[<<from.prev[1], e.prev[1], u>>]
    BY DEF BackPointers, EndOf
  <2>1. CASE u \in DOMAIN beam
    <3>1. beam'[u][k] = beam[u][k] /\ k \in DOMAIN beam[u] /\ u \in DOMAIN beam \ {Bos0}
      BY <1>7, <2>1
    <3>2. /\ beam[u][k].prev[1] \in DOMAIN beam
          /\ EndIn(lat, beam[u][k].prev[1]) = u[1]
          /\ beam[u][k].prev[2] \in DOMAIN beam[beam[u][k].prev[1]]
          /\ u # Bos1 =>
               LET from == beam[beam[u][k].prev[1]][beam[u][k].prev[2]]
               IN beam[u][k].score = from.score + weight[<<from.prev[1], beam[u][k].prev[1], u>>]
      BY <3>1 DEF IInv, BackPointers, EndOf
    <3>3. beam'[beam[u][k].prev[1]] = beam[beam[u][k].prev[1]]
      BY <1>7, <3>2
    <3>. QED
      BY <1>1, <1>7, <3>1, <3>2, <3>3
  <2>2. CASE u = v
    <3>1. k \in 1 .. m /\ beam'[u][k] = Element(addrs[k], NewScore(addrs[k], v))
      BY <1>7, <2>2
    <3>2. beam'[addrs[k][1]] = beam[addrs[k][1]]
      BY <1>7, <1>8, <3>1 DEF IsElem
    <3>3. beam'[u][k].prev = addrs[k] /\ beam'[u][k].score = NewScore(addrs[k], v)
      BY <3>1 DEF Element
    <3>4. /\ addrs[k][1] \in DOMAIN beam'
          /\ EndIn(lat', addrs[k][1]) = u[1]
          /\ addrs[k][2] \in DOMAIN beam'[addrs[k][1]]
      BY <1>1, <1>3, <1>7, <1>8, <2>2, <3>1, <3>2 DEF IsElem, EndOf
    <3>5. /\ beam'[addrs[k][1]][addrs[k][2]] = Elem(addrs[k])
          /\ NewScore(addrs[k], v)
               = Elem(addrs[k]).score + weight[<<Elem(addrs[k]).prev[1], addrs[k][1], v>>]
      BY <1>8, <3>1, <3>2 DEF Elem
    <3>. QED
      BY <1>1, <2>2, <3>3, <3>4, <3>5
  <2>. QED
    BY <1>7, <2>1, <2>2
<1>13. Candidates(bnd)' = Candidates(bnd)
  <2>1. EndIn(lat, v) # bnd
    BY <1>2, <1>3, <1>4 DEF EndOf
  <2>2. Ends(bnd)' = Ends(bnd)
    BY <1>1, <1>7, <2>1 DEF Ends, EndOf
  <2>. QED
    BY <1>7, <2>2 DEF Candidates, Ends
<1>14. Scored'
  <2>1. \A u \in DOMAIN beam' : u[1] <= bnd
    BY <1>2, <1>3, <1>7 DEF IInv, Scored
  <2>2. \A u \in Row(bnd) : u \in todo' <=> u \notin DOMAIN beam'
    BY <1>1, <1>7 DEF IInv, Scored
  <2>3. /\ Bos0 \in DOMAIN beam' /\ beam'[Bos0] = beam[Bos0]
        /\ Bos1 \in DOMAIN beam' /\ beam'[Bos1] = beam[Bos1]
    BY <1>1, <1>7 DEF IInv, Scored
  <2>. QED
    BY <1>1, <1>9, <1>13, <2>1, <2>2, <2>3 DEF IInv, Scored
<1>. QED
  BY <1>1, <1>11, <1>12, <1>14 DEF IInv, Walking, KnowsItsBeam, CoversSentence

\* The inductive step, one case per action.
LEMMA Inductive == IInv /\ [Next]_vars => IInv'
<1> SUFFICES ASSUME IInv, [Next]_vars PROVE IInv'
  OBVIOUS
<1>1. CASE UNCHANGED vars
  <2>1. /\ BackPointers' /\ Node' = Node /\ Addr' = Addr /\ Eos' = Eos
        /\ Row(bnd)' = Row(bnd)
    BY <1>1, SameBeams DEF vars, Row
  <2>2. Candidates(bnd)' = Candidates(bnd)
    BY <1>1 DEF vars, Candidates, Ends, EndOf
  <2>3. TypeOK' /\ Scored'
    BY <1>1, <2>1, <2>2 DEF vars, IInv, TypeOK, Scored
  <2>4. Walking' /\ KnowsItsBeam' /\ CoversSentence'
    BY <1>1, <2>1 DEF vars, IInv, Walking, IsElem, Chained, KnowsItsBeam, CoversSentence, EndOf
  <2>. QED
    BY <2>1, <2>3, <2>4 DEF IInv
<1>2. CASE Next
  BY <1>2, BootstrapStep, StartBoundaryStep, ScoreNodeStep, EndBoundaryStep, StartPathStep,
     WalkBackStep, EndPathStep DEF Next
<1>. QED
  BY <1>1, <1>2

\* The inductive invariant holds in every reachable state.
LEMMA Invariance == Spec => []IInv
BY InitIInv, Inductive, PTL DEF Spec

\* The variables keep their types for every lattice, beam size, global beam
\* and cutoff.
THEOREM TypeCorrect == Spec => []TypeOK
<1>1. IInv => TypeOK
  BY DEF IInv
<1>. QED
  BY <1>1, Invariance, PTL

\* Every element of every beam extends an existing element of a node that ends
\* where its own starts, with the score of that element plus the local score:
\* the pointers makeBeams, makeGlobalBeam and makeT0Beam store never dangle.
THEOREM PointersValid == Spec => []BackPointers
<1>1. IInv => BackPointers
  BY DEF IInv
<1>. QED
  BY <1>1, Invariance, PTL

\* fillIn's carried-over beam index is always the index of topPtr.
THEOREM IndexKnown == Spec => []KnowsItsBeam
<1>1. IInv => KnowsItsBeam
  BY DEF IInv
<1>. QED
  BY <1>1, Invariance, PTL

\* Whatever is pruned, the words fillIn returns cover the sentence without a
\* gap or an overlap.
THEOREM Covers == Spec => []CoversSentence
<1>1. IInv => CoversSentence
  BY DEF IInv
<1>. QED
  BY <1>1, Invariance, PTL

\* BeamCandidate compares the packed words of two scores as unsigned integers:
\* a word fits into twice the sign bit, and words are ordered as the scores are,
\* for every score whose magnitude leaves the sign bit alone.
THEOREM PackedKeepsOrder ==
  ASSUME NEW x \in -(SignBit - 1) .. SignBit - 1, NEW y \in -(SignBit - 1) .. SignBit - 1
  PROVE  /\ Packed(x) \in 0 .. 2 * SignBit - 1
         /\ Packed(x) > Packed(y) <=> x > y
         /\ Packed(x) = Packed(y) <=> x = y
<1>1. SignBit \in Nat \ {0}
  BY ScoresAssumption
<1>2. \A z \in -(SignBit - 1) .. SignBit - 1 :
        Packed(z) = IF z < 0 THEN SignBit - 1 + z ELSE SignBit + z
  BY <1>1 DEF Packed, Bits
<1>. QED
  BY <1>1, <1>2

-----------------------------------------------------------------------------
(* The chains the elements stand for *)

\* F names for every element of a beam the chain its pointers lead back along:
\* different elements of a node stand for different chains, and the score of an
\* element is the total score of its chain.
Names(F) ==
  \A v \in DOMAIN beam : \A k \in DOMAIN beam[v] :
    /\ F[<<v, k>>] \in ChainsInto(lat, v)
    /\ v # Bos0 => /\ F[<<v, k>>] = Append(F[beam[v][k].prev], v)
                   /\ beam[v][k].score = Total(weight, F[<<v, k>>])
    /\ \A j \in DOMAIN beam[v] : F[<<v, j>>] = F[<<v, k>>] => j = k

\* Every chain into a node that has a beam is named.
AllNamed(F) ==
  \A v \in DOMAIN beam : \A c \in ChainsInto(lat, v) : \E k \in DOMAIN beam[v] : F[<<v, k>>] = c

\* What fillIn has collected is the end of the chain of EOS's first element, and
\* where it stands is the chain before.
Retraced(F) ==
  phase \in {"walk", "done"} /\ lat.n > 0 =>
    LET c == F[<<Eos, 1>>]
    IN /\ IsElem(<<Eos, 1>>) /\ IsElem(top) /\ top[1][1] >= 2
       /\ phase = "done" => top[1][1] = 2
       /\ Len(c) = Len(F[top]) + Len(elems)
       /\ \A i \in 1 .. Len(F[top]) : c[i] = F[top][i]
       /\ \A i \in 1 .. Len(elems) : elems[i][1] = c[Len(c) - i]

NamedInv == \E F : Names(F) /\ (Unpruned => AllNamed(F)) /\ Retraced(F)

\* The nodes before the boundary that is scored have their beams.
Reached ==
  phase \in {"boundary", "nodes"} => \A v \in Node : v[1] < bnd => v \in DOMAIN beam

\* The global beam is empty only if nothing ends at the boundary; it holds every
\* element that does, and no node is dropped, if nothing has to be pruned.
Ranked ==
  phase = "nodes" /\ GlobalBeam > 0 =>
    /\ Candidates(bnd) # {} => gbeam # <<>>
    /\ Unpruned /\ Row(bnd) # {} =>
         /\ \A a \in Candidates(bnd) : \E i \in DOMAIN gbeam : gbeam[i] = a
         /\ Row(bnd) \subseteq kept

\* The elements of a beam come best first.
SortedBeams ==
  \A v \in DOMAIN beam : \A i, j \in DOMAIN beam[v] : i < j => beam[v][j].score <= beam[v][i].score

\* The search starts at the first boundary of the sentence, and fillIn with no
\* word.
Fresh ==
  /\ phase = "bootstrap" => bnd = 2
  /\ phase \notin {"walk", "done"} => elems = <<>>

JInv == IInv /\ Reached /\ Ranked /\ SortedBeams /\ Fresh /\ LiveBeams /\ NamedInv

\* Nodes of the lattice of a well-typed state.
LEMMA NodesAndChains ==
  ASSUME IInv
  PROVE  /\ IsLattice(lat) /\ lat.n \in Nat
         /\ Bos0 \in Node /\ Bos1 \in Node /\ Eos \in Node
         /\ Bos0 # Bos1 /\ Eos # Bos0 /\ Eos # Bos1
         /\ EndOf(Bos0) = 1 /\ EndOf(Bos1) = 2
         /\ \A v \in Node : v[1] \in 0 .. lat.n + 2 /\ EndOf(v) \in Int /\ v[1] < EndOf(v)
<1>1. IsLattice(lat) /\ lat.n \in Nat
  BY LatIsLattice DEF IInv
<1>2. Bos0 \in Node /\ Bos1 \in Node /\ Eos \in Node
  BY DEF Node, NodesOf, Eos
<1>3. Bos0[1] = 0 /\ Bos1[1] = 1 /\ Eos[1] = lat.n + 2
  BY DEF Bos0, Bos1, Eos, EosOf
<1>4. Bos0 # Bos1 /\ Eos # Bos0 /\ Eos # Bos1
  BY <1>1, <1>3
<1>5. EndOf(Bos0) = 1 /\ EndOf(Bos1) = 2
  BY <1>1, <1>3 DEF EndOf, EndIn
<1>6. \A v \in Node : v[1] \in 0 .. lat.n + 2 /\ EndOf(v) \in Int /\ v[1] < EndOf(v)
  BY <1>1, NodeShape DEF Node, EndOf
<1>. QED
  BY <1>1, <1>2, <1>4, <1>5, <1>6

\* Only the first BOS ends where the second starts, and only the second where
\* the sentence does.
LEMMA OnlyBosEnds ==
  ASSUME IInv, NEW u \in Node
  PROVE  /\ EndOf(u) = 1 <=> u = Bos0
         /\ EndOf(u) = 2 /\ u[1] # 0 <=> u = Bos1
<1>1. /\ IsLattice(lat) /\ u \in NodesOf(lat) /\ EndOf(Bos0) = 1 /\ EndOf(Bos1) = 2
      /\ u[1] \in Nat /\ EndOf(u) \in Int /\ u[1] < EndOf(u)
  BY NodesAndChains DEF Node
<1>2. Bos0[1] = 0 /\ Bos1[1] = 1
  BY DEF Bos0, Bos1
<1>3. (u[1] = 0 <=> u = Bos0) /\ (u[1] = 1 <=> u = Bos1)
  BY <1>1, NodeByStart
<1>. QED
  BY <1>1, <1>2, <1>3

\* There are finitely many elements.
LEMMA CandidatesFinite ==
  ASSUME IInv, NEW b
  PROVE  IsFiniteSet(Candidates(b))
<1>. DEFINE of == [v \in Ends(b) |-> {<<v, k>> : k \in DOMAIN beam[v]}]
            sets == {of[v] : v \in Ends(b)}
<1>1. IsFiniteSet(Ends(b)) /\ Ends(b) \subseteq DOMAIN beam
  <2>1. IsFiniteSet(Node)
    BY NodesAndChains, NodesFinite DEF Node
  <2>2. Ends(b) \in SUBSET Node /\ Ends(b) \subseteq DOMAIN beam
    BY DEF Ends, IInv, TypeOK
  <2>. QED
    BY <2>1, <2>2, FS_Subset
<1>2. ASSUME NEW v \in Ends(b) PROVE IsFiniteSet(of[v])
  <2>1. PICK q \in Seq([prev : Addr \cup {NullPtr}, score : Int]) : q = beam[v]
    BY <1>1 DEF IInv, TypeOK
  <2>2. DOMAIN q = 1 .. Len(q) /\ Len(q) \in Nat
    OBVIOUS
  <2>3. IsFiniteSet(DOMAIN beam[v])
    BY <2>1, <2>2, IntervalFinite
  <2>. QED
    BY <2>3, PairsFinite
<1>3. IsFiniteSet(sets)
  <2>1. of \in Surjection(Ends(b), sets)
    BY DEF Surjection
  <2>. HIDE DEF of, sets
  <2>. QED
    BY <1>1, <2>1, FS_Surjection
<1>4. IsFiniteSet(UNION sets)
  <2>1. \A T \in sets : IsFiniteSet(T)
    BY <1>2
  <2>. HIDE DEF sets
  <2>. QED
    BY <1>3, <2>1, FS_UNION
<1>5. Candidates(b) = UNION sets
  BY DEF Candidates
<1>. QED
  BY <1>4, <1>5

\* A ranking of at most k members that leaves some out has k; if there are no
\* more than k it leaves none out, and if there are any it is not empty.
LEMMA NoneLeft ==
  ASSUME NEW S, IsFiniteSet(S), NEW k \in Nat, Cardinality(S) <= k, NEW m \in Nat,
         NEW s \in [1 .. m -> S], \A i, j \in 1 .. m : i < j => s[i] # s[j],
         S \ {s[i] : i \in 1 .. m} # {} => m = k
  PROVE  \A a \in S : \E i \in 1 .. m : s[i] = a
<1>. SUFFICES ASSUME NEW a \in S, \A i \in 1 .. m : s[i] # a PROVE FALSE
  OBVIOUS
<1>. DEFINE R == S \ {a}
<1>1. m = k
  OBVIOUS
<1>2. IsFiniteSet(R) /\ Cardinality(R) = Cardinality(S) - 1 /\ Cardinality(S) \in Nat
  BY FS_RemoveElement, FS_CardinalityType
<1>3. s \in Injection(1 .. m, R)
  <2>1. s \in [1 .. m -> R]
    OBVIOUS
  <2>2. \A i, j \in 1 .. m : s[i] = s[j] => i = j
    <3>1. \A i, j \in 1 .. m : i < j \/ j < i \/ i = j
      OBVIOUS
    <3>. QED
      BY <3>1
  <2>. HIDE DEF R
  <2>. QED
    BY <2>1, <2>2 DEF Injection, IsInjective
<1>. HIDE DEF R
<1>4. Cardinality(1 .. m) <= Cardinality(R)
  BY <1>2, <1>3, FS_Injection
<1>5. Cardinality(1 .. m) = m
  <2>1. 1 \in Int /\ m \in Int
    OBVIOUS
  <2>2. Cardinality(1 .. m) = IF 1 > m THEN 0 ELSE m - 1 + 1
    BY <2>1, FS_Interval
  <2>. QED
    BY <2>2
<1>. QED
  BY <1>1, <1>2, <1>4, <1>5

\* An address of an existing element as a pair, and the pointer of the element.
LEMMA ElemShape ==
  ASSUME IInv, NEW v \in DOMAIN beam, NEW k \in DOMAIN beam[v]
  PROVE  /\ v \in Node /\ k \in Nat \ {0} /\ k <= Len(beam[v]) /\ DOMAIN beam[v] = 1 .. Len(beam[v])
         /\ beam[v][k].score \in Int
         /\ beam[v][k].prev \in Addr \cup {NullPtr}
         /\ beam[v][k].prev = <<beam[v][k].prev[1], beam[v][k].prev[2]>>
<1>. DEFINE R == [prev : Addr \cup {NullPtr}, score : Int]
<1>1. PICK q \in Seq(R) : q = beam[v] /\ v \in Node
  BY DEF IInv, TypeOK
<1>. HIDE DEF R
<1>2. k \in Nat \ {0} /\ k <= Len(q) /\ q[k] \in R /\ DOMAIN q = 1 .. Len(q)
  BY <1>1, Member
<1>3. PICK e \in R : e = beam[v][k]
  BY <1>1, <1>2
<1>4. e.score \in Int /\ e.prev \in Addr \cup {NullPtr}
  BY DEF R
<1>5. e.prev = <<e.prev[1], e.prev[2]>>
  BY <1>4 DEF Addr, NullPtr
<1>. QED
  BY <1>1, <1>2, <1>3, <1>4, <1>5

\* The members of Candidates, taken apart.
LEMMA CandidateShape ==
  ASSUME IInv, NEW v \in Row(bnd), NEW a \in Candidates(bnd)
  PROVE  /\ a = <<a[1], a[2]>> /\ a[1] \in DOMAIN beam /\ a[2] \in DOMAIN beam[a[1]]
         /\ a[1] \in Node /\ v \in Node /\ v[1] = bnd /\ EndOf(a[1]) = bnd /\ bnd >= 2
         /\ a[1] # Bos0 /\ v # Bos0 /\ v # Bos1
<1>1. PICK u \in DOMAIN beam : \E k \in DOMAIN beam[u] : EndOf(u) = bnd /\ a = <<u, k>>
  BY CandidateIsElem
<1>2. PICK k \in DOMAIN beam[u] : EndOf(u) = bnd /\ a = <<u, k>>
  BY <1>1
<1>3. u \in Node /\ v \in Node /\ v[1] = bnd
  BY DEF IInv, TypeOK, Row, RowOf, Node
<1>4. bnd >= 2 /\ bnd \in Int
  BY NodesAndChains DEF IInv, TypeOK
<1>5. u # Bos0
  BY <1>2, <1>4, NodesAndChains
<1>6. v # Bos0 /\ v # Bos1
  BY <1>3, <1>4 DEF Bos0, Bos1
<1>. QED
  BY <1>2, <1>3, <1>4, <1>5, <1>6

\* GrownTotal for the lattice of the state and its local scores.
LEMMA OneNodeMore ==
  ASSUME IInv, NEW t \in Node, NEW u \in Node, NEW v \in Node, u # Bos0, v # Bos0,
         EndOf(t) = u[1], EndOf(u) = v[1], NEW e \in ChainsInto(lat, t)
  PROVE  Total(weight, Append(Append(e, u), v)) = Total(weight, Append(e, u)) + weight[<<t, u, v>>]
<1>1. ScoresOf(weight, lat, Scores)
  BY NodesAndChains, ScoresAssumption DEF IInv, TypeOK, ScoresOf
<1>2. Connection(lat, t, u, v)
  BY DEF Node, EndOf, Connection
<1>. QED
  BY <1>1, <1>2, GrownTotal

\* An element extended by a node stands for its chain with this node, and has
\* that chain's total score.
LEMMA NamedExtends ==
  ASSUME IInv, NEW F, Names(F), NEW v \in Row(bnd), NEW a \in Candidates(bnd)
  PROVE  /\ F[a] \in ChainsInto(lat, a[1]) /\ Append(F[a], v) \in ChainsInto(lat, v)
         /\ NewScore(a, v) = Total(weight, Append(F[a], v))
         /\ NewScore(a, v) \in -(SignBit - 1) .. SignBit - 1
<1>. DEFINE u == a[1]
            e == beam[a[1]][a[2]]
            t == e.prev[1]
<1>1. /\ a = <<u, a[2]>> /\ u \in DOMAIN beam /\ a[2] \in DOMAIN beam[u]
      /\ u \in Node /\ v \in Node /\ EndOf(u) = v[1] /\ u # Bos0 /\ v # Bos0
  BY CandidateShape
<1>2. IsLattice(lat)
  BY NodesAndChains
<1>3. F[a] \in ChainsInto(lat, u) /\ F[a] = Append(F[e.prev], u) /\ e.score = Total(weight, F[a])
  BY <1>1 DEF Names
<1>4. /\ t \in DOMAIN beam /\ EndOf(t) = u[1] /\ e.prev[2] \in DOMAIN beam[t]
      /\ e.prev = <<t, e.prev[2]>> /\ t \in Node
  <2>1. t \in DOMAIN beam /\ EndOf(t) = u[1] /\ e.prev[2] \in DOMAIN beam[t]
    BY <1>1 DEF IInv, BackPointers
  <2>2. e.prev = <<t, e.prev[2]>>
    BY <1>1, ElemShape
  <2>3. t \in Node
    BY <2>1 DEF IInv, TypeOK
  <2>. QED
    BY <2>1, <2>2, <2>3
<1>5. F[e.prev] \in ChainsInto(lat, t)
  BY <1>4 DEF Names
<1>6. Append(F[a], v) \in ChainsInto(lat, v)
  BY <1>1, <1>2, <1>3, GrownChain DEF EndOf, Node
<1>7. weight \in [TriplesOf(lat) -> Scores] /\ Scores \subseteq Int
  BY ScoresAssumption DEF IInv, TypeOK
<1>8. Total(weight, Append(F[a], v)) = Total(weight, F[a]) + weight[<<t, u, v>>]
  <2>1. ASSUME NEW x \in ChainsInto(lat, t)
        PROVE  Total(weight, Append(Append(x, u), v))
                 = Total(weight, Append(x, u)) + weight[<<t, u, v>>]
    <3>1. /\ t \in Node /\ u \in Node /\ v \in Node /\ u # Bos0 /\ v # Bos0
          /\ EndOf(t) = u[1] /\ EndOf(u) = v[1]
      BY <1>1, <1>4
    <3>. HIDE DEF u, t, e
    <3>. QED
      BY <3>1, OneNodeMore
  <2>. HIDE DEF u, t, e
  <2>. QED
    BY <1>3, <1>5, <2>1
<1>9. NewScore(a, v) = Total(weight, Append(F[a], v))
  BY <1>3, <1>8 DEF NewScore, LocalScore, Elem
<1>10. Total(weight, Append(F[a], v)) \in -(SignBit - 1) .. SignBit - 1
  <2>1. SignBit - 1 \in Nat
    BY ScoresAssumption
  <2>2. \A x \in Scores : (lat.n + 1) * x \in -(SignBit - 1) .. SignBit - 1
    BY ScoresAssumption DEF IInv, TypeOK
  <2>3. \A B \in Nat : (\A x \in Scores : (lat.n + 1) * x \in -B .. B)
                       => Total(weight, Append(F[a], v)) \in -B .. B
    BY <1>1, <1>2, <1>6, <1>7, ChainTotalWithin DEF Node
  <2>. QED
    BY <2>1, <2>2, <2>3
<1>. QED
  BY <1>3, <1>6, <1>9, <1>10

\* Different elements extended by a node stand for different chains.
LEMMA NamedDiffer ==
  ASSUME IInv, NEW F, Names(F), NEW v \in Row(bnd), NEW a \in Candidates(bnd), NEW b \in Candidates(bnd),
         Append(F[a], v) = Append(F[b], v)
  PROVE  a = b
<1>1. /\ a = <<a[1], a[2]>> /\ a[1] \in DOMAIN beam /\ a[2] \in DOMAIN beam[a[1]]
      /\ b = <<b[1], b[2]>> /\ b[1] \in DOMAIN beam /\ b[2] \in DOMAIN beam[b[1]]
      /\ a[1] \in Node /\ b[1] \in Node /\ v \in Node
  BY CandidateShape
<1>2. F[a] \in ChainsInto(lat, a[1]) /\ F[b] \in ChainsInto(lat, b[1])
  BY NamedExtends
<1>3. ASSUME NEW x \in Node, NEW c \in ChainsInto(lat, x)
      PROVE  c \in Seq(NodesOf(lat)) /\ c[Len(c)] = x
  BY <1>3, NodesAndChains, IntoIsChain DEF Node
<1>p. PICK p \in Seq(NodesOf(lat)) : p = F[a] /\ p[Len(p)] = a[1]
  BY <1>1, <1>2, <1>3
<1>q. PICK q \in Seq(NodesOf(lat)) : q = F[b] /\ q[Len(q)] = b[1]
  BY <1>1, <1>2, <1>3
<1>4. p = q
  <2>1. v \in NodesOf(lat) /\ Append(p, v) = Append(q, v)
    BY <1>1, <1>p, <1>q DEF Node
  <2>. QED
    BY <2>1, GrownAlike
<1>5. a[1] = b[1]
  BY <1>p, <1>q, <1>4
<1>6. F[<<a[1], a[2]>>] = F[<<a[1], b[2]>>] /\ b[2] \in DOMAIN beam[a[1]]
  BY <1>1, <1>p, <1>q, <1>4, <1>5
<1>7. a[2] = b[2]
  BY <1>1, <1>6 DEF Names
<1>. QED
  BY <1>1, <1>5, <1>7

\* A chain into a node of the boundary comes from an element that ends there, if
\* every chain before is named.
LEMMA EveryChainIsExtended ==
  ASSUME IInv, Reached, phase \in {"boundary", "nodes"}, NEW F, Names(F), AllNamed(F),
         NEW v \in Row(bnd), NEW c \in ChainsInto(lat, v)
  PROVE  \E a \in Candidates(bnd) : Append(F[a], v) = c
<1>1. /\ v \in Node /\ v[1] = bnd /\ bnd >= 2 /\ v # Bos0
  <2>1. v \in Node /\ v[1] = bnd /\ bnd >= 2
    BY NodesAndChains DEF Row, RowOf, Node, IInv, TypeOK
  <2>. QED
    BY <2>1 DEF Bos0
<1>2. PICK u \in Node : \E d \in ChainsInto(lat, u) : EndOf(u) = bnd /\ c = Append(d, v)
  BY <1>1, NodesAndChains, ChainGrows DEF Node, EndOf
<1>3. PICK d \in ChainsInto(lat, u) : EndOf(u) = bnd /\ c = Append(d, v)
  BY <1>2
<1>4. u \in DOMAIN beam
  BY <1>3, NodesAndChains DEF Reached
<1>5. PICK k \in DOMAIN beam[u] : F[<<u, k>>] = d
  BY <1>4 DEF AllNamed
<1>6. <<u, k>> \in Candidates(bnd)
  BY <1>3, <1>4, CandidateIsElem
<1>. QED
  BY <1>3, <1>5, <1>6

\* If nothing has to be pruned, no beam and no global beam is too small for the
\* elements that end at the boundary.
LEMMA AllFit ==
  ASSUME IInv, Reached, phase \in {"boundary", "nodes"}, NEW F, Names(F), AllNamed(F), Unpruned,
         NEW v \in Row(bnd)
  PROVE  /\ Cardinality(Candidates(bnd)) <= BeamSize
         /\ GlobalBeam > 0 => Cardinality(Candidates(bnd)) <= GlobalBeam
<1>. DEFINE f == [a \in Candidates(bnd) |-> Append(F[a], v)]
<1>1. f \in Bijection(Candidates(bnd), ChainsInto(lat, v))
  <2>1. f \in [Candidates(bnd) -> ChainsInto(lat, v)]
    BY NamedExtends
  <2>2. \A a, b \in Candidates(bnd) : f[a] = f[b] => a = b
    BY NamedDiffer
  <2>3. \A c \in ChainsInto(lat, v) : \E a \in Candidates(bnd) : f[a] = c
    BY EveryChainIsExtended
  <2>. HIDE DEF f
  <2>. QED
    BY <2>1, <2>2, <2>3 DEF Bijection, Injection, IsInjective, Surjection
<1>2. Cardinality(ChainsInto(lat, v)) = Cardinality(Candidates(bnd))
  <2>1. ExistsBijection(Candidates(bnd), ChainsInto(lat, v))
    BY <1>1 DEF ExistsBijection
  <2>. QED
    BY <2>1, CandidatesFinite, FS_Bijection
<1>3. v[1] = bnd /\ bnd \in 2 .. lat.n + 2
  BY DEF Row, RowOf, IInv, TypeOK
<1>4. /\ Cardinality(ChainsInto(lat, v)) <= BeamSize
      /\ GlobalBeam > 0 => Cardinality(ChainsInto(lat, v)) <= GlobalBeam
  BY <1>3 DEF Unpruned, ChainsInto
<1>. QED
  BY <1>2, <1>4

-----------------------------------------------------------------------------
(* Ranking *)

\* The candidates s ranks for node v: different ones, the best first, some if
\* there are any, and all if nothing has to be pruned.
Ranks(s, m, v) ==
  /\ m \in Nat /\ s \in [1 .. m -> Candidates(bnd)]
  /\ \A i, j \in 1 .. m : i < j => s[i] # s[j] /\ NewScore(s[j], v) <= NewScore(s[i], v)
  /\ Candidates(bnd) # {} => m # 0
  /\ Unpruned => \A a \in Candidates(bnd) : \E i \in 1 .. m : s[i] = a

\* What a ranking of at most k members of S is.
Ranking(s, m, S, k) ==
  /\ m \in 0 .. k /\ s \in [1 .. m -> S]
  /\ \A i, j \in 1 .. m : i < j => s[i] # s[j]
  /\ S \ {s[i] : i \in 1 .. m} # {} => m = k

\* A ranking of at least one member is empty only if there are none.
LEMMA RankingNotEmpty ==
  ASSUME NEW S, NEW k \in Nat \ {0}, NEW m, NEW s, Ranking(s, m, S, k), S # {}
  PROVE  m # 0
<1>. SUFFICES ASSUME m = 0 PROVE FALSE
  OBVIOUS
<1>1. {s[i] : i \in 1 .. m} = {}
  OBVIOUS
<1>. QED
  BY <1>1 DEF Ranking

\* A ranking of at most k out of no more than k members takes all.
LEMMA RankingTakesAll ==
  ASSUME NEW S, IsFiniteSet(S), NEW k \in Nat, Cardinality(S) <= k, NEW m, NEW s, Ranking(s, m, S, k)
  PROVE  \A a \in S : \E i \in 1 .. m : s[i] = a
BY NoneLeft DEF Ranking

\* makeBeams ranks the elements in the order of their new scores: the packed
\* words compare as the scores do.
LEMMA FullRanks ==
  ASSUME IInv, Reached, phase = "nodes", NEW F, Names(F), Unpruned => AllNamed(F),
         NEW v \in Row(bnd), NEW addrs \in FullBeams(v)
  PROVE  \E m : Ranks(addrs, m, v)
<1>. DEFINE C == Candidates(bnd)
            word(a) == Packed(NewScore(a, v))
<1>1. BeamSize \in Nat \ {0}
  BY ConfigsAssumption DEF IInv, TypeOK, BeamSize
<1>2. PICK m \in 0 .. BeamSize : addrs \in [1 .. m -> C]
  BY DEF FullBeams, Best
<1>3. DOMAIN addrs = 1 .. m /\ Len(addrs) = m /\ m \in Nat
  BY <1>1, <1>2
<1>4. /\ \A i, j \in DOMAIN addrs : i < j => addrs[i] # addrs[j] /\ ~(word(addrs[j]) > word(addrs[i]))
      /\ C \ {addrs[i] : i \in DOMAIN addrs} # {} => Len(addrs) = BeamSize
  BY DEF FullBeams, Best
<1>5. Ranking(addrs, m, C, BeamSize)
  <2>. HIDE DEF C, word
  <2>. QED
    BY <1>2, <1>3, <1>4 DEF Ranking
<1>6. ASSUME NEW i \in 1 .. m, NEW j \in 1 .. m, i < j
      PROVE  NewScore(addrs[j], v) <= NewScore(addrs[i], v)
  <2>1. addrs[i] \in C /\ addrs[j] \in C
    BY <1>2
  <2>2. PICK x \in -(SignBit - 1) .. SignBit - 1, y \in -(SignBit - 1) .. SignBit - 1 :
          x = NewScore(addrs[j], v) /\ y = NewScore(addrs[i], v)
    BY <2>1, NamedExtends
  <2>3. ~(Packed(x) > Packed(y))
    BY <1>3, <1>4, <1>6, <2>2
  <2>4. ~(x > y)
    BY <2>3, PackedKeepsOrder
  <2>5. x \in Int /\ y \in Int
    BY ScoresAssumption
  <2>. QED
    BY <2>2, <2>4, <2>5
<1>7. C # {} => m # 0
  <2>. HIDE DEF C
  <2>. QED
    BY <1>1, <1>5, RankingNotEmpty
<1>8. ASSUME Unpruned PROVE \A a \in C : \E i \in 1 .. m : addrs[i] = a
  <2>1. Cardinality(C) <= BeamSize
    BY <1>8, AllFit
  <2>2. IsFiniteSet(C)
    BY CandidatesFinite
  <2>. HIDE DEF C
  <2>. QED
    BY <1>1, <1>5, <2>1, <2>2, RankingTakesAll
<1>9. \A i, j \in 1 .. m : i < j => addrs[i] # addrs[j]
  BY <1>5 DEF Ranking
<1>. QED
  BY <1>2, <1>3, <1>6, <1>7, <1>8, <1>9 DEF Ranks

\* The head of the global beam is empty only if the global beam is.
LEMMA HeadNotEmpty ==
  ASSUME IInv, gbeam # <<>>, NEW v \in Row(bnd)
  PROVE  HeadOf(gbeam, bnd) # <<>> /\ DOMAIN HeadOf(gbeam, bnd) # {}
<1>1. 1 \in DOMAIN gbeam
  <2>1. gbeam \in Seq(Addr)
    BY DEF IInv, TypeOK
  <2>. QED
    BY <2>1
<1>2. RightCheck \in Nat
  BY ConfigsAssumption DEF IInv, TypeOK, RightCheck
<1>3. IsFiniteSet(Row(bnd)) /\ Cardinality(Row(bnd)) \in Nat \ {0}
  <2>1. IsFiniteSet(NodesOf(lat)) /\ Row(bnd) \in SUBSET NodesOf(lat)
    BY NodesAndChains, NodesFinite DEF Row, RowOf
  <2>2. IsFiniteSet(Row(bnd))
    BY <2>1, FS_Subset
  <2>3. Cardinality(Row(bnd)) \in Nat /\ Cardinality(Row(bnd)) # 0
    BY <2>2, FS_CardinalityType, FS_EmptySet
  <2>. QED
    BY <2>2, <2>3
<1>4. 1 \in DOMAIN HeadOf(gbeam, bnd)
  <2>1. CASE RightCheck = 0
    BY <1>1, <2>1 DEF HeadOf
  <2>2. CASE RightCheck # 0
    <3>1. 1 <= RightCheck /\ 1 <= Cardinality(Row(bnd))
      BY <1>2, <1>3, <2>2
    <3>. QED
      BY <1>1, <2>2, <3>1 DEF HeadOf
  <2>. QED
    BY <2>1, <2>2
<1>. QED
  BY <1>4

\* makeT0Beam ranks the members of the global beam, or of its head.
LEMMA GlobalRanks ==
  ASSUME IInv, Reached, Ranked, phase = "nodes", GlobalBeam > 0, NEW F, Names(F), Unpruned => AllNamed(F),
         NEW v \in Row(bnd), NEW addrs \in GlobalBeams(v)
  PROVE  \E m : Ranks(addrs, m, v)
<1>. DEFINE C == Candidates(bnd)
            from == IF v \in kept THEN gbeam ELSE HeadOf(gbeam, bnd)
            S == {from[i] : i \in DOMAIN from}
<1>1. BeamSize \in Nat \ {0}
  BY ConfigsAssumption DEF IInv, TypeOK, BeamSize
<1>2. PICK m \in 0 .. BeamSize : addrs \in [1 .. m -> S]
  BY DEF GlobalBeams, Best
<1>3. DOMAIN addrs = 1 .. m /\ Len(addrs) = m /\ m \in Nat
  <2>. HIDE DEF S
  <2>. QED
    BY <1>1, <1>2
<1>4. /\ \A i, j \in DOMAIN addrs :
           i < j => addrs[i] # addrs[j] /\ ~(NewScore(addrs[j], v) > NewScore(addrs[i], v))
      /\ S \ {addrs[i] : i \in DOMAIN addrs} # {} => Len(addrs) = BeamSize
  BY DEF GlobalBeams, Best
<1>5. S \subseteq C
  <2>1. \A i \in DOMAIN gbeam : gbeam[i] \in C
    BY DEF IInv, Scored
  <2>2. \A i \in DOMAIN HeadOf(gbeam, bnd) : i \in DOMAIN gbeam /\ HeadOf(gbeam, bnd)[i] = gbeam[i]
    BY DEF HeadOf
  <2>. QED
    BY <2>1, <2>2
<1>6. Ranking(addrs, m, S, BeamSize)
  <2>. HIDE DEF S
  <2>. QED
    BY <1>2, <1>3, <1>4 DEF Ranking
<1>7. ASSUME NEW i \in 1 .. m, NEW j \in 1 .. m, i < j
      PROVE  NewScore(addrs[j], v) <= NewScore(addrs[i], v)
  <2>1. addrs[i] \in C /\ addrs[j] \in C
    <3>. HIDE DEF S, C
    <3>. QED
      BY <1>2, <1>5
  <2>2. PICK x \in -(SignBit - 1) .. SignBit - 1, y \in -(SignBit - 1) .. SignBit - 1 :
          x = NewScore(addrs[j], v) /\ y = NewScore(addrs[i], v)
    BY <2>1, NamedExtends
  <2>3. ~(x > y)
    <3>. HIDE DEF S
    <3>. QED
      BY <1>3, <1>4, <1>7, <2>2
  <2>4. x \in Int /\ y \in Int
    BY ScoresAssumption
  <2>. QED
    BY <2>2, <2>3, <2>4
<1>8. C # {} => m # 0
  <2>1. ASSUME C # {} PROVE S # {}
    <3>1. gbeam # <<>>
      BY <2>1 DEF Ranked
    <3>2. DOMAIN from # {}
      <4>1. gbeam \in Seq(Addr)
        BY DEF IInv, TypeOK
      <4>2. 1 \in DOMAIN gbeam
        BY <3>1, <4>1
      <4>. QED
        BY <3>1, <4>2, HeadNotEmpty
    <3>. HIDE DEF from
    <3>. QED
      BY <3>2
  <2>. HIDE DEF C, S
  <2>. QED
    BY <1>1, <1>6, <2>1, RankingNotEmpty
<1>9. ASSUME Unpruned PROVE \A a \in C : \E i \in 1 .. m : addrs[i] = a
  <2>1. Cardinality(C) <= BeamSize /\ IsFiniteSet(C)
    BY <1>9, AllFit, CandidatesFinite
  <2>2. C \subseteq S
    <3>1. v \in kept /\ \A a \in C : \E i \in DOMAIN gbeam : gbeam[i] = a
      BY <1>9 DEF Ranked
    <3>. QED
      BY <3>1
  <2>3. S = C
    BY <1>5, <2>2
  <2>. HIDE DEF C, S
  <2>. QED
    BY <1>1, <1>6, <2>1, <2>3, RankingTakesAll
<1>10. addrs \in [1 .. m -> C]
  <2>. HIDE DEF S, C
  <2>. QED
    BY <1>2, <1>5
<1>11. \A i, j \in 1 .. m : i < j => addrs[i] # addrs[j]
  BY <1>6 DEF Ranking
<1>. QED
  BY <1>3, <1>7, <1>8, <1>9, <1>10, <1>11 DEF Ranks

-----------------------------------------------------------------------------
(* Every step keeps JInv *)

\* What the elements stand for depends on the lattice, its scores and the beams.
LEMMA SameNames ==
  ASSUME UNCHANGED <<cfg, lat, weight, beam>>
  PROVE  /\ \A F : (Names(F)' <=> Names(F)) /\ (AllNamed(F)' <=> AllNamed(F))
         /\ Unpruned' <=> Unpruned
         /\ LiveBeams' <=> LiveBeams
         /\ SortedBeams' <=> SortedBeams
         /\ \A b : Candidates(b)' = Candidates(b)
<1>1. \A F : (Names(F)' <=> Names(F)) /\ (AllNamed(F)' <=> AllNamed(F))
  BY DEF Names, AllNamed
<1>2. Unpruned' <=> Unpruned
  BY DEF Unpruned, BeamSize, GlobalBeam, RightCheck, RightBeam, Row
<1>3. (LiveBeams' <=> LiveBeams) /\ (SortedBeams' <=> SortedBeams)
  BY DEF LiveBeams, SortedBeams
<1>4. \A b : Candidates(b)' = Candidates(b)
  BY DEF Candidates, Ends, EndOf
<1>. QED
  BY <1>1, <1>2, <1>3, <1>4

\* While no path is followed NamedInv speaks of the beams alone.
LEMMA NamedKept ==
  ASSUME NamedInv, UNCHANGED <<cfg, lat, weight, beam>>, phase' \notin {"walk", "done"} \/ lat'.n = 0
  PROVE  NamedInv'
<1>1. PICK F : Names(F) /\ (Unpruned => AllNamed(F))
  BY DEF NamedInv
<1>2. Names(F)' /\ (Unpruned' => AllNamed(F)')
  BY <1>1, SameNames
<1>3. Retraced(F)'
  BY DEF Retraced
<1>. QED
  BY <1>2, <1>3 DEF NamedInv

\* No beam, no name.
LEMMA InitJInv == Init => JInv
<1>. SUFFICES ASSUME Init PROVE JInv
  OBVIOUS
<1>1. IInv
  BY InitIInv
<1>2. DOMAIN beam = {} /\ phase = "bootstrap" /\ elems = <<>> /\ bnd = 2
  BY DEF Init
<1>3. Reached /\ Ranked /\ SortedBeams /\ Fresh /\ LiveBeams
  BY <1>2 DEF Reached, Ranked, SortedBeams, Fresh, LiveBeams
<1>4. NamedInv
  <2>1. PICK F : F = <<>>
    OBVIOUS
  <2>2. Names(F) /\ (Unpruned => AllNamed(F)) /\ Retraced(F)
    BY <1>2 DEF Names, AllNamed, Retraced
  <2>. QED
    BY <2>2 DEF NamedInv
<1>. QED
  BY <1>1, <1>3, <1>4 DEF JInv

\* The beams of the two BOS stand for the chains into them.
LEMMA BootstrapKeeps == JInv /\ Bootstrap => JInv'
<1>. SUFFICES ASSUME JInv, Bootstrap PROVE JInv'
  OBVIOUS
<1>1. IInv /\ IInv' /\ IsLattice(lat) /\ lat.n \in Nat /\ lat' = lat /\ weight' = weight /\ cfg' = cfg
  BY BootstrapStep, NodesAndChains DEF JInv, Bootstrap
<1>2. /\ Bos0 # Bos1 /\ DOMAIN beam' = {Bos0, Bos1}
      /\ beam'[Bos0] = <<Element(NullPtr, 0)>>
      /\ beam'[Bos1] = <<Element(<<Bos0, 1>>, 0)>>
  BY <1>1, NodesAndChains DEF Bootstrap
<1>3. phase' \in {"path", "boundary"} /\ elems' = <<>> /\ bnd' = 2 /\ (phase' = "path" => lat.n = 0)
  BY DEF JInv, Fresh, Bootstrap, walking
<1>4. Reached'
  <2>1. \A v \in Node : v[1] < 2 => v \in {Bos0, Bos1}
    <3>1. \A v \in NodesOf(lat) : v[1] >= 2 \/ v = Bos0 \/ v = Bos1
      BY <1>1, NodeByStart
    <3>2. \A v \in Node : v[1] \in Int
      BY <1>1, NodesAndChains
    <3>. QED
      BY <3>1, <3>2 DEF Node
  <2>2. Node' = Node
    BY <1>1 DEF Node
  <2>. QED
    BY <1>2, <1>3, <2>1, <2>2 DEF Reached
<1>5. Ranked' /\ Fresh'
  BY <1>3 DEF Ranked, Fresh
<1>6. DOMAIN beam'[Bos0] = {1} /\ DOMAIN beam'[Bos1] = {1}
  BY <1>2
<1>7. SortedBeams'
  BY <1>2, <1>6 DEF SortedBeams
<1>8. /\ ChainsInto(lat, Bos0) = {<<Bos0>>} /\ ChainsInto(lat, Bos1) = {<<Bos0, Bos1>>}
      /\ ChainsInto(lat, Bos0)' = ChainsInto(lat, Bos0) /\ ChainsInto(lat, Bos1)' = ChainsInto(lat, Bos1)
  BY <1>1, FirstChains
<1>9. LiveBeams'
  <2>1. ASSUME NEW v \in {Bos0, Bos1}
        PROVE  beam'[v] # <<>> /\ \E c \in ChainsTo(lat, v[1]) : c[Len(c)] = v
    <3>1. beam'[v] # <<>>
      BY <1>2
    <3>2. ChainsInto(lat, v) # {}
      BY <1>8
    <3>. QED
      BY <3>1, <3>2 DEF ChainsInto
  <2>. QED
    BY <1>1, <1>2, <2>1 DEF LiveBeams
<1>10. NamedInv'
  <2>1. PICK F : /\ F[<<Bos0, 1>>] = <<Bos0>> /\ F[<<Bos1, 1>>] = <<Bos0, Bos1>>
    <3>. DEFINE G == [a \in {<<Bos0, 1>>, <<Bos1, 1>>} |->
                        IF a = <<Bos0, 1>> THEN <<Bos0>> ELSE <<Bos0, Bos1>>]
    <3>1. <<Bos1, 1>> # <<Bos0, 1>>
      BY <1>2
    <3>2. G[<<Bos0, 1>>] = <<Bos0>> /\ G[<<Bos1, 1>>] = <<Bos0, Bos1>>
      BY <3>1
    <3>. QED
      BY <3>2
  <2>2. /\ beam'[Bos1][1].prev = <<Bos0, 1>> /\ beam'[Bos1][1].score = 0
    BY <1>2 DEF Element
  <2>3. Append(<<Bos0>>, Bos1) = <<Bos0, Bos1>>
    BY <1>1, NodesAndChains, AppendToOne
  <2>4. Total(weight', <<Bos0, Bos1>>) = 0
    <3>1. Len(<<Bos0, Bos1>>) = 2
      OBVIOUS
    <3>. QED
      BY <3>1, TotalOfTwo
  <2>5. Names(F)'
    <3>1. ASSUME NEW k \in DOMAIN beam'[Bos0], NEW j \in DOMAIN beam'[Bos0]
          PROVE  F[<<Bos0, k>>] \in ChainsInto(lat', Bos0) /\ j = k
      BY <1>6, <1>8, <2>1
    <3>2. ASSUME NEW k \in DOMAIN beam'[Bos1], NEW j \in DOMAIN beam'[Bos1]
          PROVE  /\ F[<<Bos1, k>>] \in ChainsInto(lat', Bos1) /\ j = k
                 /\ F[<<Bos1, k>>] = Append(F[beam'[Bos1][k].prev], Bos1)
                 /\ beam'[Bos1][k].score = Total(weight', F[<<Bos1, k>>])
      <4>1. k = 1 /\ j = 1
        BY <1>6
      <4>2. F[<<Bos1, k>>] \in ChainsInto(lat', Bos1)
        BY <1>8, <2>1, <4>1
      <4>3. F[beam'[Bos1][k].prev] = <<Bos0>>
        BY <2>1, <2>2, <4>1
      <4>4. F[<<Bos1, k>>] = <<Bos0, Bos1>>
        BY <2>1, <4>1
      <4>. QED
        BY <2>2, <2>3, <2>4, <4>1, <4>2, <4>3, <4>4
    <3>. QED
      BY <1>2, <3>1, <3>2 DEF Names
  <2>6. AllNamed(F)'
    BY <1>2, <1>6, <1>8, <2>1 DEF AllNamed
  <2>7. Retraced(F)'
    BY <1>3 DEF Retraced
  <2>. QED
    BY <2>5, <2>6, <2>7 DEF NamedInv
<1>. QED
  BY <1>1, <1>4, <1>5, <1>7, <1>9, <1>10 DEF JInv

\* makeGlobalBeam leaves no element out that fits, and the cutoff no node.
LEMMA GlobalBeamRanks ==
  ASSUME JInv, StartBoundary, GlobalBeam > 0
  PROVE  /\ Candidates(bnd) # {} => gbeam' # <<>>
         /\ Unpruned /\ Row(bnd) # {} =>
              /\ \A a \in Candidates(bnd) : \E i \in DOMAIN gbeam' : gbeam'[i] = a
              /\ Row(bnd) \subseteq kept'
<1>. DEFINE C == Candidates(bnd)
<1>1. /\ IInv /\ Reached /\ phase = "boundary" /\ gbeam' \in Best(C, GlobalBeam, Outranks)
      /\ kept' \in KeptNodes(gbeam', bnd) /\ GlobalBeam \in Nat \ {0}
  <2>1. IInv /\ Reached /\ phase = "boundary"
    BY DEF JInv, StartBoundary
  <2>2. gbeam' \in Best(C, GlobalBeam, Outranks)
    BY DEF StartBoundary
  <2>3. kept' \in KeptNodes(gbeam', bnd)
    BY DEF StartBoundary
  <2>4. GlobalBeam \in Int
    BY <2>1, ConfigSizes DEF IInv, TypeOK
  <2>. QED
    BY <2>1, <2>2, <2>3, <2>4
<1>2. PICK m \in 0 .. GlobalBeam : gbeam' \in [1 .. m -> C]
  BY <1>1 DEF Best
<1>3. DOMAIN gbeam' = 1 .. m /\ Len(gbeam') = m /\ m \in Nat
  BY <1>1, <1>2
<1>4. /\ \A i, j \in DOMAIN gbeam' : i < j => gbeam'[i] # gbeam'[j]
      /\ C \ {gbeam'[i] : i \in DOMAIN gbeam'} # {} => Len(gbeam') = GlobalBeam
  BY <1>1 DEF Best
<1>5. Ranking(gbeam', m, C, GlobalBeam)
  <2>. HIDE DEF C
  <2>. QED
    BY <1>2, <1>3, <1>4 DEF Ranking
<1>6. ASSUME C # {} PROVE gbeam' # <<>>
  <2>1. m # 0
    <3>. HIDE DEF C
    <3>. QED
      BY <1>1, <1>5, <1>6, RankingNotEmpty
  <2>. QED
    BY <1>3, <2>1
<1>7. ASSUME Unpruned, NEW v \in Row(bnd)
      PROVE  \A a \in C : \E i \in DOMAIN gbeam' : gbeam'[i] = a
  <2>1. PICK F : Names(F) /\ AllNamed(F)
    BY <1>7 DEF JInv, NamedInv
  <2>2. IsFiniteSet(C) /\ Cardinality(C) <= GlobalBeam
    BY <1>1, <1>7, <2>1, AllFit, CandidatesFinite
  <2>. HIDE DEF C
  <2>3. \A a \in C : \E i \in 1 .. m : gbeam'[i] = a
    BY <1>1, <1>5, <2>2, RankingTakesAll
  <2>. QED
    BY <1>3, <2>3
<1>8. ASSUME Unpruned PROVE Row(bnd) \subseteq kept'
  <2>1. CASE RightCheck = 0
    BY <1>1, <2>1 DEF KeptNodes
  <2>2. CASE RightCheck # 0
    <3>1. kept' \in SUBSET Row(bnd) /\ (kept' # Row(bnd) => Cardinality(kept') = RightBeam)
      BY <1>1, <2>2 DEF KeptNodes
    <3>2. IsFiniteSet(Row(bnd))
      <4>1. IsFiniteSet(NodesOf(lat)) /\ Row(bnd) \in SUBSET NodesOf(lat)
        BY <1>1, NodesAndChains, NodesFinite DEF Row, RowOf
      <4>. QED
        BY <4>1, FS_Subset
    <3>3. Cardinality(Row(bnd)) <= RightBeam
      <4>1. RightCheck > 0 /\ bnd \in 2 .. lat.n + 2
        BY <1>1, <2>2, ConfigsAssumption DEF IInv, TypeOK, RightCheck
      <4>. QED
        BY <1>8, <4>1 DEF Unpruned
    <3>4. /\ Cardinality(kept') <= Cardinality(Row(bnd))
          /\ Cardinality(kept') = Cardinality(Row(bnd)) => kept' = Row(bnd)
          /\ Cardinality(kept') \in Nat /\ Cardinality(Row(bnd)) \in Nat
      BY <3>1, <3>2, FS_Subset, FS_CardinalityType
    <3>5. ASSUME kept' # Row(bnd) PROVE FALSE
      <4>1. Cardinality(kept') = RightBeam
        BY <3>1, <3>5
      <4>2. RightBeam \in Int
        BY <3>4, <4>1
      <4>. QED
        BY <3>3, <3>4, <3>5, <4>1, <4>2
    <3>. QED
      BY <3>5
  <2>. QED
    BY <2>1, <2>2
<1>. QED
  BY <1>6, <1>7, <1>8

\* Ranking the global beam and the cutoff change no beam.
LEMMA StartBoundaryKeeps == JInv /\ StartBoundary => JInv'
<1>. SUFFICES ASSUME JInv, StartBoundary PROVE JInv'
  OBVIOUS
<1>1. /\ UNCHANGED <<cfg, lat, weight, bnd, beam, top, myBeam, elems>>
      /\ phase = "boundary" /\ phase' = "nodes"
  BY DEF StartBoundary, walking
<1>2. IInv'
  BY StartBoundaryStep DEF JInv
<1>3. Reached' /\ Fresh'
  BY <1>1 DEF JInv, Reached, Fresh, Node
<1>4. Ranked'
  <2>1. /\ GlobalBeam' = GlobalBeam /\ Row(bnd)' = Row(bnd) /\ Candidates(bnd)' = Candidates(bnd)
        /\ Unpruned' <=> Unpruned
    BY <1>1, SameNames DEF GlobalBeam, Row
  <2>2. ASSUME GlobalBeam > 0
        PROVE  /\ Candidates(bnd) # {} => gbeam' # <<>>
               /\ Unpruned /\ Row(bnd) # {} =>
                    /\ \A a \in Candidates(bnd) : \E i \in DOMAIN gbeam' : gbeam'[i] = a
                    /\ Row(bnd) \subseteq kept'
    BY <2>2, GlobalBeamRanks
  <2>. QED
    BY <2>1, <2>2 DEF Ranked
<1>5. SortedBeams' /\ LiveBeams'
  BY <1>1, SameNames DEF JInv
<1>6. NamedInv'
  BY <1>1, NamedKept DEF JInv
<1>. QED
  BY <1>2, <1>3, <1>4, <1>5, <1>6 DEF JInv

\* A boundary whose nodes have all been scored is behind the search.
LEMMA EndBoundaryKeeps == JInv /\ EndBoundary => JInv'
<1>. SUFFICES ASSUME JInv, EndBoundary PROVE JInv'
  OBVIOUS
<1>1. /\ UNCHANGED <<cfg, lat, weight, beam, gbeam, todo, kept, top, myBeam, elems>>
      /\ phase = "nodes" /\ phase' \in {"path", "boundary"} /\ todo = {}
      /\ phase' = "boundary" => bnd' = bnd + 1
  BY DEF EndBoundary, walking
<1>2. IInv' /\ IInv
  BY EndBoundaryStep DEF JInv
<1>3. Reached'
  <2>. SUFFICES ASSUME phase' = "boundary", NEW v \in Node', v[1] < bnd' PROVE v \in DOMAIN beam'
    BY <1>1 DEF Reached
  <2>1. v \in Node /\ v[1] \in Int /\ bnd \in Int
    <3>1. v \in Node
      BY <1>1 DEF Node
    <3>2. v[1] \in Int /\ lat.n \in Nat
      BY <1>2, <3>1, NodesAndChains
    <3>3. bnd \in 2 .. lat.n + 2
      BY <1>2 DEF IInv, TypeOK
    <3>. QED
      BY <3>1, <3>2, <3>3
  <2>2. CASE v[1] < bnd
    BY <1>1, <2>1, <2>2 DEF JInv, Reached
  <2>3. CASE v[1] = bnd
    <3>1. v \in Row(bnd)
      BY <2>1, <2>3 DEF Row, RowOf, Node
    <3>. QED
      BY <1>1, <1>2, <3>1 DEF IInv, Scored
  <2>4. v[1] < bnd \/ v[1] = bnd
    <3>1. v[1] < bnd + 1
      BY <1>1
    <3>. QED
      BY <2>1, <3>1
  <2>. QED
    BY <1>1, <2>2, <2>3, <2>4
<1>4. Ranked' /\ Fresh'
  BY <1>1 DEF JInv, Ranked, Fresh
<1>5. SortedBeams' /\ LiveBeams'
  BY <1>1, SameNames DEF JInv
<1>6. NamedInv'
  BY <1>1, NamedKept DEF JInv
<1>. QED
  BY <1>2, <1>3, <1>4, <1>5, <1>6 DEF JInv

\* fillIn starts with the whole chain of EOS's first element before it.
LEMMA StartPathKeeps == JInv /\ StartPath => JInv'
<1>. SUFFICES ASSUME JInv, StartPath PROVE JInv'
  OBVIOUS
<1>1. /\ UNCHANGED <<cfg, lat, weight, bnd, beam, gbeam, todo, kept>>
      /\ phase = "path" /\ phase' \in {"done", "crashed", "walk"}
  BY DEF StartPath, scoring
<1>2. IInv' /\ IInv /\ lat.n \in Nat
  BY StartPathStep, NodesAndChains DEF JInv
<1>3. CASE phase' = "walk"
  <2>1. top' = <<Eos, 1>> /\ elems' = <<>>
    BY <1>2, <1>3 DEF StartPath
  <2>2. Walking'
    BY <1>2 DEF IInv
  <2>3. PICK F : Names(F) /\ (Unpruned => AllNamed(F))
    BY DEF JInv, NamedInv
  <2>4. Names(F)' /\ (Unpruned' => AllNamed(F)')
    BY <1>1, <2>3, SameNames
  <2>5. Retraced(F)'
    <3>1. Eos' = Eos
      BY <1>1 DEF Eos
    <3>2. F[top'] \in ChainsInto(lat, Eos)
      BY <1>1, <1>3, <2>1, <2>2, <2>3 DEF Names, Walking, IsElem
    <3>3. Len(F[top']) \in Nat
      BY <1>2, <3>2, NodesAndChains, IntoIsChain DEF Node
    <3>. QED
      BY <1>3, <2>1, <2>2, <3>1, <3>3 DEF Retraced, Walking, IsElem
  <2>6. NamedInv'
    BY <2>4, <2>5 DEF NamedInv
  <2>. QED
    BY <1>1, <1>2, <1>3, <2>6, SameNames DEF JInv, Reached, Ranked, Fresh
<1>4. CASE phase' # "walk"
  <2>1. UNCHANGED elems /\ (phase' = "done" => lat.n = 0)
    BY <1>2, <1>4 DEF StartPath, walking
  <2>2. NamedInv'
    BY <1>1, <1>4, <2>1, NamedKept DEF JInv
  <2>3. elems' = <<>>
    BY <1>1, <2>1 DEF JInv, Fresh
  <2>. QED
    BY <1>1, <1>2, <2>2, <2>3, SameNames DEF JInv, Reached, Ranked, Fresh
<1>. QED
  BY <1>3, <1>4

\* e is what element k of node v points to, in the names F.
PointsBack(F, v, k, e) ==
  /\ e = <<e[1], e[2]>> /\ IsElem(e) /\ e[1] \in Node
  /\ F[e] \in ChainsInto(lat, e[1])
  /\ Len(F[e]) \in Nat \ {0} /\ F[e][Len(F[e])] = e[1]
  /\ Len(F[<<v, k>>]) = Len(F[e]) + 1
  /\ \A i \in 1 .. Len(F[e]) : F[<<v, k>>][i] = F[e][i]

\* The pointer of an element of which a name is known, and the names of both.
LEMMA NamedPointer ==
  ASSUME IInv, NEW F, Names(F), NEW v \in DOMAIN beam, v # Bos0, NEW k \in DOMAIN beam[v],
         NEW e, e = beam[v][k].prev
  PROVE  PointsBack(F, v, k, e)
<1>1. IsElem(e) /\ EndOf(e[1]) = v[1]
  BY DEF IInv, BackPointers, IsElem
<1>2. e = <<e[1], e[2]>> /\ v \in Node
  BY ElemShape
<1>3. e[1] \in Node
  BY <1>1 DEF IInv, TypeOK, IsElem
<1>4. F[<<v, k>>] = Append(F[e], v)
  BY DEF Names
<1>5. F[e] \in ChainsInto(lat, e[1])
  <2>1. F[<<e[1], e[2]>>] \in ChainsInto(lat, e[1])
    BY <1>1 DEF Names, IsElem
  <2>. QED
    BY <1>2, <2>1
<1>6. Len(F[e]) \in Nat \ {0} /\ F[e][Len(F[e])] = e[1]
  BY <1>3, <1>5, NodesAndChains, IntoIsChain DEF Node
<1>7. /\ Len(Append(F[e], v)) = Len(F[e]) + 1
      /\ \A i \in 1 .. Len(F[e]) : Append(F[e], v)[i] = F[e][i]
  BY <1>1, <1>2, <1>3, <1>5, NodesAndChains, GrownChain DEF EndOf, Node
<1>. QED
  BY <1>1, <1>2, <1>3, <1>4, <1>5, <1>6, <1>7 DEF PointsBack

\* c is the chain p followed by the words of q, last first.
Splits(c, p, q) ==
  /\ Len(c) = Len(p) + Len(q)
  /\ \A i \in 1 .. Len(p) : c[i] = p[i]
  /\ \A i \in 1 .. Len(q) : q[i][1] = c[Len(c) - i]

\* The last node of p may as well be the next word.
LEMMA SplitsEarlier ==
  ASSUME NEW c, NEW p, NEW d, NEW S, NEW q \in Seq(S), NEW e \in S, Splits(c, p, q),
         Len(d) \in Nat \ {0}, d[Len(d)] = e[1],
         Len(p) = Len(d) + 1, \A i \in 1 .. Len(d) : p[i] = d[i]
  PROVE  Splits(c, d, Append(q, e))
<1>. DEFINE r == Append(q, e)
            k == Len(q)
            m == Len(d)
<1>1. k \in Nat /\ m \in Nat \ {0} /\ Len(r) = k + 1 /\ r[k + 1] = e /\ \A i \in 1 .. k : r[i] = q[i]
  OBVIOUS
<1>2. /\ Len(p) = m + 1 /\ Len(c) = (m + 1) + k
      /\ \A i \in 1 .. m + 1 : c[i] = p[i]
      /\ \A i \in 1 .. k : q[i][1] = c[Len(c) - i]
      /\ d[m] = e[1] /\ \A i \in 1 .. m : p[i] = d[i]
  BY DEF Splits
<1>. HIDE DEF r, k, m
<1>3. Len(c) = m + Len(r)
  BY <1>1, <1>2
<1>4. \A i \in 1 .. m : c[i] = d[i]
  <2>1. \A i \in 1 .. m : i \in 1 .. m + 1
    BY <1>1
  <2>. QED
    BY <1>2, <2>1
<1>5. ASSUME NEW i \in 1 .. Len(r) PROVE r[i][1] = c[Len(c) - i]
  <2>1. CASE i \in 1 .. k
    BY <1>1, <1>2, <2>1
  <2>2. CASE i = k + 1
    <3>1. Len(c) - i = m /\ m \in 1 .. m
      BY <1>1, <1>2, <2>2
    <3>2. c[m] = d[m]
      BY <1>4, <3>1
    <3>. QED
      BY <1>1, <1>2, <2>2, <3>1, <3>2
  <2>. QED
    BY <1>1, <2>1, <2>2
<1>6. m = Len(d)
  BY DEF m
<1>. QED
  BY <1>3, <1>4, <1>5, <1>6 DEF Splits, r

\* One turn of fillIn moves the last node of the chain that is left to the words.
LEMMA WalkBackKeeps == JInv /\ WalkBack => JInv'
<1>. SUFFICES ASSUME JInv, WalkBack PROVE JInv'
  OBVIOUS
<1>1. /\ UNCHANGED <<cfg, lat, weight, phase, bnd, beam, gbeam, todo, kept>>
      /\ phase = "walk" /\ top[1][1] > 2
  BY DEF WalkBack, scoring
<1>2. IInv' /\ IInv /\ lat.n \in Nat
  BY WalkBackStep, NodesAndChains DEF JInv
<1>3. IsElem(top) /\ myBeam = top[2] /\ lat.n > 0
  BY <1>1, <1>2 DEF IInv, Walking, KnowsItsBeam
<1>. DEFINE e == beam[top[1]][top[2]].prev
<1>4. elems' = Append(elems, e) /\ top' = e
  BY <1>3 DEF WalkBack, Elem
<1>5. PICK F : Names(F) /\ (Unpruned => AllNamed(F)) /\ Retraced(F)
  BY DEF JInv, NamedInv
<1>6. top = <<top[1], top[2]>>
  BY <1>2 DEF IInv, TypeOK, Addr, NullPtr
<1>7. top[1] # Bos0
  BY <1>1 DEF Bos0
<1>8. /\ Len(F[e]) \in Nat \ {0} /\ F[e][Len(F[e])] = e[1]
      /\ Len(F[top]) = Len(F[e]) + 1
      /\ \A i \in 1 .. Len(F[e]) : F[top][i] = F[e][i]
  <2>1. PICK v \in DOMAIN beam : \E k \in DOMAIN beam[v] : v = top[1] /\ k = top[2]
    BY <1>3 DEF IsElem
  <2>2. PICK k \in DOMAIN beam[v] : v = top[1] /\ k = top[2]
    BY <2>1
  <2>3. v # Bos0 /\ top = <<v, k>> /\ e = beam[v][k].prev
    BY <1>6, <1>7, <2>2
  <2>. HIDE DEF e
  <2>4. PointsBack(F, v, k, e)
    <3>1. IInv /\ Names(F)
      BY <1>2, <1>5
    <3>. QED
      BY <2>3, <3>1, NamedPointer
  <2>. QED
    BY <2>3, <2>4 DEF PointsBack
<1>9. Walking'
  BY <1>2 DEF IInv
<1>10. Names(F)' /\ (Unpruned' => AllNamed(F)')
  BY <1>1, <1>5, SameNames
<1>11. e \in Addr \cup {NullPtr} /\ elems \in Seq(Addr \cup {NullPtr})
  BY <1>2, <1>3, ElemShape DEF IsElem, IInv, TypeOK
<1>12. Splits(F[<<Eos, 1>>], F[top], elems) /\ IsElem(<<Eos, 1>>)
  BY <1>1, <1>3, <1>5 DEF Retraced, Splits
<1>13. Splits(F[<<Eos, 1>>], F[e], Append(elems, e))
  <2>. DEFINE S == Addr \cup {NullPtr}
  <2>1. e \in S /\ elems \in Seq(S)
    BY <1>11
  <2>. HIDE DEF e, S
  <2>. QED
    BY <1>8, <1>12, <2>1, SplitsEarlier
<1>14. Retraced(F)'
  <2>1. Splits(F[<<Eos', 1>>], F[top'], elems') /\ Eos' = Eos
    <3>1. Eos' = Eos
      BY <1>1 DEF Eos
    <3>. HIDE DEF e
    <3>. QED
      BY <1>4, <1>13, <3>1
  <2>2. IsElem(top)' /\ top'[1][1] >= 2 /\ phase' = "walk"
    BY <1>1, <1>9 DEF Walking
  <2>3. IsElem(<<Eos, 1>>)'
    BY <1>1, <1>12, <2>1 DEF IsElem
  <2>. QED
    BY <2>1, <2>2, <2>3 DEF Retraced, Splits
<1>15. NamedInv'
  BY <1>10, <1>14 DEF NamedInv
<1>. QED
  BY <1>1, <1>2, <1>15, SameNames DEF JInv, Reached, Ranked, Fresh

\* fillIn ends where it stands.
LEMMA EndPathKeeps == JInv /\ EndPath => JInv'
<1>. SUFFICES ASSUME JInv, EndPath PROVE JInv'
  OBVIOUS
<1>1. /\ UNCHANGED <<cfg, lat, weight, bnd, beam, gbeam, todo, kept, top, myBeam, elems>>
      /\ phase = "walk" /\ phase' = "done" /\ top[1][1] <= 2
  BY DEF EndPath, scoring, walking
<1>2. IInv' /\ IInv
  BY EndPathStep DEF JInv
<1>3. PICK F : Names(F) /\ (Unpruned => AllNamed(F)) /\ Retraced(F)
  BY DEF JInv, NamedInv
<1>4. Names(F)' /\ (Unpruned' => AllNamed(F)')
  BY <1>1, <1>3, SameNames
<1>5. top[1][1] = 2
  <2>1. IsElem(top) /\ top[1][1] >= 2
    BY <1>1, <1>2 DEF IInv, Walking
  <2>2. top[1] \in Node
    BY <1>2, <2>1 DEF IInv, TypeOK, IsElem
  <2>3. top[1][1] \in Int
    BY <1>2, <2>2, NodesAndChains
  <2>. QED
    BY <1>1, <2>1, <2>3
<1>6. Retraced(F)'
  BY <1>1, <1>3, <1>5 DEF Retraced, IsElem, Eos
<1>7. NamedInv'
  BY <1>4, <1>6 DEF NamedInv
<1>. QED
  BY <1>1, <1>2, <1>7, SameNames DEF JInv, Reached, Ranked, Fresh

\* A stuttering step keeps the invariant.
LEMMA StutterKeeps == JInv /\ UNCHANGED vars => JInv'
<1>. SUFFICES ASSUME JInv, UNCHANGED vars PROVE JInv'
  OBVIOUS
<1>1. UNCHANGED <<cfg, lat, weight, phase, bnd, beam, gbeam, todo, kept, top, myBeam, elems>>
  BY DEF vars
<1>2. IInv'
  BY Inductive DEF JInv
<1>3. PICK F : Names(F) /\ (Unpruned => AllNamed(F)) /\ Retraced(F)
  BY DEF JInv, NamedInv
<1>4. Names(F)' /\ (Unpruned' => AllNamed(F)')
  BY <1>1, <1>3, SameNames
<1>5. Retraced(F)'
  BY <1>1, <1>3 DEF Retraced, IsElem, Eos
<1>6. NamedInv'
  BY <1>4, <1>5 DEF NamedInv
<1>7. Reached' /\ Fresh'
  BY <1>1 DEF JInv, Reached, Fresh, Node
<1>8. Ranked'
  <2>1. /\ GlobalBeam' = GlobalBeam /\ Row(bnd)' = Row(bnd) /\ Candidates(bnd)' = Candidates(bnd)
        /\ Unpruned' <=> Unpruned
    BY <1>1, SameNames DEF GlobalBeam, Row
  <2>. QED
    BY <1>1, <2>1 DEF JInv, Ranked
<1>9. SortedBeams' /\ LiveBeams'
  BY <1>1, SameNames DEF JInv
<1>. QED
  BY <1>2, <1>6, <1>7, <1>8, <1>9 DEF JInv

\* What scoring a node v does to the beams.
Extended(v, addrs, m) ==
  /\ UNCHANGED <<cfg, lat, weight>>
  /\ v \in Row(bnd) /\ v \notin DOMAIN beam /\ Ranks(addrs, m, v)
  /\ DOMAIN beam' = DOMAIN beam \cup {v}
  /\ \A u \in DOMAIN beam : beam'[u] = beam[u]
  /\ beam'[v] = [i \in 1 .. m |-> Element(addrs[i], NewScore(addrs[i], v))]

\* The names of the elements of v are those of the elements they extend, and v.
Renamed(F, v, addrs, a) == IF a[1] = v THEN Append(F[addrs[a[2]]], v) ELSE F[a]
IsRenamed(G, F, v, addrs) ==
  /\ \A k \in Nat : G[<<v, k>>] = Append(F[addrs[k]], v)
  /\ \A u \in DOMAIN beam : u # v => \A k \in Nat : G[<<u, k>>] = F[<<u, k>>]

\* F names the elements, and G those and the ones the new beam adds.
Renaming(G, F, v, addrs, m) ==
  IInv /\ Names(F) /\ Extended(v, addrs, m) /\ IsRenamed(G, F, v, addrs)

\* There are such names.
LEMMA RenamedExists ==
  ASSUME IInv, NEW F, NEW v \in Node, NEW addrs
  PROVE  \E G : IsRenamed(G, F, v, addrs)
<1>. DEFINE G == [a \in Addr |-> Renamed(F, v, addrs, a)]
<1>1. \A k \in Nat : <<v, k>> \in Addr /\ G[<<v, k>>] = Append(F[addrs[k]], v)
  BY DEF Addr, Renamed
<1>2. ASSUME NEW u \in DOMAIN beam, u # v, NEW k \in Nat PROVE G[<<u, k>>] = F[<<u, k>>]
  <2>1. <<u, k>> \in Addr
    BY DEF IInv, TypeOK, Addr
  <2>. QED
    BY <1>2, <2>1 DEF Renamed
<1>. HIDE DEF G
<1>. QED
  BY <1>1, <1>2 DEF IsRenamed

\* What an element of the new beam is, and what the elements that were there are.
IsNew(G, F, v, addrs, m, k) ==
  /\ k \in 1 .. m /\ m \in Nat /\ addrs[k] \in Candidates(bnd)
  /\ beam'[v][k].prev = addrs[k] /\ beam'[v][k].score = NewScore(addrs[k], v)
  /\ G[<<v, k>>] = Append(F[addrs[k]], v) /\ G[addrs[k]] = F[addrs[k]]
  /\ G[<<v, k>>] \in ChainsInto(lat, v)
  /\ beam'[v][k].score = Total(weight, G[<<v, k>>])
IsOld(G, F, u, k) ==
  /\ G[<<u, k>>] = F[<<u, k>>]
  /\ u # Bos0 => G[beam[u][k].prev] = F[beam[u][k].prev]

\* An element of the new beam is named after the one it extends.
LEMMA NewElement ==
  ASSUME NEW G, NEW F, NEW v, NEW addrs, NEW m, Renaming(G, F, v, addrs, m)
  PROVE  \A k \in DOMAIN beam'[v] : IsNew(G, F, v, addrs, m, k)
<1>. SUFFICES ASSUME NEW k \in DOMAIN beam'[v] PROVE IsNew(G, F, v, addrs, m, k)
  OBVIOUS
<1>0. IInv /\ Names(F) /\ Extended(v, addrs, m) /\ IsRenamed(G, F, v, addrs)
  BY DEF Renaming
<1>1. k \in 1 .. m /\ m \in Nat /\ addrs[k] \in Candidates(bnd)
  BY <1>0 DEF Extended, Ranks
<1>2. beam'[v][k] = Element(addrs[k], NewScore(addrs[k], v))
  BY <1>0, <1>1 DEF Extended
<1>3. beam'[v][k].prev = addrs[k] /\ beam'[v][k].score = NewScore(addrs[k], v)
  BY <1>2 DEF Element
<1>4. v \in Row(bnd) /\ v \notin DOMAIN beam
  BY <1>0 DEF Extended
<1>5. G[<<v, k>>] = Append(F[addrs[k]], v)
  <2>1. k \in Nat
    BY <1>1
  <2>. QED
    BY <1>0, <2>1 DEF IsRenamed
<1>6. G[addrs[k]] = F[addrs[k]]
  <2>1. /\ addrs[k] = <<addrs[k][1], addrs[k][2]>> /\ addrs[k][1] \in DOMAIN beam
        /\ addrs[k][2] \in DOMAIN beam[addrs[k][1]]
    BY <1>0, <1>1, <1>4, CandidateShape
  <2>2. addrs[k][2] \in Nat /\ addrs[k][1] # v
    BY <1>0, <1>4, <2>1, ElemShape
  <2>3. G[<<addrs[k][1], addrs[k][2]>>] = F[<<addrs[k][1], addrs[k][2]>>]
    BY <1>0, <2>1, <2>2 DEF IsRenamed
  <2>. QED
    BY <2>1, <2>3
<1>7. /\ Append(F[addrs[k]], v) \in ChainsInto(lat, v)
      /\ NewScore(addrs[k], v) = Total(weight, Append(F[addrs[k]], v))
  BY <1>0, <1>1, <1>4, NamedExtends
<1>. QED
  BY <1>1, <1>3, <1>5, <1>6, <1>7 DEF IsNew

\* The elements that were there keep their names, and so do those they point to.
LEMMA OldElement ==
  ASSUME NEW G, NEW F, NEW v, NEW addrs, NEW m, Renaming(G, F, v, addrs, m)
  PROVE  \A u \in DOMAIN beam : \A k \in DOMAIN beam[u] : IsOld(G, F, u, k)
<1>0. IInv /\ Names(F) /\ Extended(v, addrs, m) /\ IsRenamed(G, F, v, addrs)
  BY DEF Renaming
<1>. SUFFICES ASSUME NEW u \in DOMAIN beam, NEW k \in DOMAIN beam[u] PROVE IsOld(G, F, u, k)
  OBVIOUS
<1>2. \A x \in DOMAIN beam : \A j \in DOMAIN beam[x] : G[<<x, j>>] = F[<<x, j>>]
  <2>. SUFFICES ASSUME NEW x \in DOMAIN beam, NEW j \in DOMAIN beam[x] PROVE G[<<x, j>>] = F[<<x, j>>]
    OBVIOUS
  <2>1. x # v /\ j \in Nat
    BY <1>0, ElemShape DEF Extended
  <2>. QED
    BY <1>0, <2>1 DEF IsRenamed
<1>3. ASSUME u # Bos0 PROVE G[beam[u][k].prev] = F[beam[u][k].prev]
  <2>0. PICK e : e = beam[u][k].prev
    OBVIOUS
  <2>1. e = <<e[1], e[2]>> /\ IsElem(e)
    <3>1. IInv
      BY <1>0
    <3>2. beam[u][k].prev = <<beam[u][k].prev[1], beam[u][k].prev[2]>>
      BY <3>1, ElemShape
    <3>3. IsElem(beam[u][k].prev)
      BY <1>3, <3>1 DEF IInv, BackPointers, IsElem
    <3>. QED
      BY <2>0, <3>2, <3>3
  <2>2. G[<<e[1], e[2]>>] = F[<<e[1], e[2]>>]
    BY <1>2, <2>1 DEF IsElem
  <2>3. G[e] = F[e]
    BY <2>1, <2>2
  <2>. QED
    BY <2>0, <2>3
<1>. QED
  BY <1>2, <1>3 DEF IsOld

\* The new names are those of chains, all different, and tell the scores.
LEMMA NamesExtended ==
  ASSUME NEW G, NEW F, NEW v, NEW addrs, NEW m, Renaming(G, F, v, addrs, m)
  PROVE  Names(G)'
<1>0. IInv /\ Names(F) /\ Extended(v, addrs, m) /\ IsRenamed(G, F, v, addrs)
  BY DEF Renaming
<1>n. \A k \in DOMAIN beam'[v] : IsNew(G, F, v, addrs, m, k)
  BY NewElement
<1>o. \A u \in DOMAIN beam : \A k \in DOMAIN beam[u] : IsOld(G, F, u, k)
  BY OldElement
<1>1. lat' = lat /\ weight' = weight /\ DOMAIN beam' = DOMAIN beam \cup {v}
  BY <1>0 DEF Extended
<1>2. ASSUME NEW k \in DOMAIN beam'[v]
      PROVE  /\ G[<<v, k>>] \in ChainsInto(lat', v)
             /\ G[<<v, k>>] = Append(G[beam'[v][k].prev], v)
             /\ beam'[v][k].score = Total(weight', G[<<v, k>>])
  <2>1. IsNew(G, F, v, addrs, m, k)
    BY <1>n
  <2>. QED
    BY <1>1, <2>1 DEF IsNew
<1>3. ASSUME NEW k \in DOMAIN beam'[v], NEW j \in DOMAIN beam'[v], G[<<v, j>>] = G[<<v, k>>] PROVE j = k
  <2>0. IsNew(G, F, v, addrs, m, k) /\ IsNew(G, F, v, addrs, m, j)
    BY <1>n
  <2>1. Append(F[addrs[j]], v) = Append(F[addrs[k]], v)
    BY <1>3, <2>0 DEF IsNew
  <2>2. addrs[j] \in Candidates(bnd) /\ addrs[k] \in Candidates(bnd) /\ j \in 1 .. m /\ k \in 1 .. m
    BY <2>0 DEF IsNew
  <2>3. addrs[j] = addrs[k]
    <3>1. PICK a \in Candidates(bnd), b \in Candidates(bnd) : a = addrs[j] /\ b = addrs[k]
      BY <2>2
    <3>2. Append(F[a], v) = Append(F[b], v)
      BY <2>1, <3>1
    <3>3. IInv /\ Names(F) /\ v \in Row(bnd)
      BY <1>0 DEF Extended
    <3>4. a = b
      BY <3>2, <3>3, NamedDiffer
    <3>. QED
      BY <3>1, <3>4
  <2>4. (j < k => addrs[j] # addrs[k]) /\ (k < j => addrs[k] # addrs[j])
    BY <1>0, <2>2 DEF Extended, Ranks
  <2>. QED
    BY <2>2, <2>3, <2>4
<1>4. ASSUME NEW u \in DOMAIN beam, NEW k \in DOMAIN beam'[u]
      PROVE  /\ G[<<u, k>>] \in ChainsInto(lat', u)
             /\ u # Bos0 => /\ G[<<u, k>>] = Append(G[beam'[u][k].prev], u)
                            /\ beam'[u][k].score = Total(weight', G[<<u, k>>])
             /\ \A j \in DOMAIN beam'[u] : G[<<u, j>>] = G[<<u, k>>] => j = k
  <2>1. beam'[u] = beam[u]
    BY <1>0 DEF Extended
  <2>2. k \in DOMAIN beam[u] /\ \A j \in DOMAIN beam[u] : G[<<u, j>>] = F[<<u, j>>]
    BY <1>o, <2>1 DEF IsOld
  <2>3. u # Bos0 => G[beam[u][k].prev] = F[beam[u][k].prev]
    BY <1>o, <2>2 DEF IsOld
  <2>4. /\ F[<<u, k>>] \in ChainsInto(lat, u)
        /\ u # Bos0 => /\ F[<<u, k>>] = Append(F[beam[u][k].prev], u)
                       /\ beam[u][k].score = Total(weight, F[<<u, k>>])
        /\ \A j \in DOMAIN beam[u] : F[<<u, j>>] = F[<<u, k>>] => j = k
    BY <1>0, <2>2 DEF Names
  <2>. QED
    BY <1>1, <2>1, <2>2, <2>3, <2>4
<1>. QED
  BY <1>1, <1>2, <1>3, <1>4 DEF Names

\* If nothing has to be pruned, every chain into the new node is named.
LEMMA AllNamedExtended ==
  ASSUME NEW G, NEW F, NEW v, NEW addrs, NEW m, Renaming(G, F, v, addrs, m),
         Reached, phase = "nodes", Unpruned, AllNamed(F)
  PROVE  AllNamed(G)'
<1>0. IInv /\ Names(F) /\ Extended(v, addrs, m) /\ IsRenamed(G, F, v, addrs)
  BY DEF Renaming
<1>n. \A k \in DOMAIN beam'[v] : IsNew(G, F, v, addrs, m, k)
  BY NewElement
<1>o. \A u \in DOMAIN beam : \A k \in DOMAIN beam[u] : IsOld(G, F, u, k)
  BY OldElement
<1>1. lat' = lat /\ DOMAIN beam' = DOMAIN beam \cup {v} /\ v \in Row(bnd) /\ Ranks(addrs, m, v)
  BY <1>0 DEF Extended
<1>2. ASSUME NEW c \in ChainsInto(lat, v) PROVE \E k \in DOMAIN beam'[v] : G[<<v, k>>] = c
  <2>1. PICK a \in Candidates(bnd) : Append(F[a], v) = c
    BY <1>0, <1>1, <1>2, EveryChainIsExtended
  <2>2. PICK k \in 1 .. m : addrs[k] = a
    BY <1>1 DEF Ranks
  <2>3. k \in DOMAIN beam'[v]
    BY <1>0 DEF Extended
  <2>. QED
    BY <1>n, <2>1, <2>2, <2>3 DEF IsNew
<1>3. ASSUME NEW u \in DOMAIN beam, NEW c \in ChainsInto(lat, u)
      PROVE  \E k \in DOMAIN beam'[u] : G[<<u, k>>] = c
  <2>1. PICK k \in DOMAIN beam[u] : F[<<u, k>>] = c
    BY <1>3 DEF AllNamed
  <2>2. beam'[u] = beam[u] /\ G[<<u, k>>] = F[<<u, k>>]
    BY <1>0, <1>o, <2>1 DEF IsOld, Extended
  <2>. QED
    BY <2>1, <2>2
<1>. QED
  BY <1>1, <1>2, <1>3 DEF AllNamed

\* A node gets a beam exactly if a chain leads to it.
LEMMA LiveExtended ==
  ASSUME NEW G, NEW F, NEW v, NEW addrs, NEW m, Renaming(G, F, v, addrs, m), Reached, LiveBeams,
         phase \in {"boundary", "nodes"}
  PROVE  beam'[v] # <<>> <=> \E c \in ChainsTo(lat, v[1]) : c[Len(c)] = v
<1>0. IInv /\ Extended(v, addrs, m) /\ v \in Row(bnd) /\ Ranks(addrs, m, v)
  BY DEF Renaming, Extended
<1>1. DOMAIN beam'[v] = 1 .. m /\ m \in Nat
  BY <1>0 DEF Extended, Ranks
<1>2. ASSUME beam'[v] # <<>> PROVE ChainsInto(lat, v) # {}
  <2>1. m # 0
    <3>1. ASSUME m = 0 PROVE beam'[v] = <<>>
      BY <1>0, <3>1 DEF Extended
    <3>. QED
      BY <1>2, <3>1
  <2>2. 1 \in DOMAIN beam'[v]
    BY <1>1, <2>1
  <2>3. IsNew(G, F, v, addrs, m, 1)
    BY <2>2, NewElement
  <2>. QED
    BY <2>3 DEF IsNew
<1>3. ASSUME NEW c \in ChainsInto(lat, v) PROVE beam'[v] # <<>>
  <2>1. v \in NodesOf(lat) /\ v # Bos0 /\ v[1] = bnd /\ bnd \in 2 .. lat.n + 2 /\ lat.n \in Nat
    <3>1. v \in NodesOf(lat) /\ v[1] = bnd /\ bnd \in 2 .. lat.n + 2 /\ lat.n \in Nat
      BY <1>0, NodesAndChains DEF Row, RowOf, IInv, TypeOK
    <3>. QED
      BY <3>1 DEF Bos0
  <2>2. PICK u \in NodesOf(lat) : \E d \in ChainsInto(lat, u) : EndIn(lat, u) = v[1]
    BY <1>0, <1>3, <2>1, NodesAndChains, ChainGrows
  <2>3. u \in Node /\ EndOf(u) = bnd /\ u[1] < bnd /\ ChainsInto(lat, u) # {}
    <3>1. u \in Node /\ EndOf(u) = bnd /\ ChainsInto(lat, u) # {}
      BY <2>1, <2>2 DEF Node, EndOf
    <3>. QED
      BY <1>0, <3>1, NodesAndChains
  <2>4. u \in DOMAIN beam
    BY <2>3 DEF Reached
  <2>5. beam[u] # <<>>
    BY <2>3, <2>4 DEF LiveBeams, ChainsInto
  <2>6. PICK q \in Seq([prev : Addr \cup {NullPtr}, score : Int]) : q = beam[u]
    BY <1>0, <2>4 DEF IInv, TypeOK
  <2>7. 1 \in DOMAIN beam[u]
    BY <2>5, <2>6
  <2>8. <<u, 1>> \in Candidates(bnd)
    BY <2>3, <2>4, <2>7, CandidateIsElem
  <2>9. m # 0
    BY <1>0, <2>8 DEF Ranks
  <2>10. 1 \in DOMAIN beam'[v]
    BY <1>1, <2>9
  <2>. QED
    BY <2>10
<1>. QED
  BY <1>2, <1>3 DEF ChainsInto

\* The names, the order and the life of the beams after a node was scored.
LEMMA ScoreNodeKeeps ==
  ASSUME JInv, NEW v \in Node, ScoreNode(v)
  PROVE  JInv'
<1>1. /\ UNCHANGED <<cfg, lat, weight, phase, bnd, gbeam, kept, top, myBeam, elems>>
      /\ phase = "nodes" /\ v \in todo
  BY DEF ScoreNode, walking
<1>2. IInv /\ IInv' /\ Reached /\ Ranked /\ SortedBeams /\ Fresh /\ LiveBeams
  BY ScoreNodeStep DEF JInv
<1>3. v \in Row(bnd) /\ v \notin DOMAIN beam /\ v[1] = bnd
  BY <1>1, <1>2 DEF IInv, TypeOK, Scored, Row, RowOf
<1>4. PICK addrs \in IF GlobalBeam > 0 THEN GlobalBeams(v) ELSE FullBeams(v) :
        beam' = [u \in DOMAIN beam \cup {v} |->
                   IF u = v THEN [i \in DOMAIN addrs |-> Element(addrs[i], NewScore(addrs[i], v))]
                            ELSE beam[u]]
  BY <1>1 DEF ScoreNode
<1>5. PICK F : Names(F) /\ (Unpruned => AllNamed(F))
  BY DEF JInv, NamedInv
<1>6. PICK m : Ranks(addrs, m, v)
  <2>1. CASE GlobalBeam > 0
    BY <1>1, <1>2, <1>3, <1>4, <1>5, <2>1, GlobalRanks
  <2>2. CASE ~ GlobalBeam > 0
    BY <1>1, <1>2, <1>3, <1>4, <1>5, <2>2, FullRanks
  <2>. QED
    BY <2>1, <2>2
<1>7. Extended(v, addrs, m)
  <2>1. DOMAIN addrs = 1 .. m
    BY <1>6 DEF Ranks
  <2>2. DOMAIN beam' = DOMAIN beam \cup {v}
    BY <1>4
  <2>3. \A u \in DOMAIN beam : beam'[u] = beam[u]
    BY <1>3, <1>4
  <2>4. beam'[v] = [i \in 1 .. m |-> Element(addrs[i], NewScore(addrs[i], v))]
    BY <1>4, <2>1
  <2>. QED
    BY <1>1, <1>3, <1>6, <2>2, <2>3, <2>4 DEF Extended
<1>8. PICK G : Renaming(G, F, v, addrs, m)
  BY <1>2, <1>5, <1>7, RenamedExists DEF Renaming
<1>9. Unpruned' <=> Unpruned
  BY <1>1 DEF Unpruned, BeamSize, GlobalBeam, RightCheck, RightBeam, Row
<1>10. NamedInv'
  <2>1. Names(G)'
    BY <1>8, NamesExtended
  <2>2. Unpruned' => AllNamed(G)'
    BY <1>1, <1>2, <1>5, <1>8, <1>9, AllNamedExtended
  <2>3. Retraced(G)'
    BY <1>1 DEF Retraced
  <2>. QED
    BY <2>1, <2>2, <2>3 DEF NamedInv
<1>11. Reached' /\ Fresh'
  BY <1>1, <1>2, <1>7 DEF Reached, Fresh, Node, Extended
<1>12. Candidates(bnd)' = Candidates(bnd)
  <2>1. EndIn(lat, v) # bnd
    <3>1. EndOf(v) \in Int /\ v[1] < EndOf(v) /\ v[1] \in Int
      BY <1>2, NodesAndChains
    <3>. QED
      BY <1>3, <3>1 DEF EndOf
  <2>2. Ends(bnd)' = Ends(bnd)
    BY <1>1, <1>7, <2>1 DEF Ends, EndOf, Extended
  <2>. QED
    BY <1>7, <2>2 DEF Candidates, Ends, Extended
<1>13. Ranked'
  <2>1. GlobalBeam' = GlobalBeam /\ Row(bnd)' = Row(bnd)
    BY <1>1 DEF GlobalBeam, Row
  <2>. QED
    BY <1>1, <1>2, <1>9, <1>12, <2>1 DEF Ranked
<1>14. SortedBeams'
  <2>1. ASSUME NEW i \in DOMAIN beam'[v], NEW j \in DOMAIN beam'[v], i < j
        PROVE  beam'[v][j].score <= beam'[v][i].score
    <3>1. IsNew(G, F, v, addrs, m, i) /\ IsNew(G, F, v, addrs, m, j)
      BY <1>8, NewElement
    <3>2. NewScore(addrs[j], v) <= NewScore(addrs[i], v)
      BY <1>6, <2>1, <3>1 DEF IsNew, Ranks
    <3>. QED
      BY <3>1, <3>2 DEF IsNew
  <2>2. DOMAIN beam' = DOMAIN beam \cup {v} /\ \A u \in DOMAIN beam : beam'[u] = beam[u]
    BY <1>7 DEF Extended
  <2>. QED
    BY <1>2, <2>1, <2>2 DEF SortedBeams
<1>15. LiveBeams'
  <2>1. beam'[v] # <<>> <=> \E c \in ChainsTo(lat, v[1]) : c[Len(c)] = v
    BY <1>1, <1>2, <1>8, LiveExtended
  <2>2. DOMAIN beam' = DOMAIN beam \cup {v} /\ \A u \in DOMAIN beam : beam'[u] = beam[u]
    BY <1>7 DEF Extended
  <2>. QED
    BY <1>1, <1>2, <2>1, <2>2 DEF LiveBeams
<1>. QED
  BY <1>2, <1>10, <1>11, <1>13, <1>14, <1>15 DEF JInv

\* Every step keeps the invariant, one case per action.
LEMMA KeepsJInv == JInv /\ [Next]_vars => JInv'
BY StutterKeeps, BootstrapKeeps, StartBoundaryKeeps, ScoreNodeKeeps, EndBoundaryKeeps, StartPathKeeps,
   WalkBackKeeps, EndPathKeeps DEF Next

\* It holds in every reachable state.
LEMMA JInvariance == Spec => []JInv
BY InitJInv, KeepsJInv, PTL DEF Spec

\* Whatever the beams and the cutoff drop, a node that a chain of nodes leads to
\* keeps a partial path, and no other has one.
THEOREM BeamsLive == Spec => []LiveBeams
<1>1. JInv => LiveBeams
  BY DEF JInv
<1>. QED
  BY <1>1, JInvariance, PTL

-----------------------------------------------------------------------------
(* What fillIn found *)

\* Only EOS starts at the end of the sentence.
LEMMA ChainsIntoEos ==
  ASSUME NEW l, IsLattice(l)
  PROVE  ChainsOf(l) = ChainsInto(l, EosOf(l)) /\ EosOf(l) \in NodesOf(l) /\ EosOf(l) # Bos0
<1>1. l.n \in Nat /\ EosOf(l)[1] = l.n + 2 /\ EosOf(l) \in NodesOf(l)
  BY DEF IsLattice, EosOf, NodesOf
<1>2. EosOf(l) # Bos0
  BY <1>1 DEF Bos0
<1>3. ASSUME NEW v \in NodesOf(l), v[1] = l.n + 2 PROVE v = EosOf(l)
  <2>1. v # Bos0 /\ v # Bos1
    BY <1>1, <1>3 DEF Bos0, Bos1
  <2>2. v \notin WordsOf(l)
    <3>. SUFFICES ASSUME v \in WordsOf(l) PROVE FALSE
      OBVIOUS
    <3>1. PICK b \in 2 .. l.n + 1 : \E i \in DOMAIN l.nodes[b] : v = <<b, i>>
      BY DEF WordsOf, IsLattice
    <3>2. v[1] = b
      BY <3>1
    <3>. QED
      BY <1>1, <1>3, <3>2
  <2>. QED
    BY <1>3, <2>1, <2>2 DEF NodesOf
<1>4. ASSUME NEW c \in ChainsTo(l, l.n + 2) PROVE c[Len(c)] = EosOf(l)
  <2>1. l.n + 2 \in 0 .. l.n + 2
    BY <1>1
  <2>2. IsChain(l, c, l.n + 2)
    BY <1>1, <1>4, <2>1, ChainShape
  <2>. QED
    BY <1>3, <2>2 DEF IsChain, RowOf
<1>. QED
  BY <1>1, <1>2, <1>4 DEF ChainsOf, ChainsInto

\* The empty sentence has one chain.
LEMMA ChainsOfNothing ==
  ASSUME NEW l, IsLattice(l), l.n = 0
  PROVE  \E c \in ChainsOf(l) : Inner(c) = <<>> /\ \A d \in ChainsOf(l) : d = c
<1>. DEFINE eos == EosOf(l)
            c == Append(<<Bos0, Bos1>>, eos)
<1>1. /\ ChainsOf(l) = ChainsInto(l, eos) /\ eos \in NodesOf(l) /\ eos # Bos0 /\ eos[1] = 2
      /\ Bos1 \in NodesOf(l) /\ EndIn(l, Bos1) = 2 /\ EndIn(l, eos) = 3
  <2>1. eos[1] = 2 /\ Bos1[1] = 1 /\ Bos1 \in NodesOf(l)
    BY DEF EosOf, Bos1, NodesOf
  <2>2. EndIn(l, Bos1) = 2 /\ EndIn(l, eos) = 3
    BY <2>1 DEF EndIn
  <2>. QED
    BY <2>1, <2>2, ChainsIntoEos
<1>. HIDE DEF eos
<1>2. ASSUME NEW u \in NodesOf(l), EndIn(l, u) = 2 PROVE u = Bos1
  <2>1. u # Bos0
    <3>1. EndIn(l, Bos0) = 1
      BY DEF EndIn, Bos0
    <3>. QED
      BY <1>2, <3>1
  <2>2. u[1] < 2 /\ u[1] \in Int
    BY <1>2, NodeShape
  <2>. QED
    BY <2>1, <2>2, NodeByStart
<1>3. <<Bos0, Bos1>> \in ChainsInto(l, Bos1) /\ \A d \in ChainsInto(l, Bos1) : d = <<Bos0, Bos1>>
  BY FirstChains
<1>4. c \in ChainsInto(l, eos)
  BY <1>1, <1>3, GrownChain
<1>5. ASSUME NEW d \in ChainsInto(l, eos) PROVE d = c
  <2>1. PICK u \in NodesOf(l) : \E e \in ChainsInto(l, u) : EndIn(l, u) = eos[1] /\ d = Append(e, eos)
    BY <1>1, <1>5, ChainGrows
  <2>2. u = Bos1
    BY <1>1, <1>2, <2>1
  <2>. QED
    BY <1>3, <2>1, <2>2
<1>6. Inner(c) = <<>>
  <2>1. <<Bos0, Bos1>> \in Seq(NodesOf(l)) /\ eos \in NodesOf(l)
    BY <1>1 DEF NodesOf
  <2>2. c \in Seq(NodesOf(l)) /\ Len(c) = 3
    BY <2>1
  <2>3. SubSeq(c, 3, 2) = <<>>
    BY <2>2
  <2>. QED
    BY <2>2, <2>3 DEF Inner
<1>. QED
  BY <1>1, <1>4, <1>5, <1>6

\* The words of a chain, taken from the end.
IsPathOf(e, c) ==
  /\ Len(c) = Len(e) + 3
  /\ \A i \in 1 .. Len(e) : e[i][1] = c[Len(c) - i]
Turned(e) == [i \in DOMAIN e |-> e[Len(e) + 1 - i][1]]

LEMMA PathOfChain ==
  ASSUME NEW S, NEW c \in Seq(S), NEW T, NEW e \in Seq(T), IsPathOf(e, c), NEW w, w = Turned(e)
  PROVE  c = <<c[1], c[2]>> \o w \o <<c[Len(c)]>> /\ Inner(c) = w
<1>. DEFINE k == Len(e)
<1>1. k \in Nat /\ DOMAIN e = 1 .. k /\ Len(c) = k + 3 /\ DOMAIN c = 1 .. k + 3
  BY DEF IsPathOf
<1>2. \A i \in 1 .. k : k + 1 - i \in 1 .. k /\ Len(c) - (k + 1 - i) = i + 2 /\ i + 2 \in 1 .. k + 3
  BY <1>1
<1>3. \A i \in 1 .. k : w[i] = c[i + 2] /\ c[i + 2] \in S
  <2>1. \A i \in 1 .. k : w[i] = e[k + 1 - i][1] /\ e[i][1] = c[Len(c) - i]
    BY <1>1 DEF IsPathOf, Turned
  <2>2. \A i \in 1 .. k : c[i + 2] \in S
    BY <1>1, <1>2
  <2>3. ASSUME NEW i \in 1 .. k PROVE w[i] = c[i + 2]
    <3>1. PICK j \in 1 .. k : j = k + 1 - i /\ Len(c) - j = i + 2
      BY <1>2
    <3>2. w[i] = e[j][1] /\ e[j][1] = c[Len(c) - j]
      BY <2>1, <3>1
    <3>. QED
      BY <3>1, <3>2
  <2>. QED
    BY <2>2, <2>3
<1>4. w \in Seq(S) /\ Len(w) = k
  <2>1. w = [i \in 1 .. k |-> w[i]]
    BY <1>1 DEF Turned
  <2>2. w \in [1 .. k -> S]
    BY <1>3, <2>1
  <2>. QED
    BY <1>1, <2>2
<1>. HIDE DEF k
<1>5. Inner(c) = w
  <2>1. /\ Len(SubSeq(c, 3, k + 2)) = k /\ SubSeq(c, 3, k + 2) \in Seq(S)
        /\ \A i \in 1 .. k : SubSeq(c, 3, k + 2)[i] = c[i + 2]
    <3>1. \A i \in 3 .. k + 2 : c[i] \in S
      BY <1>1
    <3>2. SubSeq(c, 3, k + 2) = [i \in 1 .. k |-> c[i + 2]]
      BY <1>1
    <3>. QED
      BY <1>1, <1>3, <3>2
  <2>2. Inner(c) = SubSeq(c, 3, k + 2)
    BY <1>1 DEF Inner
  <2>. QED
    BY <1>3, <1>4, <2>1, <2>2, SeqEqual
<1>6. c = <<c[1], c[2]>> \o w \o <<c[Len(c)]>>
  <2>. DEFINE d == <<c[1], c[2]>> \o w \o <<c[Len(c)]>>
  <2>1. PICK x \in S, y \in S, z \in S : x = c[1] /\ y = c[2] /\ z = c[Len(c)]
    BY <1>1
  <2>2. d = <<x, y>> \o w \o <<z>>
    BY <2>1
  <2>3. <<x, y>> \o w \in Seq(S) /\ Len(<<x, y>> \o w) = k + 2
        /\ (<<x, y>> \o w)[1] = x /\ (<<x, y>> \o w)[2] = y
        /\ \A i \in 1 .. k : (<<x, y>> \o w)[i + 2] = w[i]
    BY <1>1, <1>4
  <2>4. PICK q \in Seq(S) : q = <<x, y>> \o w
    BY <2>3
  <2>5. /\ q \o <<z>> \in Seq(S) /\ Len(q \o <<z>>) = k + 3
        /\ \A i \in 1 .. k + 2 : (q \o <<z>>)[i] = q[i]
        /\ (q \o <<z>>)[k + 3] = z
    BY <1>1, <2>3, <2>4
  <2>6. ASSUME NEW i \in 1 .. k + 3 PROVE (q \o <<z>>)[i] = c[i]
    <3>1. CASE i = 1
      <4>1. (q \o <<z>>)[1] = q[1]
        BY <1>1, <2>5
      <4>. QED
        BY <2>1, <2>3, <2>4, <3>1, <4>1
    <3>2. CASE i = 2
      <4>1. (q \o <<z>>)[2] = q[2]
        BY <1>1, <2>5
      <4>. QED
        BY <2>1, <2>3, <2>4, <3>2, <4>1
    <3>3. CASE i \in 3 .. k + 2
      <4>1. PICK j \in 1 .. k : i = j + 2
        BY <1>1, <3>3
      <4>2. (q \o <<z>>)[j + 2] = q[j + 2]
        BY <2>5, <3>3, <4>1
      <4>3. q[j + 2] = w[j]
        <5>1. \A p \in 1 .. k : (<<c[1], c[2]>> \o w)[p + 2] = w[p]
          BY <2>1, <2>3
        <5>2. q = <<c[1], c[2]>> \o w
          BY <2>1, <2>4
        <5>. QED
          BY <5>1, <5>2
      <4>4. w[j] = c[j + 2]
        BY <1>3
      <4>. QED
        BY <4>1, <4>2, <4>3, <4>4
    <3>4. CASE i = k + 3
      BY <1>1, <2>1, <2>5, <3>4
    <3>5. i = 1 \/ i = 2 \/ i \in 3 .. k + 2 \/ i = k + 3
      BY <1>1
    <3>. QED
      BY <3>1, <3>2, <3>3, <3>4, <3>5
  <2>. HIDE DEF d
  <2>7. c = q \o <<z>>
    BY <1>1, <2>5, <2>6, SeqEqual
  <2>8. c = d
    BY <2>2, <2>4, <2>7
  <2>. QED
    BY <2>8 DEF d
<1>. QED
  BY <1>5, <1>6

\* The chain fillIn has followed when it arrives at the beginning of the
\* sentence: the words it collected, between the two BOS and EOS.
Found(c) ==
  /\ c \in ChainsOf(lat) /\ Words = Inner(c) /\ c = <<Bos0, Bos1>> \o Words \o <<Eos>>
  /\ beam[Eos][1].score = Total(weight, c)
  /\ Unpruned => \A d \in ChainsOf(lat) : Total(weight, d) <= Total(weight, c)

LEMMA PathIsFound ==
  ASSUME JInv, phase \in {"walk", "done"}, lat.n > 0, top[1][1] = 2
  PROVE  \E c : Found(c)
<1>0. IInv /\ IsLattice(lat) /\ lat.n \in Nat /\ Eos \in Node /\ Eos # Bos0
  BY NodesAndChains DEF JInv
<1>1. PICK F : Names(F) /\ (Unpruned => AllNamed(F)) /\ Retraced(F)
  BY DEF JInv, NamedInv
<1>2. PICK c : c = F[<<Eos, 1>>]
  OBVIOUS
<1>3. /\ IsElem(<<Eos, 1>>) /\ IsElem(top) /\ Len(c) = Len(F[top]) + Len(elems)
      /\ \A i \in 1 .. Len(F[top]) : c[i] = F[top][i]
      /\ \A i \in 1 .. Len(elems) : elems[i][1] = c[Len(c) - i]
  BY <1>1, <1>2 DEF Retraced
<1>4. Eos \in DOMAIN beam /\ 1 \in DOMAIN beam[Eos]
  BY <1>3 DEF IsElem
<1>5. c \in ChainsInto(lat, Eos) /\ beam[Eos][1].score = Total(weight, c)
  BY <1>0, <1>1, <1>2, <1>4 DEF Names
<1>6. c \in Seq(Node) /\ Len(c) \in Nat \ {0} /\ c[Len(c)] = Eos
  BY <1>0, <1>5, IntoIsChain DEF Node
<1>7. Len(F[top]) = 3 /\ F[top][1] = Bos0 /\ F[top][2] = Bos1
  <2>1. PICK v \in DOMAIN beam : \E k \in DOMAIN beam[v] : v = top[1] /\ k = top[2]
    BY <1>3 DEF IsElem
  <2>2. PICK k \in DOMAIN beam[v] : v = top[1] /\ k = top[2]
    BY <2>1
  <2>3. top = <<v, k>>
    BY <1>0, <2>2 DEF IInv, TypeOK, Addr, NullPtr
  <2>4. v # Bos0 /\ v[1] = 2
    BY <2>2 DEF Bos0
  <2>. DEFINE e == beam[v][k].prev
  <2>5. EndOf(e[1]) = 2
    BY <1>0, <2>4 DEF IInv, BackPointers
  <2>6. /\ e[1] \in Node /\ F[e] \in ChainsInto(lat, e[1])
        /\ Len(F[<<v, k>>]) = Len(F[e]) + 1
        /\ \A i \in 1 .. Len(F[e]) : F[<<v, k>>][i] = F[e][i]
    <3>1. IInv /\ Names(F)
      BY <1>0, <1>1
    <3>2. PointsBack(F, v, k, e)
      BY <2>4, <3>1, NamedPointer
    <3>. QED
      BY <3>2 DEF PointsBack
  <2>. HIDE DEF e
  <2>7. e[1] = Bos1
    <3>1. e[1] # Bos0
      BY <1>0, <2>5, NodesAndChains
    <3>2. e[1][1] # 0
      BY <1>0, <2>6, <3>1, NodeByStart DEF Node
    <3>. QED
      BY <1>0, <2>5, <2>6, <3>2, OnlyBosEnds
  <2>8. F[e] = <<Bos0, Bos1>>
    BY <1>0, <2>6, <2>7, FirstChains
  <2>9. Len(<<Bos0, Bos1>>) = 2 /\ <<Bos0, Bos1>>[1] = Bos0 /\ <<Bos0, Bos1>>[2] = Bos1
    OBVIOUS
  <2>10. 1 \in 1 .. 2 /\ 2 \in 1 .. 2
    OBVIOUS
  <2>. QED
    BY <2>3, <2>6, <2>8, <2>9, <2>10
<1>8. c[1] = Bos0 /\ c[2] = Bos1 /\ Len(c) = Len(elems) + 3
  <2>1. 1 \in 1 .. 3 /\ 2 \in 1 .. 3
    OBVIOUS
  <2>2. Len(elems) \in Nat
    BY <1>0 DEF IInv, TypeOK
  <2>. QED
    BY <1>3, <1>7, <2>1, <2>2
<1>9. c = <<Bos0, Bos1>> \o Words \o <<Eos>> /\ Words = Inner(c)
  <2>1. PICK S, T : c \in Seq(S) /\ elems \in Seq(T)
    BY <1>0, <1>6 DEF IInv, TypeOK
  <2>2. c = <<c[1], c[2]>> \o Words \o <<c[Len(c)]>> /\ Inner(c) = Words
    <3>1. IsPathOf(elems, c)
      BY <1>3, <1>8 DEF IsPathOf
    <3>2. Words = Turned(elems)
      BY DEF Words, Turned
    <3>. QED
      BY <2>1, <3>1, <3>2, PathOfChain
  <2>. QED
    BY <1>6, <1>8, <2>2
<1>10. ChainsOf(lat) = ChainsInto(lat, Eos)
  BY <1>0, ChainsIntoEos DEF Eos
<1>11. ASSUME Unpruned, NEW d \in ChainsOf(lat) PROVE Total(weight, d) <= Total(weight, c)
  <2>1. PICK k \in DOMAIN beam[Eos] : F[<<Eos, k>>] = d
    BY <1>1, <1>4, <1>10, <1>11 DEF AllNamed
  <2>2. beam[Eos][k].score = Total(weight, d)
    BY <1>0, <1>1, <1>4, <2>1 DEF Names
  <2>3. beam[Eos][k].score <= beam[Eos][1].score
    <3>1. k \in Nat \ {0} /\ beam[Eos][k].score \in Int
      BY <1>0, <1>4, ElemShape
    <3>2. CASE k = 1
      BY <3>1, <3>2
    <3>3. CASE 1 < k
      BY <1>4, <3>3 DEF JInv, SortedBeams
    <3>. QED
      BY <3>1, <3>2, <3>3
  <2>. QED
    BY <1>5, <2>2, <2>3
<1>. QED
  BY <1>5, <1>9, <1>10, <1>11 DEF Found

\* The score of EOS's best element, which the analyzer reports, is the total score
\* of the words fillIn returns.
THEOREM PathScored == Spec => []ScoreIsOfPath
<1>1. JInv => ScoreIsOfPath
  <2>. SUFFICES ASSUME JInv, phase = "done", lat.n > 0
                PROVE  beam[Eos][1].score = Total(weight, <<Bos0, Bos1>> \o Words \o <<Eos>>)
    BY DEF ScoreIsOfPath
  <2>1. top[1][1] = 2
    BY DEF JInv, NamedInv, Retraced
  <2>2. PICK c : Found(c)
    BY <2>1, PathIsFound
  <2>. QED
    BY <2>2 DEF Found
<1>. QED
  BY <1>1, JInvariance, PTL
-----------------------------------------------------------------------------
(* The search implements Segmentation *)

\* The empty sentence is answered with no word, which is all there is.
LEMMA AnswersNothing ==
  ASSUME JInv, phase \notin {"walk", "done"}, lat.n = 0
  PROVE  \E c \in ChainsOf(lat) :
           /\ Words = Inner(c)
           /\ Unpruned => \A d \in ChainsOf(lat) : Total(weight, d) <= Total(weight, c)
<1>1. IInv /\ IsLattice(lat)
  BY NodesAndChains DEF JInv
<1>2. PICK c \in ChainsOf(lat) : Inner(c) = <<>> /\ \A d \in ChainsOf(lat) : d = c
  BY <1>1, ChainsOfNothing
<1>3. Words = <<>>
  BY DEF JInv, Fresh, Words
<1>4. Total(weight, c) \in Int
  <2>1. c \in ChainsInto(lat, EosOf(lat)) /\ EosOf(lat) \in NodesOf(lat)
    BY <1>1, <1>2, ChainsIntoEos
  <2>2. weight \in [TriplesOf(lat) -> Scores] /\ Scores \subseteq Int
    BY <1>1, ScoresAssumption DEF IInv, TypeOK
  <2>3. SignBit - 1 \in Nat /\ \A x \in Scores : (lat.n + 1) * x \in -(SignBit - 1) .. SignBit - 1
    BY <1>1, ScoresAssumption DEF IInv, TypeOK
  <2>4. \A B \in Nat : (\A x \in Scores : (lat.n + 1) * x \in -B .. B) => Total(weight, c) \in -B .. B
    BY <1>1, <2>1, <2>2, ChainsIntoEos, ChainTotalWithin
  <2>5. Total(weight, c) \in -(SignBit - 1) .. SignBit - 1
    BY <2>3, <2>4
  <2>. QED
    BY <2>3, <2>5
<1>. QED
  BY <1>2, <1>3, <1>4

\* A state without an answer.
Silent == phase # "done"

\* The operators of Lattice mean the same in Segmentation.
LEMMA SameOperators ==
  ASSUME NEW l, NEW c, NEW w
  PROVE  /\ Promise!TriplesOf(l) = TriplesOf(l) /\ Promise!ChainsOf(l) = ChainsOf(l)
         /\ Promise!Inner(c) = Inner(c) /\ Promise!Total(w, c) = Total(w, c)
<1>1. Promise!TriplesOf(l) = TriplesOf(l)
  BY DEF Promise!TriplesOf, Promise!NodesOf, Promise!WordsOf, Promise!EosOf, Promise!Bos0, Promise!Bos1,
         Promise!EndIn, TriplesOf, NodesOf, WordsOf, EosOf, Bos0, Bos1, EndIn
<1>2. Promise!ChainsOf(l) = ChainsOf(l)
  BY DEF Promise!ChainsOf, Promise!ChainsTo, Promise!RowOf, Promise!NodesOf, Promise!WordsOf, Promise!EosOf,
         Promise!Bos0, Promise!Bos1, Promise!EndIn,
         ChainsOf, ChainsTo, RowOf, NodesOf, WordsOf, EosOf, Bos0, Bos1, EndIn
<1>3. Promise!Inner(c) = Inner(c) /\ Promise!Total(w, c) = Total(w, c)
  BY DEF Promise!Inner, Promise!Total, Inner, Total
<1>. QED
  BY <1>1, <1>2, <1>3

\* Between two such states nothing the caller sees changes.
LEMMA SilentSteps ==
  ASSUME Silent, Silent', UNCHANGED <<cfg, lat, weight>>
  PROVE  UNCHANGED Promise!vars
<1>1. Unpruned' = Unpruned
  BY DEF Unpruned, BeamSize, GlobalBeam, RightCheck, RightBeam, Row
<1>. QED
  BY <1>1 DEF Silent, Promise!vars

\* The search starts without an answer.
LEMMA PromiseInit == Init => Promise!Init
<1>. SUFFICES ASSUME Init PROVE Promise!Init
  OBVIOUS
<1>1. phase # "done" /\ lat \in Lattices /\ weight \in [TriplesOf(lat) -> Scores]
  BY DEF Init
<1>2. Unpruned \in BOOLEAN
  BY DEF Unpruned
<1>. QED
  BY <1>1, <1>2, SameOperators DEF Promise!Init

\* A step to "done" answers with the words of a chain, a best one if nothing had
\* to be pruned.
LEMMA AnswerStep ==
  ASSUME Silent, phase' = "done", UNCHANGED <<cfg, lat, weight, elems>>,
         NEW c \in ChainsOf(lat), Words = Inner(c),
         Unpruned => \A d \in ChainsOf(lat) : Total(weight, d) <= Total(weight, c)
  PROVE  Promise!Answer
<1>1. Unpruned' = Unpruned
  BY DEF Unpruned, BeamSize, GlobalBeam, RightCheck, RightBeam, Row
<1>2. Words' = Words
  BY DEF Words
<1>. QED
  BY <1>1, <1>2, SameOperators DEF Silent, Promise!Answer

\* Only the steps that end the search answer.
LEMMA PromiseStep == JInv /\ [Next]_vars => [Promise!Answer]_(Promise!vars)
<1>. SUFFICES ASSUME JInv, [Next]_vars PROVE Promise!Answer \/ UNCHANGED Promise!vars
  OBVIOUS
<1>1. CASE Bootstrap \/ StartBoundary \/ (\E v \in Node : ScoreNode(v)) \/ EndBoundary \/ WalkBack
  <2>1. Silent /\ Silent' /\ UNCHANGED <<cfg, lat, weight>>
    BY <1>1 DEF Bootstrap, StartBoundary, ScoreNode, EndBoundary, WalkBack, Silent
  <2>. QED
    BY <2>1, SilentSteps
<1>2. CASE StartPath
  <2>1. phase = "path" /\ lat.n \in Nat /\ UNCHANGED <<cfg, lat, weight>>
    BY <1>2, NodesAndChains DEF StartPath, JInv
  <2>2. CASE lat.n = 0
    <3>1. phase' = "done" /\ elems' = elems
      BY <1>2, <2>2 DEF StartPath, walking
    <3>2. PICK c \in ChainsOf(lat) :
            /\ Words = Inner(c)
            /\ Unpruned => \A d \in ChainsOf(lat) : Total(weight, d) <= Total(weight, c)
      BY <2>1, <2>2, AnswersNothing
    <3>3. Silent
      BY <2>1 DEF Silent
    <3>. QED
      BY <2>1, <3>1, <3>2, <3>3, AnswerStep
  <2>3. CASE lat.n > 0
    <3>1. Silent /\ Silent'
      BY <1>2, <2>1, <2>3 DEF StartPath, Silent
    <3>. QED
      BY <2>1, <3>1, SilentSteps
  <2>. QED
    BY <2>1, <2>2, <2>3
<1>3. CASE EndPath
  <2>1. /\ phase = "walk" /\ phase' = "done" /\ top[1][1] <= 2
        /\ UNCHANGED <<cfg, lat, weight, elems>>
    BY <1>3 DEF EndPath, walking
  <2>2. IInv /\ lat.n > 0 /\ IsElem(top) /\ top[1][1] >= 2
    BY <2>1 DEF JInv, IInv, Walking
  <2>3. top[1][1] = 2
    <3>1. top[1] \in Node
      BY <2>2 DEF IInv, TypeOK, IsElem
    <3>2. top[1][1] \in Int
      BY <2>2, <3>1, NodesAndChains
    <3>. QED
      BY <2>1, <2>2, <3>2
  <2>4. PICK c : Found(c)
    BY <2>1, <2>2, <2>3, PathIsFound
  <2>5. Silent
    BY <2>1 DEF Silent
  <2>. QED
    BY <2>1, <2>4, <2>5, AnswerStep DEF Found
<1>4. CASE UNCHANGED vars
  <2>1. UNCHANGED <<cfg, lat, weight, phase, elems>>
    BY <1>4 DEF vars
  <2>2. Unpruned' = Unpruned
    BY <2>1 DEF Unpruned, BeamSize, GlobalBeam, RightCheck, RightBeam, Row
  <2>3. Words' = Words
    BY <2>1 DEF Words
  <2>. QED
    BY <2>1, <2>2, <2>3 DEF Promise!vars
<1>. QED
  BY <1>1, <1>2, <1>3, <1>4 DEF Next

\* The search implements Segmentation for every lattice and every beam
\* configuration: if it answers, then once, with the words of a chain from BOS
\* to EOS, and with those of a best chain whenever nothing has to be pruned.
THEOREM PromiseKept == Spec => KeepsPromise
<1>1. Init => Promise!Init
  BY PromiseInit
<1>2. JInv /\ [Next]_vars => [Promise!Answer]_(Promise!vars)
  BY PromiseStep
<1>. QED
  BY <1>1, <1>2, JInvariance, PTL DEF Spec, KeepsPromise, Promise!Spec
=============================================================================
