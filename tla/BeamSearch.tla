----------------------------- MODULE BeamSearch ------------------------------
(***************************************************************************)
(* ScoreProcessor and the score loops of AnalyzerImpl: the boundaries of a *)
(* lattice are scored from left to right; every node keeps a beam of its   *)
(* best partial paths, each element holding a pointer to the element of    *)
(* another node's beam that it extends.  AnalysisPath.fillIn then follows  *)
(* these pointers from EOS back to the beginning of the sentence.          *)
(*                                                                         *)
(* Scores are integers, and a local score is given per connection of three *)
(* nodes: the n-gram features read nothing else.  An element of a beam is  *)
(* addressed by its node and its index.                                    *)
(***************************************************************************)
EXTENDS Lattice

CONSTANTS
  Lattices,    \* the lattices to analyse
  Scores,      \* the local scores a connection may have
  Configs,     \* the beam sizes an analyzer may be made with
  SignBit      \* the sign bit of a score; 2^31 in the code

ASSUME LatticesAssumption ==
  \A l \in Lattices : IsLattice(l)
\* AnalyzerImpl.initScorers refuses other values.
ASSUME ConfigsAssumption ==
  \A c \in Configs :
    /\ c.beamSize \in Nat \ {0} /\ c.globalBeam \in Int
    /\ c.rightCheck \in Nat /\ c.rightBeam \in Nat
    /\ c.rightCheck > 0 => c.rightBeam > 0
\* A float has its magnitude below its sign bit, the score of a chain with as
\* many nodes as a lattice allows included.
ASSUME ScoresAssumption ==
  /\ Scores \subseteq Int /\ SignBit \in Nat \ {0}
  /\ \A l \in Lattices, s \in Scores : (l.n + 1) * s \in -(SignBit - 1) .. SignBit - 1

VARIABLES
  cfg,     \* the beam sizes of this analyzer
  lat,     \* the lattice, built before the scoring starts
  weight,  \* the local score of a connection <<t2, t1, t0>>
  phase,   \* "bootstrap", "boundary", "nodes", "path", "done", "crashed"
  bnd,     \* the boundary being scored
  beam,    \* node -> its beam, for the nodes scored so far
  gbeam,   \* the global beam of bnd: addresses, best first
  todo,    \* the nodes of bnd that have no beam yet
  kept,    \* the nodes of bnd scored with the whole global beam
  top,     \* fillIn: address of the element topPtr points to
  myBeam,  \* fillIn: the index it believes topPtr has in its beam
  elems    \* AnalysisPath.elems_: addresses from the last word to the first

vars == <<cfg, lat, weight, phase, bnd, beam, gbeam, todo, kept, top, myBeam, elems>>
scoring == <<bnd, beam, gbeam, todo, kept>>
walking == <<top, myBeam, elems>>

BeamSize == cfg.beamSize      \* LatticeConfig.beamSize: elements a node keeps
GlobalBeam == cfg.globalBeam  \* globalBeamSize; not positive: full beam search
RightCheck == cfg.rightCheck  \* rightGbeamCheck: elements every node is scored with
RightBeam == cfg.rightBeam    \* rightGbeamSize: nodes scored with the whole global beam

Node == NodesOf(lat)
Eos == EosOf(lat)
EndOf(v) == EndIn(lat, v)
Row(b) == RowOf(lat, b)
Ends(b) == {v \in DOMAIN beam : EndOf(v) = b}

\* The address no element has: the previous pointer of the first BOS.
NullPtr == <<<<0, 0>>, 0>>
Elem(a) == beam[a[1]][a[2]]
Element(prev, score) == [prev |-> prev, score |-> score]

\* The non-fake elements of the beams of all nodes that end at boundary b.
Candidates(b) == UNION {{<<v, k>> : k \in DOMAIN beam[v]} : v \in Ends(b)}

LocalScore(a, t0) == weight[<<Elem(a).prev[1], a[1], t0>>]
NewScoreLocalOnly(a, t0) == LocalScore(a, t0)
NewScore(a, t0) == Elem(a).score + LocalScore(a, t0)

\* The upper half of BeamCandidate's packed word.  A float has its magnitude
\* below a sign bit, so floats compare like integers only after the bits of
\* the negative ones are inverted and the sign of the others is set.
Bits(score) == IF score < 0 THEN SignBit - score ELSE score
PackedSignOnly(score) ==   \* mutant: the sign is flipped, the magnitude kept
  IF Bits(score) >= SignBit THEN Bits(score) - SignBit ELSE Bits(score) + SignBit
Packed(score) ==
  IF Bits(score) >= SignBit THEN 2 * SignBit - 1 - Bits(score) ELSE Bits(score) + SignBit

\* The lower half: where scores agree the later left node and then the larger
\* beam index are better.
LaterThan(a, c) ==
  \/ a[1][1] > c[1][1]
  \/ a[1][1] = c[1][1] /\ a[1][2] > c[1][2]
  \/ a[1] = c[1] /\ a[2] > c[2]

\* The sequences of the best at most k members of S, best first; members of
\* which neither beats the other may come in any order.
Best(S, k, Beats(_, _)) ==
  {s \in UNION {[1 .. m -> S] : m \in 0 .. k} :
     /\ \A i, j \in DOMAIN s : i < j => s[i] # s[j] /\ ~ Beats(s[j], s[i])
     /\ LET left == S \ {s[i] : i \in DOMAIN s}
        IN /\ left # {} => Len(s) = k
           /\ \A c \in left, i \in DOMAIN s : ~ Beats(c, s[i])}

Init ==
  /\ cfg \in Configs
  /\ lat \in Lattices
  /\ weight \in [TriplesOf(lat) -> Scores]
  /\ phase = "bootstrap"
  /\ bnd = 2
  /\ beam = [v \in {} |-> <<>>]
  /\ gbeam = <<>>
  /\ todo = {}
  /\ kept = {}
  /\ top = NullPtr
  /\ myBeam = 0
  /\ elems = <<>>

\* AnalyzerImpl.bootstrapAnalysis: each BOS gets a beam of one element.  A
\* lattice of two BOS and EOS, the empty sentence, is not scored.
Bootstrap ==
  /\ phase = "bootstrap"
  /\ beam' = [v \in {Bos0, Bos1} |->
                IF v = Bos0 THEN <<Element(NullPtr, 0)>>
                            ELSE <<Element(<<Bos0, 1>>, 0)>>]
  /\ phase' = IF lat.n = 0 THEN "path" ELSE "boundary"
  /\ UNCHANGED <<cfg, lat, weight, bnd, gbeam, todo, kept, walking>>

\* gbeamHead: the elements of the global beam every node is scored with, at
\* most as many as the boundary has nodes.
HeadOf(g, b) ==
  IF RightCheck = 0 THEN g
  ELSE [i \in {j \in DOMAIN g : j <= RightCheck /\ j <= Cardinality(Row(b))} |-> g[i]]

\* makeT0cutoffBeam: the nodes with the best sums of local scores over the
\* head; nth_element leaves open which of equal ones it takes.
CutoffScore(g, b, v) ==
  LET head == HeadOf(g, b)
      upTo[i \in 0 .. Len(head)] ==
        IF i = 0 THEN 0 ELSE upTo[i - 1] + LocalScore(head[i], v)
  IN upTo[Len(head)]
KeptNodes(g, b) ==
  IF RightCheck = 0 THEN {Row(b)}
  ELSE {K \in SUBSET Row(b) :
          /\ Cardinality(K) <= RightBeam
          /\ K # Row(b) =>
               /\ Cardinality(K) = RightBeam
               /\ \A v \in K, u \in Row(b) \ K : CutoffScore(g, b, u) <= CutoffScore(g, b, v)}

\* The head of the boundary loop.  With a global beam, makeGlobalBeam ranks
\* the elements that end at this boundary; a boundary where no node starts is
\* skipped.
Outranks(a, c) == \/ Packed(Elem(a).score) > Packed(Elem(c).score)
                  \/ Packed(Elem(a).score) = Packed(Elem(c).score) /\ LaterThan(a, c)
StartBoundary ==
  /\ phase = "boundary"
  /\ gbeam' \in IF GlobalBeam > 0 THEN Best(Candidates(bnd), GlobalBeam, Outranks)
                                  ELSE {<<>>}
  /\ kept' \in IF GlobalBeam > 0 THEN KeptNodes(gbeam', bnd) ELSE {Row(bnd)}
  /\ todo' = Row(bnd)
  /\ phase' = "nodes"
  /\ UNCHANGED <<cfg, lat, weight, bnd, beam, walking>>

\* makeBeams: the beam of a node from all elements that end where it starts,
\* in the order of BeamCandidate.
FullBeams(v) ==
  LET word(a) == Packed(NewScore(a, v))
      Beats(a, c) == word(a) > word(c) \/ (word(a) = word(c) /\ LaterThan(a, c))
  IN Best(Candidates(bnd), BeamSize, Beats)

\* makeT0Beam: the beam of a node from the global beam, or from its head if
\* the cutoff dropped the node; equal scores come in any order.
GlobalBeamsOfKeptOnly(v) ==
  LET Beats(a, c) == NewScore(a, v) > NewScore(c, v)
      from == IF v \in kept THEN gbeam ELSE <<>>
  IN Best({from[i] : i \in DOMAIN from}, BeamSize, Beats)
GlobalBeams(v) ==
  LET Beats(a, c) == NewScore(a, v) > NewScore(c, v)
      from == IF v \in kept THEN gbeam ELSE HeadOf(gbeam, bnd)
  IN Best({from[i] : i \in DOMAIN from}, BeamSize, Beats)

ScoreNode(v) ==
  /\ phase = "nodes"
  /\ v \in todo
  /\ v \in kept \/ todo \cap kept = {}
  /\ \E addrs \in IF GlobalBeam > 0 THEN GlobalBeams(v) ELSE FullBeams(v) :
       LET made == [i \in DOMAIN addrs |-> Element(addrs[i], NewScore(addrs[i], v))]
       IN beam' = [u \in DOMAIN beam \cup {v} |-> IF u = v THEN made ELSE beam[u]]
  /\ todo' = todo \ {v}
  /\ UNCHANGED <<cfg, lat, weight, phase, bnd, gbeam, kept, walking>>

EndBoundaryTooLate ==
  /\ phase = "nodes"
  /\ todo = {}
  /\ IF bnd = lat.n + 3
     THEN phase' = "path" /\ bnd' = bnd
     ELSE phase' = "boundary" /\ bnd' = bnd + 1
  /\ UNCHANGED <<cfg, lat, weight, beam, gbeam, todo, kept, walking>>
EndBoundaryStuck ==
  /\ phase = "nodes"
  /\ todo = {}
  /\ IF bnd = lat.n + 2
     THEN phase' = "path"
     ELSE phase' = "boundary"
  /\ UNCHANGED <<cfg, lat, weight, bnd, beam, gbeam, todo, kept, walking>>
EndBoundary ==
  /\ phase = "nodes"
  /\ todo = {}
  /\ IF bnd = lat.n + 2
     THEN phase' = "path" /\ bnd' = bnd
     ELSE phase' = "boundary" /\ bnd' = bnd + 1
  /\ UNCHANGED <<cfg, lat, weight, beam, gbeam, todo, kept, walking>>

\* AnalysisPath.fillIn before its loop.  A fake top element of EOS would send
\* it to a boundary the lattice does not have.
StartPath ==
  /\ phase = "path"
  /\ CASE lat.n = 0 -> phase' = "done" /\ UNCHANGED walking
       [] lat.n > 0 /\ beam[Eos] = <<>> -> phase' = "crashed" /\ UNCHANGED walking
       [] OTHER -> /\ phase' = "walk"
                   /\ top' = <<Eos, 1>>
                   /\ myBeam' = 1
                   /\ elems' = <<>>
  /\ UNCHANGED <<cfg, lat, weight, scoring>>

\* One turn of the loop: the index of topPtr in its own beam is not stored in
\* it, so fillIn carries it over from the element before.
WalkBackBestOnly ==
  /\ phase = "walk"
  /\ top[1][1] > 2
  /\ elems' = Append(elems, beam[top[1]][1].prev)
  /\ myBeam' = Elem(top).prev[2]
  /\ top' = Elem(top).prev
  /\ UNCHANGED <<cfg, lat, weight, phase, scoring>>
WalkBackSwapped ==
  /\ phase = "walk"
  /\ top[1][1] > 2
  /\ elems' = Append(elems, beam[top[1]][1].prev)
  /\ top' = Elem(top).prev
  /\ myBeam' = Elem(top').prev[2]
  /\ UNCHANGED <<cfg, lat, weight, phase, scoring>>
WalkBackFromEos ==
  /\ phase = "walk"
  /\ top[1][1] > 2
  /\ elems' = Append(elems, top)
  /\ myBeam' = Elem(top).prev[2]
  /\ top' = Elem(top).prev
  /\ UNCHANGED <<cfg, lat, weight, phase, scoring>>
WalkBack ==
  /\ phase = "walk"
  /\ top[1][1] > 2
  /\ elems' = Append(elems, beam[top[1]][myBeam].prev)
  /\ myBeam' = Elem(top).prev[2]
  /\ top' = Elem(top).prev
  /\ UNCHANGED <<cfg, lat, weight, phase, scoring>>

EndPath ==
  /\ phase = "walk"
  /\ top[1][1] <= 2
  /\ phase' = "done"
  /\ UNCHANGED <<cfg, lat, weight, scoring, walking>>

Next ==
  \/ Bootstrap
  \/ StartBoundary
  \/ \E v \in Node : ScoreNode(v)
  \/ EndBoundary
  \/ StartPath
  \/ WalkBack
  \/ EndPath

Spec == Init /\ [][Next]_vars
FairSpec == Spec /\ WF_vars(Next)
-----------------------------------------------------------------------------
Addr == Node \X Nat
TypeOK ==
  /\ cfg \in Configs
  /\ lat \in Lattices
  /\ weight \in [TriplesOf(lat) -> Scores]
  /\ phase \in {"bootstrap", "boundary", "nodes", "path", "walk", "done", "crashed"}
  /\ bnd \in 2 .. lat.n + 2
  /\ DOMAIN beam \subseteq Node
  /\ \A v \in DOMAIN beam : beam[v] \in Seq([prev : Addr \cup {NullPtr}, score : Int])
  /\ gbeam \in Seq(Addr)
  /\ todo \subseteq Row(bnd)
  /\ kept \subseteq Node
  /\ top \in Addr \cup {NullPtr}
  /\ myBeam \in Nat
  /\ elems \in Seq(Addr \cup {NullPtr})

\* Every element extends an existing element of a node that ends where its own
\* node starts, and its score is that element's plus the local score of the
\* connection: the raw pointers between beams never dangle.
BackPointers ==
  \A v \in DOMAIN beam \ {Bos0} : \A k \in DOMAIN beam[v] :
    LET e == beam[v][k]
    IN /\ e.prev[1] \in DOMAIN beam
       /\ EndOf(e.prev[1]) = v[1]
       /\ e.prev[2] \in DOMAIN beam[e.prev[1]]
       /\ v # Bos1 =>
            LET from == beam[e.prev[1]][e.prev[2]]
            IN e.score = from.score + weight[<<from.prev[1], e.prev[1], v>>]

\* A scored node has a partial path exactly if a chain of nodes leads to it,
\* whatever the beams and the cutoff dropped.
LiveBeams ==
  \A v \in DOMAIN beam :
    beam[v] # <<>> <=> \E c \in ChainsTo(lat, v[1]) : c[Len(c)] = v

\* fillIn always knows which element of its beam topPtr is.
KnowsItsBeam == phase = "walk" => myBeam = top[2]

\* The words fillIn found, first to last.
Words == [i \in DOMAIN elems |-> elems[Len(elems) + 1 - i][1]]

\* The words fillIn returned cover the sentence: the first starts at its
\* beginning, every word ends where the next starts, the last ends at EOS.
CoversSentence ==
  phase = "done" /\ lat.n > 0 =>
    /\ elems # <<>>
    /\ elems[Len(elems)][1][1] = 2
    /\ EndOf(elems[1][1]) = lat.n + 2
    /\ \A i \in 1 .. Len(elems) - 1 : EndOf(elems[i + 1][1]) = elems[i][1][1]

\* The score of the best path at EOS is the score of the words fillIn returns.
ScoreIsOfPath ==
  phase = "done" /\ lat.n > 0 =>
    beam[Eos][1].score = Total(weight, <<Bos0, Bos1>> \o Words \o <<Eos>>)

\* Nothing of this lattice is pruned: no beam is smaller than the number of
\* chains it ranks, and the cutoff drops no node.
Unpruned ==
  \A b \in 2 .. lat.n + 2 :
    LET into(v) == Cardinality({c \in ChainsTo(lat, b) : c[Len(c)] = v})
    IN /\ \A v \in Row(b) : into(v) <= BeamSize /\ (GlobalBeam > 0 => into(v) <= GlobalBeam)
       /\ GlobalBeam > 0 /\ RightCheck > 0 => Cardinality(Row(b)) <= RightBeam

\* The search implements the promise of Segmentation, and finds a best
\* segmentation of every lattice of which nothing is pruned.
Promise == INSTANCE Segmentation WITH
  exact <- Unpruned,
  answer <- IF phase = "done" THEN Words ELSE <<>>,
  answered <- phase = "done"
KeepsPromise == Promise!Spec

\* The analysis of every sentence ends with a path.
EventuallyDone == <>(phase = "done")
=============================================================================
