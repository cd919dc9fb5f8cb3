---------------------------- MODULE NgramScores ------------------------------
(***************************************************************************)
(* How ScoreProcessor computes the local scores that BeamSearch takes as   *)
(* given: the n-gram features of a connection are hashed part by part into *)
(* buffers all connections share, and the weights the hashes select are    *)
(* summed one row later, while the next row is being hashed.               *)
(*                                                                         *)
(* Hasher.mix appends to a sequence, so different arguments give different *)
(* hashes; masking the hash to an index of a weight is left out.  A score  *)
(* is the bag of the indices whose weights it sums.  Which elements a beam *)
(* keeps is any choice here: BeamSearch says which.  The patterns of nodes *)
(* are those of NodeFeatures.                                              *)
(***************************************************************************)
EXTENDS Lattice, NodeFeatures, Bags

CONSTANTS
  Lattices,     \* the lattices to score
  Text,         \* the characters of the sentence, as many as a lattice needs
  Entry(_),     \* the entry of a node, and the numbers its creator gave it
  Given(_),
  Specs,        \* a sequence of specifications of features
  Impls,        \* "static": generated code; "dynamic": interpreted features
  BeamSize,     \* LatticeConfig.beamSize
  GlobalBeams,  \* values of AnalyzerConfig.globalBeamSize; 0: full beam
  RightChecks,  \* values of rightGbeamCheck
  RightBeam     \* rightGbeamSize

ASSUME SizesAssumption ==
  /\ BeamSize \in Nat \ {0} /\ GlobalBeams \subseteq Nat
  /\ RightChecks \subseteq Nat /\ RightBeam \in Nat \ {0}
  /\ Impls \subseteq {"static", "dynamic"}
ASSUME LatticesAssumption == \A l \in Lattices : IsLattice(l)
\* The parser of specifications refuses n-grams of any other order, and names
\* it does not know: those of features and of fields, which are features that
\* copy.
ASSUME SpecsAssumption ==
  \A s \in ToSet(Specs) :
    LET names == {f.name : f \in ToSet(s.features)}
    IN /\ s.ngrams \in Seq(Seq(Seq(names)))
       /\ \A i \in DOMAIN s.ngrams : Len(s.ngrams[i]) \in 1 .. 3
       /\ s.features \in Seq([name : names, kind : STRING, at : Int, shift : Nat,
                              yes : Seq(names), no : Seq(names)])
\* The loop over trigrams of the generated code reads as many indices as there
\* are trigrams from a buffer that only unigrams and bigrams have filled; the
\* specification of JumanDIC has fewer trigrams than either.
ASSUME FewTrigrams ==
  \A s \in ToSet(Specs) :
    LET count(k) == Cardinality({i \in DOMAIN s.ngrams : Len(s.ngrams[i]) = k})
    IN count(3) <= count(1) \/ count(3) <= count(2)

VARIABLES
  cfg,       \* lattice, specification, implementation and settings of this
             \* sentence, with the compiled model, the rows of patterns as the
             \* implementation computes them and what the patterns mean
  phase,     \* "t0", "t1", "t2", "gbeam", "prescores", "node", "done"
  bnd,       \* the boundary being scored
  patterns,  \* node -> its row of patternFeatureData
  buf,       \* featureBuffer_
  t0s, t1s,  \* NgramScoreHolder: bufferT0 and bufferT1
  scores,    \* <<node, address of a left element>> -> local score, at bnd
  beams,     \* node -> the elements it extends, best first
  left,      \* the next node of bnd's ends, and
  elem,      \* the next element of its beam
  gb,        \* the global beam, with the rows gathered for it
  pre,       \* t0prescores_
  order,     \* t0cutoffIdxBuffer_: the nodes left to score
  result,    \* gbeamScoreBuf_
  trouble    \* "unwritten index", "outside": what has been read or written

vars == <<cfg, phase, bnd, patterns, buf, t0s, t1s, scores, beams, left, elem,
          gb, pre, order, result, trouble>>

lat == cfg.lat
Static == cfg.impl = "static"
compiled == cfg.model
NgramsOf(c, k) ==
  LET those == InOrder({i \in DOMAIN c.ngrams : Len(c.ngrams[i]) = k})
  IN [j \in DOMAIN those |-> <<those[j]>> \o c.ngrams[those[j]]]
Unigrams == NgramsOf(compiled, 1)
Bigrams == NgramsOf(compiled, 2)
Trigrams == NgramsOf(compiled, 3)

\* Nodes of a boundary by position; ends in the order fillEnds adds them.
Row(b) == [i \in 1 .. Cardinality(RowOf(lat, b)) |-> <<b, i>>]
Ends(b) ==
  LET nodes == {v \in NodesOf(lat) : EndIn(lat, v) = b}
      before(v) == {u \in nodes : u[1] < v[1] \/ (u[1] = v[1] /\ u[2] < v[2])}
  IN [i \in 1 .. Cardinality(nodes) |-> CHOOSE v \in nodes : Cardinality(before(v)) = i - 1]
\* The address of a beam element is its node and its index there.
Candidates(b) == UNION {{<<v, k>> : k \in DOMAIN beams[v]} : v \in ToSet(Ends(b))}
Previous(a) == beams[a[1]][a[2]]

\* Values.  The entry of EOS repeats its number, and the patterns of BOS are
\* its number: EntryPtr.EOS and BOS are the least numbers of their width.
Unwritten == <<>>
ZeroIndex == <<0>>
Noise == <<-1>>
BosPattern == <<U32(-2 ^ (Width - 1))>>
EosRaw == -2 ^ (Width - 1) + 2
NodeOf(l, v) ==
  LET like == IF v = EosOf(l) THEN [entry |-> [i \in DOMAIN Entry(v) |-> EosRaw],
                                    given |-> [i \in DOMAIN Given(v) |-> 0], end |-> l.n]
              ELSE [entry |-> Entry(v), given |-> Given(v), end |-> EndIn(l, v) - 2]
  IN [entry |-> like.entry, given |-> like.given, start |-> v[1] - 2, end |-> like.end,
      chars |-> SubSeq(Text, 1, l.n)]

\* The patterns of every node, as the interpreter and as generated code have
\* them; and as the specification means them.
IsBos(v) == v \in {Bos0, Bos1}
Rows(l, c, impl) ==
  LET value(p, w) == IF impl = "static" THEN GeneratedPattern(c, p, w) ELSE InterpretedPattern(c, p, w)
  IN [v \in NodesOf(l) |->
        [p \in Patterns(c) |-> IF IsBos(v) THEN BosPattern ELSE value(p, NodeOf(l, v))]]
FullRow(v) == cfg.rows[v]
Meanings(l, s) ==
  [v \in NodesOf(l) |->
     [combo \in ToSet(Combos(s)) |-> IF IsBos(v) THEN BosPattern ELSE Meaning(s, combo, NodeOf(l, v))]]

\* What generateLoopBody stores of a row, and applyUniOnly behind it: a pattern
\* only unigrams use stays in a register unless all are to be stored.
Stores(p) == ~Static \/ ~UniOnly(compiled, p) \/ (cfg.storeAll /\ p >= UniOnlyFirst(compiled))
PatternRow(v) ==
  [p \in 1 .. NumFeaturePatterns(compiled, Static, cfg.storeAll) |->
     IF Stores(p) THEN FullRow(v)[p] ELSE Noise]
BehindRow ==
  \E p \in Patterns(compiled) :
    Stores(p) /\ p > NumFeaturePatterns(compiled, Static, cfg.storeAll)

\* The hashes: f is the index of a feature followed by its patterns.
UniIndex(f, r0) == <<3, f[1], "uni", r0[f[2]]>>
BiState(f, r0) == <<4, f[1], "bi", r0[f[2]]>>
TriState(f, r0) == <<5, f[1], "tri", r0[f[2]]>>
Mix1(f, state, r1) == Append(state, r1[f[3]])
Mix2(f, state, r2) == Append(state, r2[f[4]])

UniRow(r0) == [i \in DOMAIN Unigrams |-> UniIndex(Unigrams[i], r0)]
BiStep0(r0) == [i \in DOMAIN Bigrams |-> BiState(Bigrams[i], r0)]
BiStep1(s, r1) == [i \in DOMAIN Bigrams |-> Mix1(Bigrams[i], s[i], r1)]
TriStep0(r0) == [i \in DOMAIN Trigrams |-> TriState(Trigrams[i], r0)]
TriStep1(s, r1) == [i \in DOMAIN Trigrams |-> Mix1(Trigrams[i], s[i], r1)]
TriStep2(s, r2) == [i \in DOMAIN Trigrams |-> Mix2(Trigrams[i], s[i], r2)]

\* NgramFeatureImpl.apply and HashedFeaturePerceptron.compute: what the score
\* of a connection is meant to be, by the n-grams of the specification.
Reference(t2, t1, t0) ==
  LET s == Specs[cfg.spec]
      means == cfg.means
      index(i) ==
        LET g == s.ngrams[i]
        IN CASE Len(g) = 1 -> <<3, i, "uni", means[t0][g[1]]>>
             [] Len(g) = 2 -> <<4, i, "bi", means[t0][g[1]], means[t1][g[2]]>>
             [] Len(g) = 3 -> <<5, i, "tri", means[t0][g[1]], means[t1][g[2]], means[t2][g[3]]>>
  IN ToBag([i \in DOMAIN s.ngrams |-> index(i)])
-----------------------------------------------------------------------------
\* A map with new entries, put over those it had.
Merge(new, old) ==
  [x \in DOMAIN new \cup DOMAIN old |-> IF x \in DOMAIN new THEN new[x] ELSE old[x]]

\* The two value buffers.  Overwriting a prefix keeps what lies behind it.
Over(old, new) == new \o SubSeq(old, Len(new) + 1, Len(old))
Write(val, b, row) == [val EXCEPT ![b] = Over(@, row)]
Take(val, b, n) == SubSeq(val[b], 1, n)

\* The row loop of applyUni, applyBiStep2, applyTriStep3 and applyBiTri: row 0
\* goes to the second buffer, every other row to the first, and after a swap
\* the row before is summed.
RowLoopNoSwap(rows, n, val) ==
  LET at[i \in 1 .. Len(rows)] ==
        IF i = 1 THEN [val |-> Write(val, 2, rows[1]), b1 |-> 1, b2 |-> 2, reads |-> <<>>]
        ELSE LET acc == at[i - 1]
                 v == Write(acc.val, 1, rows[i])
             IN [val |-> v, b1 |-> 1, b2 |-> 2, reads |-> Append(acc.reads, Take(v, 1, n))]
      end == at[Len(rows)]
  IN [val |-> end.val, reads |-> Append(end.reads, Take(end.val, 2, n))]
RowLoop(rows, n, val) ==
  LET at[i \in 1 .. Len(rows)] ==
        IF i = 1 THEN [val |-> Write(val, 2, rows[1]), b1 |-> 1, b2 |-> 2, reads |-> <<>>]
        ELSE LET acc == at[i - 1]
                 v == Write(acc.val, acc.b1, rows[i])
             IN [val |-> v, b1 |-> acc.b2, b2 |-> acc.b1, reads |-> Append(acc.reads, Take(v, acc.b2, n))]
      end == at[Len(rows)]
  IN [val |-> end.val, reads |-> Append(end.reads, Take(end.val, end.b2, n))]

\* The loops of the generated code swap first, so row 0 sums what was left in
\* the other buffer; that sum is dropped.
Pipeline(rows, n, val, one, two) ==
  LET at[i \in 0 .. Len(rows)] ==
        IF i = 0 THEN [val |-> val, b1 |-> one, b2 |-> two, reads |-> <<>>]
        ELSE LET acc == at[i - 1]
                 v == Write(acc.val, acc.b2, rows[i])
             IN [val |-> v, b1 |-> acc.b2, b2 |-> acc.b1, reads |-> Append(acc.reads, Take(v, acc.b1, n))]
  IN at[Len(rows)]

\* InNodeComputationsCodegen.generateLoop.
UnigramLoop(rows, n, val) ==
  LET p == Pipeline(rows, n, val, 1, 2)
  IN [val |-> p.val, stale |-> Head(p.reads),
      reads |-> Append(Tail(p.reads), Take(p.val, p.b1, n))]

\* PartialNgramFeatureApplyImpl.applyBiTri for node t0 and the elements tail.
Sums(reads) == [i \in DOMAIN reads |-> ToBag(reads[i])]
Plus(xs, reads) == [i \in DOMAIN xs |-> xs[i] (+) ToBag(reads[i])]
BiTriDynamic(t0, t1, t2, t1idx) ==
  LET r0 == patterns[t0]
      bi == RowLoop([i \in DOMAIN t1 |-> BiStep1(BiStep0(r0), t1[i])], Len(Bigrams), buf.val)
      rows == [i \in DOMAIN t2 |-> TriStep2(TriStep1(TriStep0(r0), t1[t1idx[i]]), t2[i])]
      tri == RowLoop(rows, Len(Trigrams), bi.val)
  IN [val |-> tri.val, reads |-> bi.reads \o tri.reads,
      result |-> Plus([i \in DOMAIN t2 |-> ToBag(bi.reads[t1idx[i]])], tri.reads)]

\* applyBiTriFullKernel: the states of t0 come from the buffers of step 1, the
\* sum of the last bigram row is taken during the first row of trigrams.
BiTriStaticLate(t0, t1, t2, t1idx) ==
  LET bi == Pipeline([i \in DOMAIN t1 |-> BiStep1(buf.t1[t0[2]], t1[i])], Len(Bigrams), buf.val, 1, 2)
      rows == [i \in DOMAIN t2 |-> TriStep2(TriStep1(buf.t2a[t0[2]], t1[t1idx[i]]), t2[i])]
      tri == Pipeline(rows, Len(Trigrams), bi.val, bi.b1, bi.b2)
      biReads == Append(Tail(bi.reads), Take(tri.val, bi.b1, Len(Bigrams)))
      triReads == Append(Tail(tri.reads), Take(tri.val, tri.b1, Len(Trigrams)))
  IN [val |-> tri.val, reads |-> bi.reads \o tri.reads \o biReads \o triReads,
      result |-> Plus([i \in DOMAIN t2 |-> ToBag(biReads[t1idx[i]])], triReads)]
BiTriStatic(t0, t1, t2, t1idx) ==
  LET bi == Pipeline([i \in DOMAIN t1 |-> BiStep1(buf.t1[t0[2]], t1[i])], Len(Bigrams), buf.val, 1, 2)
      rows == [i \in DOMAIN t2 |-> TriStep2(TriStep1(buf.t2a[t0[2]], t1[t1idx[i]]), t2[i])]
      first == Pipeline(SubSeq(rows, 1, 1), Len(Trigrams), bi.val, bi.b1, bi.b2)
      tri == Pipeline(rows, Len(Trigrams), bi.val, bi.b1, bi.b2)
      biReads == Append(Tail(bi.reads), Take(first.val, bi.b1, Len(Bigrams)))
      triReads == Append(Tail(tri.reads), Take(tri.val, tri.b1, Len(Trigrams)))
  IN [val |-> tri.val, reads |-> bi.reads \o tri.reads \o biReads \o triReads,
      result |-> Plus([i \in DOMAIN t2 |-> ToBag(biReads[t1idx[i]])], triReads)]

Watch(reads) ==
  trouble \cup {"unwritten index" : i \in {j \in DOMAIN reads : Unwritten \in ToSet(reads[j])}}
-----------------------------------------------------------------------------
\* allocateBuffers, and the fill of the first value buffer alone.
MaxStarts == Max({Len(Row(b)) : b \in 2 .. lat.n + 2})
BufferOf(l, c, first) ==
  LET count(k) == Len(NgramsOf(c, k))
      states(k) == [r \in 1 .. Max({Cardinality(RowOf(l, b)) : b \in 2 .. l.n + 2}) |->
                      [i \in 1 .. count(k) |-> Unwritten]]
      indices(x) == [i \in 1 .. Max({count(k) : k \in 1 .. 3}) |-> x]
  IN [val |-> <<indices(first), indices(Unwritten)>>,
      cur |-> -1, t1 |-> states(2), t2a |-> states(3), t2b |-> states(3)]
NewFeatureBufferUnfilled(l, c) == BufferOf(l, c, Unwritten)
NewFeatureBuffer(l, c) == BufferOf(l, c, ZeroIndex)

\* buildLattice with interpreted features computes the patterns of the nodes
\* at boundaries where a node starts and a node ends, and of EOS.
Accessible(l, v) == \E u \in NodesOf(l) : EndIn(l, u) = v[1]
InitialPatterns(c) ==
  [v \in NodesOf(c.lat) |->
     [p \in 1 .. NumFeaturePatterns(c.model, c.impl = "static", c.storeAll) |->
        IF \/ IsBos(v)
           \/ c.impl = "dynamic" /\ (Accessible(c.lat, v) \/ v = EosOf(c.lat))
        THEN c.rows[v][p] ELSE Noise]]

NoBeam == [elems |-> <<>>, t1idx |-> <<>>, t1 |-> <<>>, t2 |-> <<>>]

Init ==
  /\ \E l \in Lattices, i \in DOMAIN Specs, impl \in Impls, gbeam \in GlobalBeams,
        check \in RightChecks, storeAll \in BOOLEAN :
       LET model == Compile(Specs[i])
       IN cfg = [lat |-> l, spec |-> i, impl |-> impl, gbeam |-> gbeam, check |-> check,
                 storeAll |-> storeAll, model |-> model,
                 rows |-> Rows(l, model, impl), means |-> Meanings(l, Specs[i])]
  /\ cfg.storeAll => cfg.impl = "static"
  /\ cfg.gbeam = 0 => cfg.check = Min(RightChecks)
  /\ phase = IF cfg.lat.n = 0 THEN "done" ELSE "t0"
  /\ bnd = 2
  /\ patterns = InitialPatterns(cfg)
  /\ buf = NewFeatureBuffer(cfg.lat, compiled)
  /\ t0s = <<>> /\ t1s = <<>>
  /\ scores = <<>>
  /\ beams = [v \in {Bos0, Bos1} |-> IF v = Bos0 THEN <<<<<<0, 0>>, 0>>>> ELSE <<<<Bos0, 1>>>>]
  /\ left = 1 /\ elem = 1
  /\ gb = NoBeam /\ pre = <<>> /\ order = <<>>
  /\ result = [i \in 1 .. cfg.gbeam |-> EmptyBag]
  /\ trouble = {}

NextBoundary ==
  /\ bnd' = bnd + 1
  /\ phase' = IF bnd = lat.n + 2 THEN "done" ELSE "t0"

\* computeScoresGbeam passes over a boundary where no node starts.
SkipBoundary ==
  /\ phase = "t0"
  /\ cfg.gbeam > 0 /\ Row(bnd) = <<>>
  /\ NextBoundary
  /\ UNCHANGED <<cfg, patterns, buf, t0s, t1s, scores, beams, left, elem, gb, pre, order, result, trouble>>

StartBoundaryAnyway ==
  /\ phase = "t0"
  /\ scores' = <<>>
  /\ left' = 1 /\ elem' = 1
  /\ phase' = IF cfg.gbeam > 0 THEN "gbeam" ELSE "t1"
  /\ UNCHANGED <<cfg, bnd, t1s, beams, gb, pre, order, result>>
StartBoundary ==
  /\ phase = "t0"
  /\ cfg.gbeam > 0 => Row(bnd) # <<>>
  /\ scores' = <<>>
  /\ left' = 1 /\ elem' = 1
  /\ phase' = IF cfg.gbeam > 0 THEN "gbeam" ELSE "t1"
  /\ UNCHANGED <<cfg, bnd, t1s, beams, gb, pre, order, result>>

\* The states of all nodes of bnd: applyBiStep1 and applyTriStep1.
Prepared(rows, val) ==
  [buf EXCEPT !.cur = Len(rows), !.val = val,
              !.t1 = Over(@, [i \in DOMAIN rows |-> BiStep0(rows[i])]),
              !.t2a = Over(@, [i \in DOMAIN rows |-> TriStep0(rows[i])])]

\* applyT0.
ApplyT0 ==
  /\ StartBoundary
  /\ ~Static
  /\ LET rows == [i \in DOMAIN Row(bnd) |-> patterns[Row(bnd)[i]]]
     IN IF rows = <<>>
        THEN t0s' = <<>> /\ buf' = Prepared(rows, buf.val) /\ UNCHANGED trouble
        ELSE LET uni == RowLoop([i \in DOMAIN rows |-> UniRow(rows[i])], Len(Unigrams), buf.val)
             IN /\ t0s' = Sums(uni.reads)
                /\ buf' = Prepared(rows, uni.val)
                /\ trouble' = Watch(uni.reads)
  /\ UNCHANGED patterns

\* computeT0All.  Without nodes the score behind the loop is written one
\* element in front of the buffer, where only the processor's own unused
\* members lie.
ComputeT0All ==
  /\ StartBoundary
  /\ Static
  /\ LET nodes == Row(bnd)
         full == [i \in DOMAIN nodes |-> FullRow(nodes[i])]
     IN /\ patterns' = [v \in DOMAIN patterns |-> IF v[1] = bnd THEN PatternRow(v) ELSE patterns[v]]
        /\ IF nodes = <<>>
           THEN /\ t0s' = <<>>
                /\ buf' = [buf EXCEPT !.cur = 0]
                /\ trouble' = trouble \cup {"outside"}
           ELSE LET uni == UnigramLoop([i \in DOMAIN full |-> UniRow(full[i])], Len(Unigrams), buf.val)
                IN /\ t0s' = Sums(uni.reads)
                   /\ buf' = Prepared([i \in DOMAIN nodes |-> PatternRow(nodes[i])], uni.val)
                   /\ trouble' = Watch(Append(uni.reads, uni.stale))
                                 \cup (IF BehindRow THEN {"outside"} ELSE {})

\* applyBiStep2, applyTriStep2 and applyTriStep3 over the states of bnd.
BiStep2(r1, val) == RowLoop([i \in 1 .. buf.cur |-> BiStep1(buf.t1[i], r1)], Len(Bigrams), val)
AfterTriStep2(r1) ==
  [buf EXCEPT !.t2b = Over(@, [i \in 1 .. buf.cur |-> TriStep1(buf.t2a[i], r1)])]
TriStep3(t2b, r2, val) ==
  RowLoop([i \in 1 .. buf.cur |-> TriStep2(t2b[i], r2)], Len(Trigrams), val)

\* applyT1 for the next node that ends at bnd.
ApplyT1 ==
  /\ phase = "t1" /\ left \in DOMAIN Ends(bnd)
  /\ LET row == patterns[Ends(bnd)[left]]
     IN IF buf.cur = 0 THEN t1s' = t0s /\ UNCHANGED <<buf, trouble>>
        ELSE LET bi == BiStep2(row, buf.val)
             IN /\ t1s' = Plus(t0s, bi.reads)
                /\ buf' = [AfterTriStep2(row) EXCEPT !.val = bi.val]
                /\ trouble' = Watch(bi.reads)
  /\ elem' = 1
  /\ phase' = "t2"
  /\ UNCHANGED <<cfg, bnd, patterns, t0s, scores, beams, left, gb, pre, order, result>>

\* applyT2 for the next element of its beam, and copyFeatureScores.
ApplyT2 ==
  /\ phase = "t2" /\ elem \in DOMAIN beams[Ends(bnd)[left]]
  /\ LET a == <<Ends(bnd)[left], elem>>
         row == patterns[Previous(a)[1]]
     IN IF buf.cur = 0 THEN UNCHANGED <<buf, scores, trouble>>
        ELSE LET tri == TriStep3(buf.t2b, row, buf.val)
                 t2s == Plus(t1s, tri.reads)
             IN /\ scores' = Merge([k \in {<<v, a>> : v \in ToSet(Row(bnd))} |-> t2s[k[1][2]]], scores)
                /\ buf' = [buf EXCEPT !.val = tri.val]
                /\ trouble' = Watch(tri.reads)
  /\ elem' = elem + 1
  /\ UNCHANGED <<cfg, phase, bnd, patterns, t0s, t1s, beams, left, gb, pre, order, result>>

NextLeftEarly ==
  /\ phase = "t2"
  /\ phase' = "t1"
  /\ left' = left + 1
  /\ UNCHANGED <<cfg, bnd, patterns, buf, t0s, t1s, scores, beams, elem, gb, pre, order, result, trouble>>
NextLeft ==
  /\ phase = "t2" /\ elem \notin DOMAIN beams[Ends(bnd)[left]]
  /\ phase' = "t1"
  /\ left' = left + 1
  /\ UNCHANGED <<cfg, bnd, patterns, buf, t0s, t1s, scores, beams, elem, gb, pre, order, result, trouble>>

\* Beams that keep k of the elements S, or all if there are not as many.
Atmost(k, m) == IF k < m THEN k ELSE m
Selections(S, k) ==
  LET m == Atmost(k, Cardinality(S)) IN {s \in [1 .. m -> S] : IsInjective(s)}

MakeBeams ==
  /\ phase = "t1" /\ left \notin DOMAIN Ends(bnd)
  /\ \E f \in [ToSet(Row(bnd)) -> Selections(Candidates(bnd), BeamSize)] : beams' = Merge(f, beams)
  /\ NextBoundary
  /\ UNCHANGED <<cfg, patterns, buf, t0s, t1s, scores, left, elem, gb, pre, order, result, trouble>>
-----------------------------------------------------------------------------
\* makeGlobalBeam; dedupT1, gatherT1 and gatherT2 copy the rows of the nodes
\* before and two before bnd, the former once for each node.
Gathered(g) ==
  LET t1 == Distinct([i \in DOMAIN g |-> g[i][1]])
  IN [elems |-> g,
      t1idx |-> [i \in DOMAIN g |-> CHOOSE j \in DOMAIN t1 : t1[j] = g[i][1]],
      t1 |-> [j \in DOMAIN t1 |-> patterns[t1[j]]],
      t2 |-> [i \in DOMAIN g |-> patterns[Previous(g[i])[1]]]]
MakeGlobalBeam ==
  /\ phase = "gbeam"
  /\ \E g \in Selections(Candidates(bnd), cfg.gbeam) : gb' = Gathered(g)
  /\ pre' = <<>>
  /\ order' = Row(bnd)
  /\ phase' = IF cfg.check > 0 THEN "prescores" ELSE "node"
  /\ UNCHANGED <<cfg, bnd, patterns, buf, t0s, t1s, scores, beams, left, elem, result, trouble>>

\* One round of computeT0Prescores.
ComputeT0Prescores ==
  /\ phase = "prescores" /\ Len(pre) < Atmost(cfg.check, Len(gb.elems))
  /\ LET i == Len(pre) + 1
         half == AfterTriStep2(gb.t1[gb.t1idx[i]])
         bi == BiStep2(gb.t1[gb.t1idx[i]], buf.val)
         tri == TriStep3(half.t2b, gb.t2[i], bi.val)
     IN /\ pre' = Append(pre, Plus(Plus(t0s, bi.reads), tri.reads))
        /\ buf' = [half EXCEPT !.val = tri.val]
        /\ trouble' = Watch(bi.reads \o tri.reads)
  /\ UNCHANGED <<cfg, phase, bnd, patterns, t0s, t1s, scores, beams, left, elem, gb, order, result>>

\* makeT0cutoffBeam: nth_element puts the nodes to keep first, in any order.
ToKeep == Atmost(RightBeam, Len(Row(bnd)))
MakeT0cutoffBeam ==
  /\ phase = "prescores" /\ Len(pre) = Atmost(cfg.check, Len(gb.elems))
  /\ order' \in IF buf.cur <= RightBeam THEN {order}
                ELSE {s \in [DOMAIN order -> ToSet(order)] : IsInjective(s)}
  /\ phase' = "node"
  /\ UNCHANGED <<cfg, bnd, patterns, buf, t0s, t1s, scores, beams, left, elem, gb, pre, result, trouble>>

\* copyT0Scores stores the local scores of the elements from first on, and
\* leaves the totals behind for makeT0Beam.
TotalOf(a) == SetToBag({<<0, a>>})
Totals(local, first) == [i \in DOMAIN local |-> local[i] (+) TotalOf(gb.elems[first + i - 1])]
Stored(t0, local, first) ==
  [k \in {<<t0, gb.elems[first + i - 1]>> : i \in DOMAIN local} |->
     local[CHOOSE i \in DOMAIN local : gb.elems[first + i - 1] = k[2]]]

\* The elements every node is scored with, and whether this node gets the rest.
HeadLength ==
  IF cfg.check = 0 THEN 0 ELSE Atmost(Atmost(cfg.check, Len(Row(bnd))), Len(gb.elems))
Keep == cfg.check = 0 \/ Len(Row(bnd)) - Len(order) < ToKeep
Considered == IF Keep THEN Len(gb.elems) ELSE HeadLength

\* computeGbeamScores for the next node: the head from the prescores, the tail
\* by applyBiTri, and makeT0Beam.  The generated applyBiTri does not look
\* whether there is a row at all.
ScoreNode ==
  /\ phase = "node" /\ order # <<>>
  /\ LET t0 == Head(order)
         h == HeadLength
         head == [i \in 1 .. h |-> pre[i][t0[2]]]
         tail == SubSeq(gb.t2, h + 1, Len(gb.t2))
         idx == SubSeq(gb.t1idx, h + 1, Len(gb.t1idx))
         bitri == IF Static THEN BiTriStatic(t0, gb.t1, tail, idx)
                            ELSE BiTriDynamic(t0, gb.t1, tail, idx)
         rest == [i \in DOMAIN tail |-> t0s[t0[2]] (+) bitri.result[i]]
     IN /\ IF Keep /\ tail # <<>>
           THEN /\ scores' = Merge(Stored(t0, head, 1), Merge(Stored(t0, rest, h + 1), scores))
                /\ result' = Over(result, Totals(head, 1) \o Totals(rest, h + 1))
                /\ buf' = [buf EXCEPT !.val = bitri.val]
                /\ trouble' = Watch(bitri.reads)
           ELSE /\ scores' = Merge(Stored(t0, head, 1), scores)
                /\ result' = Over(result, Totals(head, 1))
                /\ trouble' = IF Static /\ cfg.check = 0 THEN trouble \cup {"outside"} ELSE trouble
                /\ UNCHANGED buf
        /\ \E s \in Selections({gb.elems[i] : i \in 1 .. Considered}, BeamSize) :
             beams' = Merge([v \in {t0} |-> s], beams)
  /\ order' = Tail(order)
  /\ UNCHANGED <<cfg, phase, bnd, patterns, t0s, t1s, left, elem, gb, pre>>

EndBoundary ==
  /\ phase = "node" /\ order = <<>>
  /\ NextBoundary
  /\ UNCHANGED <<cfg, patterns, buf, t0s, t1s, scores, beams, left, elem, gb, pre, order, result, trouble>>

Next ==
  \/ SkipBoundary \/ ApplyT0 \/ ComputeT0All
  \/ ApplyT1 \/ ApplyT2 \/ NextLeft \/ MakeBeams
  \/ MakeGlobalBeam \/ ComputeT0Prescores \/ MakeT0cutoffBeam \/ ScoreNode \/ EndBoundary

Spec == Init /\ [][Next]_vars
-----------------------------------------------------------------------------
\* What BeamSearch takes for granted: the stored local score of a connection is
\* the sum of exactly the weights of its own n-gram features, whichever rows,
\* nodes and boundaries went through the shared buffers before.
ScoresExact ==
  \A k \in DOMAIN scores : scores[k] = Reference(Previous(k[2])[1], k[2][1], k[1])

\* Patterns are numbered when the model is made, stored in rows as wide as the
\* implementation needs, and computed in three places.  The row of a node that
\* a path reaches holds what its patterns mean: all of them, or with generated
\* code and unless all are asked for those that longer n-grams read.
PatternsStored ==
  \A v \in DOMAIN beams \ {Bos0, Bos1} :
    beams[v] # <<>> =>
      \A combo \in DOMAIN cfg.means[v] :
        LET meaning == cfg.means[v][combo]   \* the number of the pattern comes first
        IN ~Static \/ cfg.storeAll \/ Usage(Specs[cfg.spec], combo) # {1} =>
             patterns[v][meaning[1]] = meaning

\* Before makeBeams ranks the elements that end at a boundary, every node that
\* starts there has a score for each of them.
AllScored ==
  phase = "t1" /\ left > Len(Ends(bnd)) =>
    DOMAIN scores = ToSet(Row(bnd)) \X Candidates(bnd)

\* makeT0Beam ranks the elements a node considers by their total with this node
\* as the last word: nothing of the node before is left in the result buffer.
RanksByTotal ==
  [][phase = "node" /\ order # <<>> =>
       \A i \in 1 .. Considered :
         result'[i] = TotalOf(gb.elems[i])
                      (+) Reference(Previous(gb.elems[i])[1], gb.elems[i][1], Head(order))]_vars

\* No weight is looked up with an index nobody wrote: the loops read a buffer
\* before its first row is there, and only one of the buffers was filled.
IndicesWritten == "unwritten index" \notin trouble

\* With interpreted features, or with the global beam and right check that the
\* library sets unless told otherwise, nothing outside a buffer is touched.
DefaultInside == ~Static \/ (cfg.gbeam > 0 /\ cfg.check > 0) => "outside" \notin trouble

\* ArraySlice.at asserts that an index is inside the slice.
NeverOutside == "outside" \notin trouble
=============================================================================
