---------------------------- MODULE NodeFeatures -----------------------------
(***************************************************************************)
(* From the n-gram features of a specification to the patterns of a node:  *)
(* what SpecCompiler numbers, and how the numbered features are computed   *)
(* for a node, by the interpreter and by the code that is generated for    *)
(* one specification.                                                      *)
(*                                                                         *)
(* A specification s has                                                   *)
(*   ngrams    a sequence of n-gram features of one to three patterns; a   *)
(*             pattern is a sequence of names                              *)
(*   features  a sequence of [name, kind, at, shift, yes, no], one for     *)
(*             each name: the value is a field of the entry ("copy"), one  *)
(*             bit of it ("bit"), a number given by the creator of an      *)
(*             unknown word ("provided"), a count of characters ("size"),  *)
(*             a character ("codepoint") or classes of characters ("class");*)
(*             with branches yes and no it is only asked whether it is 0   *)
(* A node w has its entry, the numbers given, the place of its first       *)
(* character and that behind its last one, from 0, and the characters      *)
(* [code, class] of the sentence.  Patterns and names are numbered from 1. *)
(***************************************************************************)
EXTENDS Integers, Sequences, FiniteSets, SequencesExt

CONSTANT Width   \* bits of a field of an entry; 32 in the code

InOrder(S) ==   \* some numbers, the least first
  [k \in 1 .. Cardinality(S) |-> CHOOSE i \in S : Cardinality({j \in S : j < i}) = k - 1]
Distinct(seq) ==
  LET firsts == InOrder({i \in DOMAIN seq : \A j \in 1 .. i - 1 : seq[j] # seq[i]})
  IN [k \in DOMAIN firsts |-> seq[firsts[k]]]
Number(seq, x) == CHOOSE i \in DOMAIN seq : seq[i] = x

\* gatherFeatureInfo: names and patterns as they are first mentioned, with the
\* orders of the n-grams that use a pattern.
Branches(f) == f.yes \o f.no
Names(s) ==
  Distinct(FlattenSeq(FlattenSeq(s.ngrams))
           \o FlattenSeq([i \in DOMAIN s.features |-> Branches(s.features[i])]))
Combos(s) == Distinct(FlattenSeq(s.ngrams))
Usage(s, combo) == {Len(s.ngrams[i]) : i \in {j \in DOMAIN s.ngrams : Contains(s.ngrams[j], combo)}}

\* groupPatternFeatures: patterns that only unigrams use come last.
ScoreForUsage(usage) ==
  CASE usage = {1, 3} -> 1
    [] usage = {3} -> 10
    [] {2, 3} \subseteq usage -> 49
    [] usage = {2} -> 50
    [] usage = {1, 2} -> 51
    [] usage = {1} -> 100
    [] OTHER -> 1000
Grouped(s) ==
  LET Before(c, d) ==
        LET x == ScoreForUsage(Usage(s, c))
            y == ScoreForUsage(Usage(s, d))
        IN x < y \/ (x = y /\ Number(Combos(s), c) < Number(Combos(s), d))
      combos == ToSet(Combos(s))
  IN [p \in 1 .. Cardinality(combos) |->
        CHOOSE c \in combos : Cardinality({d \in combos : Before(d, c)}) = p - 1]

\* fillNgramFeatures and fillRemainingFeatures: the compiled features refer to
\* each other by number.
FillNgramFeatures(s, patterns) ==
  [i \in DOMAIN s.ngrams |->
     [k \in DOMAIN s.ngrams[i] |-> Number(patterns, s.ngrams[i][k])]]
Compiled(s, patterns) ==
  LET names == Names(s)
      feature(name) == s.features[CHOOSE i \in DOMAIN s.features : s.features[i].name = name]
      refs(seq) == [k \in DOMAIN seq |-> Number(names, seq[k])]
  IN [ngrams |-> FillNgramFeatures(s, patterns),
      patterns |-> [p \in DOMAIN patterns |->
                      [refs |-> refs(patterns[p]), usage |-> Usage(s, patterns[p])]],
      compute |-> [n \in DOMAIN names |->
                     [feature(names[n]) EXCEPT !.yes = refs(@), !.no = refs(@)]],
      numUniOnlyPats |-> Cardinality({c \in ToSet(patterns) : Usage(s, c) = {1}})]
Compile(s) == Compiled(s, Grouped(s))

-----------------------------------------------------------------------------
\* The primitive features.
U32(x) == x % 2 ^ Width
Bit(x, k) == (x \div 2 ^ k) % 2
Or(S) == CHOOSE v \in 0 .. 2 ^ Width - 1 :
           \A k \in 0 .. Width - 1 : Bit(v, k) = 1 <=> \E x \in S : Bit(x, k) = 1
NoCodepoint == -1   \* ~u64{0}: no character has all 64 bits
CharAt(w, offset) ==
  LET pos == IF offset > 0 THEN w.end + offset - 1 ELSE w.start + offset
  IN IF pos \in 0 .. Len(w.chars) - 1 THEN {w.chars[pos + 1]} ELSE {}
Inside(w) == {w.chars[i + 1] : i \in w.start .. w.end - 1}

Access(f, w) ==
  CASE f.kind = "copy" -> U32(w.entry[f.at])
    [] f.kind = "bit" -> Bit(U32(w.entry[f.at]), f.shift)
    [] f.kind = "provided" -> U32(w.given[f.at])
    [] f.kind = "size" -> w.end - w.start
    [] f.kind = "codepoint" ->
         IF CharAt(w, f.at) = {} THEN NoCodepoint ELSE (CHOOSE c \in CharAt(w, f.at) : TRUE).code
    [] f.kind = "class" ->
         Or({c.class : c \in IF f.at = 0 THEN Inside(w) ELSE CharAt(w, f.at)})

\* The numbers of the primitive features a compute feature mixes into a
\* pattern, when its own value is v.
Mixed(c, n, v) ==
  LET f == c.compute[n]
  IN IF Branches(f) = <<>> THEN <<n>> ELSE IF v # 0 THEN f.yes ELSE f.no

\* A pattern is the sequence of what is mixed into its hash.
Start(c, p) == <<p, Len(c.patterns[p].refs)>>
InterpretedPattern(c, p, w) ==
  LET values(n) == LET mixed == Mixed(c, n, Access(c.compute[n], w))
                   IN [k \in DOMAIN mixed |-> Access(c.compute[mixed[k]], w)]
      refs == c.patterns[p].refs
  IN Start(c, p) \o FlattenSeq([k \in DOMAIN refs |-> values(refs[k])])

\* Generated code reads the primitive features of both branches into variables
\* before it looks at a condition.
Ensured(c, p) ==
  UNION {{n} \cup ToSet(Branches(c.compute[n])) : n \in ToSet(c.patterns[p].refs)}
GeneratedPattern(c, p, w) ==
  LET value == [n \in Ensured(c, p) |-> Access(c.compute[n], w)]
      values(n) == LET mixed == Mixed(c, n, value[n]) IN [k \in DOMAIN mixed |-> value[mixed[k]]]
      refs == c.patterns[p].refs
  IN Start(c, p) \o FlattenSeq([k \in DOMAIN refs |-> values(refs[k])])

\* The width of a row of patterns, and the first pattern applyUniOnly computes.
Patterns(c) == DOMAIN c.patterns
NumFeaturePatterns(c, static, storeAll) ==
  IF static /\ ~storeAll THEN Len(c.patterns) - c.numUniOnlyPats ELSE Len(c.patterns)
UniOnly(c, p) == c.patterns[p].usage = {1}
UniOnlyFirstNext(c) == Len(c.patterns) - c.numUniOnlyPats + 2   \* mutant: an off-by-one
UniOnlyFirst(c) == Len(c.patterns) - c.numUniOnlyPats + 1
-----------------------------------------------------------------------------
\* What a pattern of the specification means for a node, by names alone.
Meaning(s, combo, w) ==
  LET feature(name) == s.features[CHOOSE i \in DOMAIN s.features : s.features[i].name = name]
      value(name) == Access(feature(name), w)
      values(name) ==
        LET f == feature(name)
            used == IF Branches(f) = <<>> THEN <<name>> ELSE IF value(name) # 0 THEN f.yes ELSE f.no
        IN [k \in DOMAIN used |-> value(used[k])]
  IN <<Number(Grouped(s), combo), Len(combo)>> \o FlattenSeq([k \in DOMAIN combo |-> values(combo[k])])
=============================================================================
