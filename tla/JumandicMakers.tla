---------------------------- MODULE JumandicMakers ---------------------------
(***************************************************************************)
(* The makers of unknown words that the JumanDIC specification declares,   *)
(* in the order UnkMakerFactory creates them, and what they are good for.  *)
(* An input is a text and whether the memory behind its code points holds  *)
(* what the numeric maker takes for a digit.                               *)
(***************************************************************************)
EXTENDS NumericMaker, NormalizedMaker, LatticeBuilder

JumandicStage1 ==
  <<"dictionary", "symbols", "katakana", "kanji", "alphabet", "digits", "onomatopoeia", "normalize">>
JumandicStage2 == <<"hiragana", "notImpl">>

SeedsOf(s) ==
  [dictionary   |-> DicSeeds(s.text),
   symbols      |-> SingleSeeds(s.text, {"SYMBOL"}),
   katakana     |-> ChunkingSeeds(s.text, {"KATAKANA"}),
   kanji        |-> ChunkingSeeds(s.text, KANJI),
   alphabet     |-> ChunkingSeeds(s.text, {"ALPH"}),
   digits       |-> NumericSeeds(s.text, s.behind),
   onomatopoeia |-> OnomatopoeiaSeeds(s.text, KANA),
   normalize    |-> NormalizedSeeds(s.text),
   hiragana     |-> ChunkingSeeds(s.text, {"HIRAGANA"}),
   notImpl      |-> SingleSeeds(s.text, ANYTHING)]

\* Characters are read from UTF-8, where the first byte announces how many there
\* are, and getCodeType gives them their classes.
ASSUME CharactersAssumption ==
  /\ DOMAIN Classes = DOMAIN Bytes
  /\ \A c \in DOMAIN Bytes :
       LET point == Codepoint(Bytes[c], 1)
       IN point.utf8Length = Len(Bytes[c]) /\ Classes[c] = CodeType(point.codepoint)

\* What the builder is given are these makers and their seeds.
ASSUME MakersAssumption ==
  /\ Stage1 = JumandicStage1 /\ Stage2 = JumandicStage2
  /\ \A s \in Inputs \ Refused :
       /\ s.text \in Seq(DOMAIN Bytes) /\ Size[s] = Len(s.text)
       /\ Spawned[s] = SeedsOf(s)
-----------------------------------------------------------------------------
text == input.text
Proposed(i, j) == {k \in DOMAIN seeds : seeds[k].from = i - 1 /\ seeds[k].to = j}

\* No sentence is too strange: whatever its characters are, the two stages
\* cover it with words, since the low-priority makers propose every character
\* the dictionary does not hold.
AlwaysBuilt == phase = "failed" => input \in Refused

\* A maker of runs proposes exactly the runs of its class that the dictionary
\* does not hold, and marks those no dictionary word begins with.
RunMaker == [katakana |-> {"KATAKANA"}, kanji |-> KANJI, alphabet |-> {"ALPH"}, hiragana |-> {"HIRAGANA"}]
UnknownRuns ==
  phase = "built" =>
    \A m \in DOMAIN RunMaker :
      m \in {Stage1[i] : i \in DOMAIN Stage1} \/ stage = 2 =>
        \A i \in 1 .. n : \A j \in i .. n :
          LET w == SubSeq(text, i, j)
              here == {k \in DOMAIN seeds : /\ seeds[k].from = i - 1 /\ seeds[k].to = j
                                           /\ seeds[k].entry[1] = "chunk"
                                           /\ seeds[k].entry[2] = RunMaker[m]}
              begins == \E d \in DOMAIN Dictionary : IsPrefix(w, d)
          IN /\ here # {} <=> /\ \A k \in i .. j : Has(text[k], RunMaker[m])
                              /\ w \notin DOMAIN Dictionary
             /\ \A k \in here : seeds[k].entry[3] = "notPrefix" <=> ~begins

\* A repetition found in the sentence is proposed exactly if the dictionary
\* does not hold it: a traversal that lost its way never finds a word again.
OnomatopoeiaIsUnknown ==
  phase = "built" =>
    \A i \in 1 .. n : \A half \in Patterns(text, i, KANA) :
      (\E k \in DOMAIN seeds : /\ seeds[k].from = i - 1 /\ seeds[k].to = i - 1 + 2 * half
                               /\ seeds[k].entry[1] = "onomatopoeia")
      <=> SubSeq(text, i, i - 1 + 2 * half) \notin DOMAIN Dictionary

\* NumericUnkMaker: a number is as long as it can be.  Wherever a digit stands
\* that the dictionary does not hold with the digits after it, one number is
\* proposed, and it takes in all digits that follow it directly.  A period is
\* part of it only between two digits, a comma only behind a digit or a unit
\* and before exactly three figures.  Only the limit on its length cuts a
\* number before a digit, or behind a comma or a period.
IsDigit(k) == k \in 1 .. n /\ Has(text[k], DIGITS)
IsFigure(k) == k \in 1 .. n /\ Has(text[k], {"FIGURE"})
UnitEnds(i, k) ==
  \E w \in NumberSuffixes : k - Len(w) >= i /\ SubSeq(text, k - Len(w) + 1, k) = w
NumbersAreWhole ==
  phase = "built" /\ ~input.behind =>
    \A i \in {k \in 1 .. n : IsDigit(k)} :
      LET numbers == {k \in DOMAIN seeds : seeds[k].entry[1] = "number" /\ seeds[k].from = i - 1}
      IN /\ numbers = {} => \E j \in i .. n : SubSeq(text, i, j) \in Figures
         /\ \A k \in numbers :
              LET j == seeds[k].to IN
              /\ numbers = {k}
              /\ IsDigit(j + 1) \/ Has(text[j], NUM_PERIOD \cup {"COMMA"}) => j - i >= MaxNumericLength
              /\ \A l \in i .. j :
                   /\ Has(text[l], NUM_PERIOD) => IsDigit(l - 1) /\ IsDigit(l + 1)
                   /\ Has(text[l], {"COMMA"}) =>
                        /\ IsDigit(l - 1) \/ UnitEnds(i, l - 1)
                        /\ \A m \in 1 .. 3 : IsFigure(l + m)
                        /\ ~IsFigure(l + 4)

\* All spellings of s[i] .. s[j] with the changes each took: every character
\* but the first is left as it is, replaced, or dropped.
Spellings(s, i, j) ==
  LET why == Deletions(s)
      of[k \in i .. j] ==
        IF k = i THEN {<<<<s[i]>>, {}>>}
        ELSE {<<Append(r[1], c.char), (r[2] \cup c.flags) \ {"DELETE_LAST"}>> :
                r \in of[k - 1], c \in {Change(s[k], {})} \cup Substitutes(s, k)}
             \cup {<<r[1], r[2] \cup why[k] \cup {"DELETE_LAST"}>> :
                     r \in {x \in of[k - 1] : why[k] # {}}}
  IN of[j]

\* NormalizedNodeMaker: the words proposed for a part of the sentence are the
\* dictionary words that are another spelling of it, each entry once, though
\* the traversals that find them meet and part and share their states; and
\* the flags kept with a word are those of a way from the sentence to it.
NormalizedAreRespellings ==
  phase = "built" =>
    \A i \in 1 .. n : \A j \in i .. n : \A w \in DOMAIN Dictionary :
      LET ways == {r[2] : r \in {x \in Spellings(text, i, j) : x[1] = w /\ x[2] # {}}}
      IN \A e \in 1 .. Dictionary[w] :
           LET here == {k \in Proposed(i, j) : /\ seeds[k].entry[1] = "normalized"
                                               /\ seeds[k].entry[2] = w /\ seeds[k].entry[3] = e}
           IN IF ways = {} THEN here = {}
              ELSE \E k \in here : here = {k} /\ seeds[k].entry[4] = ways
=============================================================================
