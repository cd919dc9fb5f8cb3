------------------------------ MODULE RubyUnits ------------------------------
(***************************************************************************)
(* JumanppLib::analyzeRuby after a successful analyze: each word of the    *)
(* result becomes one or several ruby units, a piece of text with the      *)
(* morae (beats) written over it.                                          *)
(*                                                                         *)
(* The code works on UTF-8 bytes, so this module does too: a byte is       *)
(* <<c, k>>, the k-th byte of character c.  The code tells the class of a  *)
(* byte from its value alone: below 0xC0 an ASCII character or a           *)
(* continuation byte, below 0xE0 the head of two bytes, and everything     *)
(* else the head of three, a head of four included.                        *)
(***************************************************************************)
EXTENDS Naturals, Sequences, FiniteSets, SequencesExt

CONSTANTS
  Width,        \* the characters, with the length of their encoding
  Kanji,        \* what the code takes for kanji, see DecodesTo
  SmallYoon,    \* small ya, yu, yo of either kana
  Katakana,     \* U+30A0..30FF
  LongVowel,    \* U+30FC, one of them
  Texts         \* results of analyze: sequences of [surface, reading]

Chars == DOMAIN Width

ASSUME CharsAssumption ==
  /\ \A c \in Chars : Width[c] \in 1 .. 4
  /\ Kanji \subseteq {c \in Chars : Width[c] \in 3 .. 4}
  /\ SmallYoon \cup Katakana \subseteq {c \in Chars : Width[c] = 3}
  /\ LongVowel \in Katakana

\* No word of the dictionary has an empty reading, and an unknown word is
\* read as it is written.
ASSUME TextsAssumption ==
  Texts \subseteq Seq([surface : Seq(Chars), reading : Seq(Chars) \ {<<>>}])

VARIABLES
  result,             \* the words analyze left in result_
  annotateKatakana,   \* annotateKatakana_
  at,                 \* words of result turned into units so far
  rubyResult          \* rubyResult_

vars == <<result, annotateKatakana, at, rubyResult>>
-----------------------------------------------------------------------------
Utf8(s) == FlattenSeq([i \in DOMAIN s |-> [k \in 1 .. Width[s[i]] |-> <<s[i], k>>]])

\* How far the code steps from a byte; from a head of four it steps three.
StepFrom(b) == IF b[2] > 1 \/ Width[b[1]] = 1 THEN 1 ELSE IF Width[b[1]] = 2 THEN 2 ELSE 3

\* The substrings a scan of s by those steps passes over.
Pieces(s) ==
  LET from[i \in 1 .. Len(s) + 3] ==
        IF i > Len(s) THEN <<>>
        ELSE LET next == i + StepFrom(s[i])
             IN  <<SubSeq(s, i, IF next - 1 > Len(s) THEN Len(s) ELSE next - 1)>> \o from[next]
  IN  from[1]

\* utf8ToCodepoint at a byte decodes to a character of cs.  Only heads do, for
\* the other bytes give codepoints of no class.  A head of four is decoded as
\* if it were one of three: U+E0000 and above, variation selectors and private
\* use, give a codepoint from U+3800 to U+43FF and so are kanji besides
\* U+4E00..9FFF and U+3400..4DBF; no assigned character below gives one that
\* has a class.
DecodesTo(b, cs) == b[2] = 1 /\ b[1] \in cs

IsSmallYoon(piece) == DecodesTo(piece[1], SmallYoon)

SplitEveryPiece(kana) == Pieces(kana)   \* mutant: no yoon is merged

\* A small yoon joins the mora before it, everything else is a mora.
SplitIntoMora(kana) ==
  FoldLeft(LAMBDA out, piece :
             IF IsSmallYoon(piece) /\ out # <<>>
             THEN Front(out) \o <<Last(out) \o piece>>
             ELSE Append(out, piece),
           <<>>, Pieces(kana))

HasKanji(s) == \E i \in DOMAIN Pieces(s) : DecodesTo(Pieces(s)[i][1], Kanji)

\* The last kanji a scan backwards meets, 0 if none.
LastKanji(s) ==
  LET scan[i \in 0 .. Len(s)] ==
        IF i = 0 THEN 0
        ELSE IF DecodesTo(s[i], Kanji) THEN i
        ELSE scan[IF i > StepFrom(s[i]) THEN i - StepFrom(s[i]) ELSE 0]
  IN  IF Len(s) < 3 THEN 0 ELSE scan[Len(s) - 2]

\* Bytes before the okurigana.
OkuriStart(s) == IF LastKanji(s) = 0 THEN Len(s) ELSE LastKanji(s) + 2
-----------------------------------------------------------------------------
Bare(surface) == [surface |-> surface, readings |-> <<>>]

\* Mutants: nothing left of the reading for the kanji; one mora too few.
OkuriMoraAll(okuriChars, totalMora) == IF okuriChars <= totalMora THEN okuriChars ELSE 0
OkuriMoraOneLess(okuriChars, totalMora) ==
  IF okuriChars > 1 /\ okuriChars < totalMora THEN okuriChars - 1 ELSE 0

\* How many morae are taken for okurigana: as many as it has characters.
OkuriMora(okuriChars, totalMora) == IF okuriChars < totalMora THEN okuriChars ELSE 0

\* The kanji with its share of the reading, then each okurigana mora.
KanjiUnits(w) ==
  LET start == OkuriStart(w.surface)
      allMora == SplitIntoMora(w.reading)
      nk == OkuriMora(Len(Pieces(SubSeq(w.surface, start + 1, Len(w.surface)))), Len(allMora))
      kanjiMora == SubSeq(allMora, 1, Len(allMora) - nk)
      okurigana == SubSeq(allMora, Len(allMora) - nk + 1, Len(allMora))
  IN  <<[surface |-> SubSeq(w.surface, 1, start), readings |-> kanjiMora]>>
      \o [i \in DOMAIN okurigana |-> Bare(okurigana[i])]

HasKata(w) ==
  /\ annotateKatakana
  /\ \E i \in 1 .. Len(w.surface) - 2 : i % 3 = 1 /\ DecodesTo(w.surface[i], Katakana)

Aligned(w) ==
  /\ Len(SplitIntoMora(w.surface)) = Len(SplitIntoMora(w.reading))
  /\ Len(SplitIntoMora(w.surface)) > 1

\* A word without kanji whose surface and reading have as many morae.
MoraUnits(w) ==
  LET surfMora == SplitIntoMora(w.surface)
      readMora == SplitIntoMora(w.reading)
  IN  [i \in DOMAIN surfMora |->
         [surface |-> surfMora[i],
          readings |-> IF HasKata(w) /\ surfMora[i] # readMora[i]
                       THEN <<readMora[i]>> ELSE <<>>]]

\* Any other word without kanji stays whole.
WholeUnit(w) ==
  <<[surface |-> w.surface,
     readings |-> IF HasKata(w) \/ w.surface # w.reading
                  THEN SplitIntoMora(w.reading) ELSE <<>>]>>
-----------------------------------------------------------------------------
Word == [surface |-> Utf8(result[at + 1].surface), reading |-> Utf8(result[at + 1].reading)]

Init ==
  /\ result \in Texts
  /\ annotateKatakana \in BOOLEAN
  /\ at = 0
  /\ rubyResult = <<>>

Emit(units) ==
  /\ rubyResult' = rubyResult \o units
  /\ at' = at + 1
  /\ UNCHANGED <<result, annotateKatakana>>

KanjiWord == HasKanji(Word.surface) /\ Emit(KanjiUnits(Word))

KanaByMora == ~HasKanji(Word.surface) /\ Aligned(Word) /\ Emit(MoraUnits(Word))

KanaWhole == ~HasKanji(Word.surface) /\ ~Aligned(Word) /\ Emit(WholeUnit(Word))

Next == at < Len(result) /\ (KanjiWord \/ KanaByMora \/ KanaWhole)

Spec == Init /\ [][Next]_vars
-----------------------------------------------------------------------------
Concat(seqs) == FlattenSeq(seqs)
Shown(units) == Concat([i \in DOMAIN units |-> units[i].surface])
Spoken(units) ==
  Concat([i \in DOMAIN units |->
            IF units[i].readings = <<>> THEN units[i].surface ELSE Concat(units[i].readings)])

\* The word a step turns into units, and its units.
Turned == result[at + 1]
New == SubSeq(rubyResult', Len(rubyResult) + 1, Len(rubyResult'))

\* The morae of a text by its characters: each mora starts at one that is no
\* small yoon, a small yoon at the start of a word aside.
MoraCount(s) == Cardinality({i \in DOMAIN s : i = 1 \/ s[i] \notin SmallYoon})

HasKanjiChar(s) == \E i \in DOMAIN s : s[i] \in Kanji
AllOfThreeBytes(s) == \A i \in DOMAIN s : Width[s[i]] = 3
UpToThreeBytes(s) == \A i \in DOMAIN s : Width[s[i]] < 4

\* What setKatakanaAnnotation asks readings for.
Annotated(w) == annotateKatakana /\ \E i \in DOMAIN w.surface : w.surface[i] \in Katakana

\* The characters of a surface after its last kanji.
Okurigana(s) ==
  SubSeq(s, 1 + Max({0} \cup {i \in DOMAIN s : s[i] \in Kanji}), Len(s))

\* The README's okurigana: kana, of three bytes each, spelled as in the
\* reading, without yoon and with something left of the reading for the kanji.
PlainOkurigana(w) ==
  LET o == Okurigana(w.surface) IN
  /\ HasKanjiChar(w.surface) /\ UpToThreeBytes(w.surface)
  /\ Len(o) < Len(w.reading) /\ IsSuffix(o, w.reading)
  /\ AllOfThreeBytes(o) /\ \A i \in DOMAIN o : o[i] \notin SmallYoon

\* analyzeRuby, jumanlrc_lib.cc:298: the reading of a word with kanji is
\* dealt out completely between the kanji and the okurigana, whatever the
\* number of characters of either, and a word of katakana, where readings are
\* asked for (setKatakanaAnnotation), is spoken as it is read; only characters
\* of three bytes are seen to be katakana wherever they stand.  Other words
\* without kanji are left out unless they are read as they are written: the
\* documentation (jumanlrc_lib.h:52, index.js:85) has no readings for kana
\* there, and the code gives one where surface and reading differ in their
\* number of morae or have one (jumanlrc_lib.cc:429).
ReadingDealtOut ==
  [][(\/ HasKanjiChar(Turned.surface)
      \/ Annotated(Turned) /\ AllOfThreeBytes(Turned.surface)
      \/ Turned.surface = Turned.reading)
     => Spoken(New) = Utf8(Turned.reading)]_vars

\* analyzeRuby, README "okurigana: separated": the okurigana of a word stands
\* under its kanji as it is written, one unit a character, and the kanji has
\* the rest of the reading; a word of kana is never rewritten.
OkuriganaSeparated ==
  [][/\ PlainOkurigana(Turned) =>
          /\ Shown(New) = Utf8(Turned.surface)
          /\ Len(New) = 1 + Len(Okurigana(Turned.surface))
          /\ \A i \in 2 .. Len(New) : New[i].readings = <<>>
     /\ ~HasKanjiChar(Turned.surface) => Shown(New) = Utf8(Turned.surface)]_vars

\* Texts whose number of morae nobody disputes: no character is cut into
\* pieces, and there is no long vowel mark, which the comment of splitIntoMora
\* (jumanlrc_lib.cc:239) joins to the character before and the code does not.
Countable(s) == UpToThreeBytes(s) /\ \A i \in DOMAIN s : s[i] # LongVowel

\* splitIntoMora, jumanlrc_lib.cc:242: a word with kanji has one beat for each
\* mora of its reading.  So has another word with as many morae as it is read
\* with, each under its own piece of the word, and a word of katakana that is
\* to be annotated.
BeatsAreMorae ==
  [][Countable(Turned.surface) /\ Countable(Turned.reading) =>
       IF HasKanjiChar(Turned.surface)
       THEN Len(New) - 1 + Len(New[1].readings) = MoraCount(Turned.reading)
       ELSE IF MoraCount(Turned.surface) = MoraCount(Turned.reading)
       THEN Len(New) = MoraCount(Turned.reading)
       ELSE Annotated(Turned) => Len(New[1].readings) = MoraCount(Turned.reading)]_vars

\* node/index.d.ts:26 of RubyUnit.surface, "Surface form (the original
\* character(s) as written)": the units show the text that was analysed.
TextKept ==
  Shown(rubyResult) = Concat([i \in 1 .. at |-> Utf8(result[i].surface)])
=============================================================================
