------------------------------ MODULE Characters ------------------------------
(***************************************************************************)
(* characters.cc: UTF-8 decoding as preprocessRawData does it, and the     *)
(* classes getCodeType gives a code point.  A byte and a code point are    *)
(* numbers; a class is named as in CharacterClass, a family is the set of  *)
(* its classes.                                                            *)
(***************************************************************************)
EXTENDS Naturals, Sequences

\* Classes a code point is in because of the range or the set it lies in, in
\* the order of the tests: the first that holds decides.
SPACES == {32, 160, 5760, 6158, 8239, 8287, 12288, 65279} \cup 8192 .. 8203
CHOONS == {12540, 12316, 65374, 8764}
lowercase ==
  {12353, 12355, 12357, 12359, 12361, 12387, 12419, 12421, 12423, 12430, 12437, 12438}
SmallKana(code) == IF code \in lowercase \cup {k + 96 : k \in lowercase} THEN {"SMALL_KANA"} ELSE {}
KANJI_FIGURES ==
  {9675, 12295, 38646, 19968, 20108, 19977, 22235, 20116, 20845, 19971, 20843, 20061}
DIGITS_BY_NAME == {21313, 30334, 21315, 19975, 20740, 20806}
FIGURE_EXCEPTIONS == {25968, 20309, 24190}
ALPHABETS ==
  64 .. 91 \cup 96 .. 123 \cup 191 .. 256 \cup 65312 .. 65339 \cup 65344 .. 65371
  \cup 880 .. 1023 \cup 1024 .. 1279

\* The brackets, of which those in ALPHABETS are letters: the first test wins.
brackets ==
  {40, 41, 91, 93, 123, 125} \cup 3898 .. 3901 \cup 5787 .. 5788 \cup 8261 .. 8262
  \cup 8317 .. 8318 \cup 8333 .. 8334 \cup 8968 .. 8971 \cup 9001 .. 9002
  \cup 10088 .. 10101 \cup 10181 .. 10182 \cup 10214 .. 10223 \cup 10627 .. 10648
  \cup 10712 .. 10715 \cup 10748 .. 10749 \cup 11810 .. 11817 \cup 12296 .. 12305
  \cup 12308 .. 12315 \cup 65113 .. 65118
  \cup {65288, 65289, 65339, 65341, 65371, 65373, 65375, 65376, 65378, 65379}

CodeType(code) ==
  CASE code \in SPACES -> {"SPACE"}
    [] code \in 12289 .. 12290 -> {"IDEOGRAPHIC_PUNC"}
    [] code \in 13179 .. 13182 -> {"SYMBOL", "ERA"}
    [] code \in 12352 .. 12447 -> {"HIRAGANA"} \cup SmallKana(code)
    [] code \in 12448 .. 12538 \cup 12541 .. 12543 -> {"KATAKANA"} \cup SmallKana(code)
    [] code \in CHOONS -> {"HIRAGANA", "KATAKANA", "CHOON"}
    [] code = 65392 -> {"HANKAKU_KANA", "CHOON"}
    [] code \in 65382 .. 65439 \ {65392} -> {"HANKAKU_KANA"}
    [] code \in {183, 12539} -> {"MIDDLE_DOT"}
    [] code \in {44, 65292} -> {"COMMA"}
    [] code \in {47, 65295} -> {"SLASH"}
    [] code \in {58, 65306} -> {"COLON"}
    [] code = 65294 -> {"PERIOD"}
    [] code \in 48 .. 57 \cup 65296 .. 65305 -> {"FIGURE"}
    [] code \in KANJI_FIGURES -> {"KANJI_FIGURE", "KANJI"}
    [] code \in FIGURE_EXCEPTIONS -> {"FIGURE_EXCEPTION", "KANJI"}
    [] code \in DIGITS_BY_NAME -> {"KANJI_FIGURE", "FIGURE_DIGIT"}
    [] code \in ALPHABETS -> {"ALPH"}
    [] /\ code \in 19968 .. 40959 \/ code = 12293
       /\ code \notin KANJI_FIGURES \cup FIGURE_EXCEPTIONS \cup DIGITS_BY_NAME -> {"KANJI"}
    [] code \in brackets \ ALPHABETS -> {"BRACKET"}
    [] OTHER -> {"SYMBOL"}

ANYTHING ==
  {"SPACE", "IDEOGRAPHIC_PUNC", "KANJI", "FIGURE", "PERIOD", "MIDDLE_DOT", "COMMA", "ALPH",
   "SYMBOL", "KATAKANA", "HIRAGANA", "KANJI_FIGURE", "SLASH", "COLON", "ERA", "CHOON",
   "HANKAKU_KANA", "BRACKET", "FIGURE_EXCEPTION", "FIGURE_DIGIT", "SMALL_KANA"}
KANJI == {"KANJI", "KANJI_FIGURE"}
KANA == {"KATAKANA", "HIRAGANA", "HANKAKU_KANA", "SMALL_KANA"}
FULL_KANA == {"HIRAGANA", "KATAKANA"}
PROLONGABLE == {"KANJI"} \cup FULL_KANA
DOUBLE == KANA \cup {"KANJI", "CHOON"}
DIGITS == {"FIGURE", "KANJI_FIGURE", "FIGURE_DIGIT"}
EXCEPTION == {"FIGURE", "KANJI_FIGURE", "FIGURE_EXCEPTION"}
NUM_PERIOD == {"PERIOD", "MIDDLE_DOT"}
-----------------------------------------------------------------------------
\* How many bytes the first one announces, and the bits it contributes.
Announced(byte) == CASE byte > 239 -> 4 [] byte \in 224 .. 239 -> 3
                     [] byte \in 128 .. 223 -> 2 [] OTHER -> 1
HeadBits(byte) == CASE byte \in 240 .. 247 -> {byte - 240} [] byte \in 224 .. 239 -> {byte - 224}
                    [] byte \in 192 .. 223 -> {byte - 192} [] byte < 128 -> {byte}
                    [] OTHER -> {}

\* getCodepoint at position i: the code point and its length, which is 0 if
\* no valid sequence starts there.
Codepoint(bytes, i) ==
  LET len == Announced(bytes[i])
      bits[k \in 1 .. len] ==
        IF k = 1 THEN CHOOSE b \in HeadBits(bytes[i]) : TRUE
        ELSE bits[k - 1] * 64 + (bytes[i + k - 1] - 128)
  IN IF /\ HeadBits(bytes[i]) # {}
        /\ i + len - 1 <= Len(bytes)
        /\ \A k \in 1 .. len - 1 : bytes[i + k] \in 128 .. 191
     THEN [codepoint |-> bits[len], utf8Length |-> len]
     ELSE [codepoint |-> 0, utf8Length |-> 0]

\* preprocessRawData: the code points with their bytes, or Invalid.
Invalid == <<[codepoint |-> 0, bytes |-> <<>>]>>
Preprocess(bytes) ==
  LET from[i \in 1 .. Len(bytes) + 1] ==
        IF i > Len(bytes) THEN <<>>
        ELSE LET c == Codepoint(bytes, i)
                 rest == from[i + c.utf8Length]
                 first == [codepoint |-> c.codepoint,
                           bytes |-> SubSeq(bytes, i, i + c.utf8Length - 1)]
             IN IF c.utf8Length = 0 \/ rest = Invalid THEN Invalid ELSE <<first>> \o rest
  IN from[1]
=============================================================================
