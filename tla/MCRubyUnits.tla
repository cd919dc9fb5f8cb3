---------------------------- MODULE MCRubyUnits ----------------------------
(***************************************************************************)
(* Dictionary words of up to three characters with every hiragana reading  *)
(* of up to three, and unknown words, whose reading is their surface.  K   *)
(* is a kanji, V a variation selector, which the code takes for one; h and *)
(* m are hiragana, y a small yoon, H and M the katakana of h and m, c the  *)
(* long vowel mark, e an emoji of four bytes, x and g letters of one and   *)
(* two bytes.                                                              *)
(***************************************************************************)
EXTENDS RubyUnits

MCWidth ==
  [K |-> 3, V |-> 4, h |-> 3, m |-> 3, y |-> 3, H |-> 3, M |-> 3, c |-> 3, e |-> 4, x |-> 1, g |-> 2]

UpTo(n, cs) == UNION {[1 .. k -> cs] : k \in 1 .. n}
WordsOf(surfaces, readings) == [surface : surfaces, reading : readings]
Unknown(surfaces) == {[surface |-> s, reading |-> s] : s \in surfaces}

DicWords ==
  WordsOf(UpTo(3, {"K", "h", "y", "H"})
            \cup {<<"V">>, <<"K", "V">>, <<"K", "V", "h">>, <<"g", "K", "x">>, <<"x", "H">>},
          UpTo(3, {"h", "m", "y"}))
UnknownWords ==
  Unknown({<<"e">>, <<"x">>, <<"x", "g">>, <<"K">>, <<"K", "K">>, <<"V">>} \cup UpTo(3, {"H", "c"}))

\* A word whose okurigana is katakana and one with a yoon, followed by others.
FewWords ==
  WordsOf({<<"K", "h">>, <<"K", "M">>, <<"K", "h", "y">>}, UpTo(3, {"h", "m", "y"}))
  \cup Unknown({<<"e">>, <<"H">>, <<"H", "c">>})

MCTexts == {<<w>> : w \in DicWords \cup UnknownWords} \cup FewWords \X FewWords

\* Words read as they are written: the okurigana in hiragana, in katakana
\* (as in "keshigomu", an eraser) and with a yoon.
ReadAsWritten ==
  {[surface |-> <<"K", "h">>, reading |-> <<"m", "h">>],
   [surface |-> <<"K", "M">>, reading |-> <<"h", "m">>],
   [surface |-> <<"K", "h", "y">>, reading |-> <<"m", "h", "y">>]}
  \cup Unknown({<<"e">>, <<"H">>, <<"H", "c">>})
PlainTexts == {<<w>> : w \in ReadAsWritten} \cup ReadAsWritten \X ReadAsWritten
=============================================================================
