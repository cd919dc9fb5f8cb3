----------------------------- MODULE MCSentences -----------------------------
(***************************************************************************)
(* JumanDIC's node creators on small sentences.  A and I are the katakana  *)
(* of the unit "kilo"; h, i, e are hiragana (ne, i, e), j a small i and t  *)
(* a small tsu; W is a full-width tilde, which prolongs a sound; K is a    *)
(* kanji, N the kanji "how many", T "ten", F and o the fraction sign; x is *)
(* a letter, Y an arrow, S a space, d a digit, C a comma and P a period.   *)
(***************************************************************************)
EXTENDS JumandicMakers

MCBytes ==
  [A |-> <<227, 130, 173>>, I |-> <<227, 131, 173>>, h |-> <<227, 129, 173>>,
   i |-> <<227, 129, 132>>, e |-> <<227, 129, 136>>, j |-> <<227, 129, 131>>,
   t |-> <<227, 129, 163>>, o |-> <<227, 129, 174>>, W |-> <<239, 189, 158>>,
   K |-> <<230, 188, 162>>, N |-> <<230, 149, 176>>, T |-> <<229, 141, 129>>,
   F |-> <<229, 136, 134>>, x |-> <<120>>, Y |-> <<226, 134, 145>>, S |-> <<32>>,
   d |-> <<53>>, C |-> <<44>>, P |-> <<239, 188, 142>>]
\* Behind a constant of the configuration TLC evaluates a definition at every
\* use, and the definitions that one uses only once: hence the tables.
Types ==
  [c \in DOMAIN MCBytes |-> CodeType(Codepoint(MCBytes[c], 1).codepoint)] @@ <<>>
MCClasses == Types

\* Characters that are words, homographs, words that begin others, a space
\* that is no word but begins one, a repetition, a number, and words some
\* sentences spell in another way.
MCDictionary ==
  (<<"A">> :> 1) @@ (<<"A", "I">> :> 2) @@ (<<"A", "I", "A", "I">> :> 1)
  @@ (<<"K", "h">> :> 1) @@ (<<"K", "K">> :> 1) @@ (<<"S", "A">> :> 1)
  @@ (<<"d", "d">> :> 1) @@ (<<"h", "i">> :> 2) @@ (<<"h", "e", "K">> :> 1) @@ (<<"h">> :> 1)
MCFigures == {<<"d", "d">>}
MCNumberPrefixes == {<<"N">>}
MCNumberInterfixes == {<<"F", "o">>}
MCNumberSuffixes == {<<"A", "I">>}
MCProlonged == ("h" :> "i") @@ ("e" :> "i") @@ ("i" :> "i")
MCProlongedErow == ("h" :> "e") @@ ("e" :> "e")
MCEnlarged == ("j" :> "i")
MCSmallVowel == ("h" :> "j") @@ ("i" :> "j")

Short == UNION {[1 .. k -> {"A", "I", "h", "W", "K", "x", "Y", "S"}] : k \in 0 .. 2}
Repetitions ==
  {<<"A", "I", "A", "I", "K">>, <<"I", "A", "I", "A", "I">>, <<"h", "h", "h", "h", "h">>,
   <<"K", "h", "K", "h", "K">>, <<"A", "I", "h", "A", "I", "h", "Y">>,
   <<"S", "h", "K">>, <<"K", "K", "K">>, <<"S", "A", "h">>, <<"A", "h", "I">>}
\* Numbers with each of the exceptions, and with what looks like one.
Numbers ==
  {<<"d", "d">>, <<"x", "d", "P">>, <<"x", "d", "P", "d">>, <<"d", "C", "d", "d", "d">>,
   <<"d", "C", "d", "d">>, <<"d", "C", "d", "d", "d", "d">>, <<"N", "T">>, <<"N", "A", "I">>,
   <<"d", "F", "o", "d">>, <<"d", "F", "o">>, <<"d", "A", "I", "P", "d">>, <<"T", "A">>,
   <<"d", "d", "d", "T", "d", "d">>, <<"P", "d", "P">>, <<"d", "d", "P", "P", "d">>,
   <<"d", "A", "I", "C", "d", "d", "d">>, <<"d", "d", "d", "d", "P", "d">>,
   <<"d", "d", "d", "d", "C", "d", "d", "d">>}
\* Words spelled with marks, small kana and doubled small kana.
Informal ==
  {<<"h", "W">>, <<"h", "W", "W">>, <<"h", "W", "K">>, <<"h", "j">>, <<"h", "j", "j">>,
   <<"h", "t">>, <<"h", "t", "t", "x">>, <<"h", "t", "i">>, <<"h", "t", "K">>, <<"A", "W", "I">>,
   <<"K", "h", "W", "t">>, <<"j", "W">>, <<"h", "i", "W", "j">>}
\* The tilde begins with a byte no dictionary word has after these.
LostAndFound == {<<"A", "W", "I", "A", "W", "I", "K">>}

Plain(texts) == [text : texts, behind : {FALSE}]
TooLong == {<<"A", "A", "A", "A">>}
MCRefused == Plain(TooLong)
All ==
  Plain(Short \cup Repetitions \cup Numbers \cup Informal \cup TooLong)
  \cup [text : {<<"x", "d", "P">>, <<"P", "d", "P">>}, behind : {TRUE}]
MCInputs == All
WaveInputs == Plain(Repetitions \cup LostAndFound \cup Short \cup TooLong)
MCSize == [s \in Inputs \ Refused |-> Len(s.text)]
Proposals == [s \in Inputs \ Refused |-> SeedsOf(s)] @@ <<>>
MCSpawned == Proposals

\* preprocessRawData finds the characters of each text in its bytes, and finds
\* none if a byte is missing.
ASSUME \A s \in Inputs : s.text # <<>> =>
  LET bytes == Spelling(s.text) IN
  /\ Preprocess(bytes) =
       [k \in DOMAIN s.text |-> [codepoint |-> Codepoint(Bytes[s.text[k]], 1).codepoint,
                                 bytes |-> Bytes[s.text[k]]]]
  /\ Len(Bytes[Last(s.text)]) > 1 => Preprocess(Front(bytes)) = Invalid
=============================================================================
