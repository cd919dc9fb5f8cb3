---------------------------- MODULE MCNgramScores ----------------------------
(***************************************************************************)
(* Small lattices and feature sets for NgramScores: homographs and words   *)
(* that cross, a node no chain reaches, a boundary where nothing starts;   *)
(* more bigrams than trigrams and the other way round; a pattern that only *)
(* unigrams use declared first, and features of every kind.                *)
(***************************************************************************)
EXTENDS NgramScores

MCLattices ==
  {[n |-> 0, nodes |-> <<>>],
   [n |-> 2, nodes |-> (2 :> <<3, 3, 4>> @@ 3 :> <<4>>)],
   [n |-> 2, nodes |-> (2 :> <<4>> @@ 3 :> <<4, 4>>)],
   [n |-> 2, nodes |-> (2 :> <<4, 4>> @@ 3 :> <<>>)],
   [n |-> 3, nodes |-> (2 :> <<3, 4>> @@ 3 :> <<4>> @@ 4 :> <<5, 5>>)]}

F(name, kind, at) == [name |-> name, kind |-> kind, at |-> at, shift |-> 0, yes |-> <<>>, no |-> <<>>]
MCSpecs ==
  <<[ngrams |-> <<<<<<"length", "given">>>>, <<<<"verb">>>>, <<<<"verb">>, <<"pos", "next">>>>,
                  <<<<"pos", "next">>, <<"verb">>>>, <<<<"verb">>, <<"pos", "next">>, <<"verb">>>>>>,
     features |-> <<F("length", "size", 0), F("given", "provided", 1),
                    [name |-> "verb", kind |-> "bit", at |-> 3, shift |-> 1,
                     yes |-> <<"pos", "surface">>, no |-> <<"pos">>],
                    F("pos", "copy", 2), F("surface", "copy", 1), F("next", "codepoint", 1)>>],
    [ngrams |-> <<<<<<"class", "prev">>>>, <<<<"pos">>, <<"kind">>, <<"kind">>>>, <<<<"kind">>, <<"kind">>>>,
                  <<<<"kind">>>>, <<<<"kind">>, <<"pos">>, <<"pos">>>>>>,
     features |-> <<F("class", "class", 0), F("prev", "codepoint", -1), F("pos", "copy", 2),
                    [name |-> "kind", kind |-> "class", at |-> 1, shift |-> 0,
                     yes |-> <<"surface">>, no |-> <<"pos", "length">>],
                    F("surface", "copy", 1), F("length", "size", 0)>>]>>

MCText == <<[code |-> 5, class |-> 1], [code |-> 7, class |-> 6], [code |-> 6, class |-> 2]>>
\* Surface, part of speech and flags; what is not in the dictionary is negative.
MCEntry(v) == <<IF v[2] = 2 THEN -v[1] ELSE v[1], v[2], IF v[2] = 3 THEN 1 ELSE 2 * (v[1] % 2)>>
MCGiven(v) == <<IF v[2] = 2 THEN v[1] - 3 ELSE 0>>
=============================================================================
