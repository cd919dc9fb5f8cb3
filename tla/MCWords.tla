------------------------------- MODULE MCWords -------------------------------
(***************************************************************************)
(* Small dictionaries for Words: a surface, a part of speech, a reading    *)
(* that shares the storage of surfaces, and a list of one kind or both.    *)
(* The first row is the pattern of a creator, and a second creator         *)
(* respells words.  One string holds a comma and a quote.                  *)
(***************************************************************************)
EXTENDS Words

a == <<1>>
ab == <<1, Quote, Comma>>
b == <<2>>
noun == <<3>>
verb == <<5>>
star == <<7>>

Field(column, kind, key, ignore, storage, align) ==
  [column |-> column, kind |-> kind, key |-> key, ignore |-> ignore,
   storage |-> storage, align |-> align]
\* Like the dictionary of JumanDIC: what is a feature tells entries apart.
Untrained ==
  [fields |-> <<Field(1, "string", TRUE, <<>>, 1, 1), Field(2, "string", FALSE, star, 2, 0),
                Field(3, "string", FALSE, star, 1, 1), Field(4, "kvlist", FALSE, star, 4, 0)>>,
   named |-> {1, 2},
   matches |-> <<[kind |-> "list", of |-> <<4>>, data |-> {a}],
                 [kind |-> "csv", of |-> <<2>>, data |-> {<<verb>>}]>>,
   training |-> {}, weightless |-> {},
   unks |-> <<[row |-> 1, outputs |-> {1}, normalizes |-> FALSE],
              [row |-> 1, outputs |-> {1}, normalizes |-> TRUE]>>]
\* With a weight on the surface alone, columns in another order behind the key,
\* a plain list trained with no weight and a feature that no one names.
Trained ==
  [fields |-> <<Field(1, "string", TRUE, <<>>, 1, 0), Field(4, "list", FALSE, star, 1, 0),
                Field(2, "string", FALSE, star, 3, 2)>>,
   named |-> {1, 3}, matches |-> <<>>, training |-> {1, 2}, weightless |-> {2},
   unks |-> <<[row |-> 2, outputs |-> {1, 3}, normalizes |-> FALSE]>>]
\* Weights on a field that is only data: refused.
Refused == [Trained EXCEPT !.weightless = {}]

Join(texts, separator) ==
  FoldLeft(LAMBDA joined, text : IF joined = <<>> THEN text ELSE joined \o separator \o text,
           <<>>, texts)
List(texts) == Join(texts, <<Space>>)
With(key, value) == Join(<<key, value>>, <<Colon>>)

nb == <<a, noun, b, List(<<With(b, a), a>>)>>
nab == <<a, noun, ab, a>>
va == <<a, verb, <<>>, a>>
vb == <<b, verb, star, star>>
pattern == <<a, noun, star, With(b, b)>>
lb == <<a, noun, b, List(<<b, a>>)>>
lab == <<a, <<>>, ab, star>>
lbb == <<b, verb, b, List(<<a, a>>)>>
listPattern == <<a, noun, star, ab>>
short == <<a, noun>>
unused == <<a, noun, b, a, <<>>>>

\* How a field and rows of fields may be written (csv_reader.h:18): quotes
\* where they are needed or everywhere, and a line end after the last row or
\* none.
Written(field, quoted) ==
  IF quoted \/ \E k \in DOMAIN field : field[k] \in {Comma, Quote, LineFeed}
  THEN <<Quote>> \o FlattenSeq([k \in DOMAIN field |->
                      IF field[k] = Quote THEN <<Quote, Quote>> ELSE <<field[k]>>]) \o <<Quote>>
  ELSE field
WrittenRow(row, quoted) ==
  FlattenSeq([k \in DOMAIN row |->
    (IF k = 1 THEN <<>> ELSE <<Comma>>) \o Written(row[k], quoted)])
Input(spec_, rows_, quoted, lineEnd, last) ==
  [spec |-> spec_, rows |-> rows_,
   csv |-> Join([r \in DOMAIN rows_ |-> WrittenRow(rows_[r], quoted)], lineEnd) \o last]

LF == <<LineFeed>>
CRLF == <<Return, LineFeed>>
\* A line that cannot be read, and what is behind it, are not in the dictionary.
StrayQuote == LF \o <<1, Quote>> \o LF \o <<2, 2>> \o LF
MCInputs ==
  {Input(Untrained, <<pattern, nb, nab, va>>, FALSE, CRLF, CRLF),
   Input(Untrained, <<pattern, nb, vb, nb>>, FALSE, LF, <<>>),
   Input(Untrained, <<pattern, nab>>, FALSE, LF, StrayQuote),
   Input(Untrained, <<pattern, short>>, FALSE, LF, LF)}
  \cup {Input(Trained, <<row, listPattern, lb>>, TRUE, LF \o <<Return>>, <<>>) : row \in {lbb, lab}}
  \cup {Input(Refused, <<listPattern>>, FALSE, LF, LF)}
ASSUME InputsFitAssumption == \A i \in MCInputs : Fits(i)
\* A last field that is empty, and no line end behind it.
UnfinishedInputs == {Input(Untrained, <<pattern, unused>>, FALSE, LF, <<>>)}
MCSurfaces == {<<4>>}
MCRequests == {[size |-> 3, align |-> 2], [size |-> 11, align |-> 1]}
MCGarbage == {2}
=============================================================================
