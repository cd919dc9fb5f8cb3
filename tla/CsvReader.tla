-------------------------------- MODULE CsvReader -----------------------------
(***************************************************************************)
(* util::CsvReader.  A text is a sequence of bytes, a position in it counts *)
(* from 1.  A field in quotes may hold anything, with each quote doubled;   *)
(* a quote elsewhere is an error, and so is what follows a closing one.     *)
(***************************************************************************)
EXTENDS Integers, Sequences, FiniteSets

LineFeed == 10
Return == 13
Quote == 34
EscapedLimit == 16 * 1024  \* a page of temp_, where fields lose their escapes

\* handleQuote: where the field that starts at from ends, at a quote that is
\* not doubled, or behind the text.
ClosingQuote(text, from) ==
  LET close[p \in from .. Len(text) + 1] ==
        CASE p > Len(text) -> p
          [] p <= Len(text) /\ text[p] # Quote -> close[p + 1]
          [] p < Len(text) /\ text[p] = Quote /\ text[p + 1] = Quote -> close[p + 2]
          [] OTHER -> p
  IN close[from]
\* unescapeString: of the quotes, every second one goes.  The text is only
\* copied if more than the end of the field changes.
Copied(field) == \E p \in 1 .. Len(field) - 2 : field[p] = Quote
Unescape(field) ==
  LET quotes(p) == Cardinality({q \in 1 .. p : field[q] = Quote})
      kept == SelectSeq([p \in DOMAIN field |-> p],
                        LAMBDA p : field[p] # Quote \/ quotes(p) % 2 = 1)
  IN [k \in DOMAIN kept |-> field[kept[k]]]

NotALine == [ok |-> FALSE, fields |-> <<>>, next |-> 0]

\* nextLine: the fields of the line at from, and where the next one starts.
\* At the end of the text an empty field is not emitted, and position_ is only
\* moved if some of the text belongs to the last field.
NextLine(text, from, separator) ==
  LET End(fields, next) == [ok |-> fields # <<>>, fields |-> fields, next |-> next]
      line[p \in from .. Len(text) + 1, start \in from .. Len(text) + 1,
           shouldEmit \in BOOLEAN, fields \in Seq(Seq(Int))] ==
        LET close == ClosingQuote(text, p + 1)
            quoted == SubSeq(text, p + 1, close - 1)
            emitted == IF shouldEmit THEN Append(fields, SubSeq(text, start, p - 1)) ELSE fields
            at(k, c) == k <= Len(text) /\ text[k] = c
        IN CASE p > Len(text) -> IF start = p THEN End(fields, from) ELSE End(emitted, p)
             [] at(p, LineFeed) -> End(emitted, IF at(p + 1, Return) THEN p + 2 ELSE p + 1)
             [] at(p, Return) /\ at(p + 1, LineFeed) -> End(emitted, p + 2)
             [] at(p, separator) -> line[p + 1, p + 1, TRUE, emitted]
             [] at(p, Quote) ->
                  IF \/ p # start \/ close > Len(text)
                     \/ close < Len(text) /\ text[close + 1] \notin {LineFeed, Return, separator}
                     \/ Copied(quoted) /\ Len(quoted) > EscapedLimit
                  THEN NotALine
                  ELSE line[close + 1, start, FALSE, Append(fields, Unescape(quoted))]
             [] OTHER -> line[p + 1, start, shouldEmit, fields]
  IN IF from > Len(text) THEN NotALine ELSE line[from, from, TRUE, <<>>]
=============================================================================
