----------------------------- MODULE NumericMaker -----------------------------
(***************************************************************************)
(* NumericUnkMaker: at every position the longest number is proposed.  A   *)
(* number is a run of digits with what the code lets stand in it: prefixes *)
(* ("how many"), fractions, units, commas and decimal points.              *)
(*                                                                         *)
(* checkPeriod compares the position inside the number with the length of  *)
(* the sentence, so for a number that does not begin the sentence it also  *)
(* looks at the code point behind the last one.  What stands there is not  *)
(* part of the sentence: "behind" says whether it has a digit's class.     *)
(***************************************************************************)
EXTENDS NodeCreators, Characters

CONSTANTS
  NumberPrefixes, NumberInterfixes, NumberSuffixes,   \* the patterns of NumericData
  Figures,            \* dictionary words with an entry the digits pattern matches
  MaxNumericLength    \* 64 in the code

\* The patterns are words without a comma or a decimal point.
ASSUME NumericAssumption ==
  /\ MaxNumericLength \in Nat
  /\ \A w \in NumberPrefixes \cup NumberInterfixes \cup NumberSuffixes :
       /\ w \in Seq(DOMAIN Bytes) \ {<<>>}
       /\ \A k \in DOMAIN w : ~Has(w[k], NUM_PERIOD \cup {"COMMA"})

Written(s, k, w) == k + Len(w) - 1 <= Len(s) /\ SubSeq(s, k, k + Len(w) - 1) = w
Longest(lengths) == Max({0} \cup lengths)

\* The checks give the number of characters the number that starts at i may
\* go on with at k, 0 if none.
CheckSuffix(s, i, k) ==
  Longest({Len(w) : w \in {v \in NumberSuffixes :
             k > i /\ Has(s[k - 1], EXCEPTION) /\ Written(s, k, v)}})

CheckPrefix(s, i, k) ==
  LET suffix(w) == CheckSuffix(s, i, k + Len(w)) IN
  Longest({Len(w) + suffix(w) : w \in {v \in NumberPrefixes :
             /\ Written(s, k, v) /\ k + Len(v) <= Len(s)
             /\ Has(s[k + Len(v)], {"FIGURE_DIGIT"}) \/ suffix(v) > 0}})

CheckInterfix(s, i, k) ==
  Longest({Len(w) : w \in {v \in NumberInterfixes :
             /\ k > i /\ Has(s[k - 1], DIGITS)
             /\ k + Len(v) <= Len(s) /\ Has(s[k + Len(v)], DIGITS)
             /\ Written(s, k, v)}})

\* A comma stands before exactly three figures.
FiguresFrom(s, k) == {m \in 0 .. Len(s) + 1 - k : \A l \in k .. k + m - 1 : Has(s[l], {"FIGURE"})}
CheckComma(s, i, k) ==
  IF k > i /\ Has(s[k], {"COMMA"}) /\ Max(FiguresFrom(s, k + 1)) = 3 THEN 1 ELSE 0

CheckPeriodAnywhere(s, i, k, behind) ==
  IF k > i /\ Has(s[k], NUM_PERIOD) /\ Has(s[k - 1], DIGITS) THEN 1 ELSE 0
CheckPeriod(s, i, k, behind) ==
  IF /\ k > i /\ Has(s[k], NUM_PERIOD) /\ Has(s[k - 1], DIGITS)
     /\ k - i + 1 < Len(s)
     /\ IF k = Len(s) THEN behind ELSE Has(s[k + 1], DIGITS)
  THEN 1 ELSE 0

CheckExceptionalChars(s, i, k, behind) ==
  LET checks == <<CheckPrefix(s, i, k), CheckInterfix(s, i, k), CheckSuffix(s, i, k),
                  CheckComma(s, i, k), CheckPeriod(s, i, k, behind)>>
      found == {c \in DOMAIN checks : checks[c] > 0}
  IN IF found = {} THEN 0 ELSE checks[Min(found)]

\* The position behind the longest number that starts at i; i if there is none.
FindLongestNumber(s, i, behind) ==
  LET go[k \in i .. Len(s) + 1] ==
        IF k > Len(s) \/ k - i > MaxNumericLength THEN k
        ELSE IF Has(s[k], DIGITS) THEN go[k + 1]
        ELSE LET more == CheckExceptionalChars(s, i, k, behind)
             IN IF more = 0 THEN k ELSE go[k + more]
  IN go[i]

\* Unlike the onomatopoeia maker, this one remembers a step that failed.
NumericSeeds(s, behind) ==
  LET at(i, j) ==
        LET t == Traversal(s, i) IN
        CASE j + 1 # FindLongestNumber(s, i, behind) -> <<>>
          [] j + 1 = FindLongestNumber(s, i, behind) /\ Lost(t, i, j) ->
               <<Seed(<<"number", "notPrefix">>, i, j)>>
          [] j + 1 = FindLongestNumber(s, i, behind) /\ ~Lost(t, i, j)
               /\ SubSeq(s, i, j) \notin Figures -> <<Seed(<<"number", "prefix">>, i, j)>>
          [] OTHER -> <<>>
  IN Collect(s, at)
=============================================================================
