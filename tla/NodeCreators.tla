----------------------------- MODULE NodeCreators ----------------------------
(***************************************************************************)
(* The node creators: which words of a sentence the dictionary and the     *)
(* makers of unknown words propose.  They ask the trie of the dictionary   *)
(* one code point at a time; a code point is several bytes, and a step     *)
(* that fails leaves the traversal after the bytes that still matched.     *)
(*                                                                         *)
(* A sentence is a sequence of characters; a seed is a word with the code  *)
(* point offsets it starts and ends at.  A word the dictionary holds is    *)
(* named by the characters it is written with.                             *)
(***************************************************************************)
EXTENDS Integers, Sequences, FiniteSets, SequencesExt

CONSTANTS
  Bytes,       \* character -> its UTF-8 bytes
  Classes,     \* character -> the classes getCodeType gives it
  Dictionary   \* written word -> how many entries the dictionary has for it

\* A character is at least one byte, and no other character is the same bytes;
\* a word that is in the dictionary has entries there.
ASSUME DictionaryAssumption ==
  /\ \A c \in DOMAIN Bytes : Bytes[c] \in Seq(0 .. 255) \ {<<>>}
  /\ \A c, d \in DOMAIN Bytes : Bytes[c] = Bytes[d] => c = d
  /\ IsFiniteSet(DOMAIN Dictionary)
  /\ \A w \in DOMAIN Dictionary : w \in Seq(DOMAIN Bytes) /\ Dictionary[w] \in Nat \ {0}

Spelling(w) == FlattenSeq([i \in DOMAIN w |-> Bytes[w[i]]])
Leaves == {Spelling(w) : w \in DOMAIN Dictionary}
Trie == {<<>>} \cup UNION {{SubSeq(k, 1, i) : i \in 1 .. Len(k)} : k \in Leaves}

\* DoubleArrayTraversal.step: the traversal stands at the bytes "at" of the
\* trie.  At the first byte without a transition it stops where it is.
Step(at, c) ==
  LET matched == {i \in 0 .. Len(Bytes[c]) : at \o SubSeq(Bytes[c], 1, i) \in Trie}
      upTo == CHOOSE i \in matched : \A j \in matched : j <= i
      to == at \o SubSeq(Bytes[c], 1, upTo)
  IN [at |-> to,
      status |-> CASE upTo < Len(Bytes[c]) -> "NoNode"
                   [] upTo = Len(Bytes[c]) /\ to \in Leaves -> "Ok"
                   [] OTHER -> "NoLeaf"]

\* The statuses of the steps over s[i], s[i + 1], ... from the root.
Traversal(s, i) ==
  LET after[j \in i - 1 .. Len(s)] ==
        IF j < i THEN [at |-> <<>>, status |-> "NoLeaf"] ELSE Step(after[j - 1].at, s[j])
  IN [j \in i .. Len(s) |-> after[j].status]

Has(c, class) == Classes[c] \cap class # {}
Seed(entry, i, j) == [entry |-> entry, from |-> i - 1, to |-> j]

\* The seeds of all words s[i] .. s[j], by i and then by j.
Collect(s, SeedsAt(_, _)) ==
  FlattenSeq([i \in 1 .. Len(s) |->
    FlattenSeq([k \in 1 .. Len(s) + 1 - i |-> SeedsAt(i, i + k - 1)])])

\* Before position j of a loop over the traversal that stops at NoNode.
Lost(t, i, j) == \E k \in i .. j : t[k] = "NoNode"

DicSeeds(s) ==
  LET at(i, j) ==
        LET t == Traversal(s, i) IN
        IF Lost(t, i, j) \/ t[j] # "Ok" THEN <<>>
        ELSE LET w == SubSeq(s, i, j)
             IN [e \in 1 .. Dictionary[w] |-> Seed(<<"dic", w, e>>, i, j)]
  IN Collect(s, at)

\* ChunkingUnkMaker: a run of characters of one class; once the trie is left
\* every longer word is new to it, before that the words it does not hold.
ChunkingSeedsLeafToo(s, class) ==
  LET at(i, j) ==
        LET t == Traversal(s, i) IN
        IF \E k \in i .. j : ~Has(s[k], class) THEN <<>>
        ELSE CASE Lost(t, i, j) -> <<Seed(<<"chunk", class, "notPrefix">>, i, j)>>
               [] OTHER -> <<Seed(<<"chunk", class, "prefix">>, i, j)>>
  IN Collect(s, at)
ChunkingSeeds(s, class) ==
  LET at(i, j) ==
        LET t == Traversal(s, i) IN
        IF \E k \in i .. j : ~Has(s[k], class) THEN <<>>
        ELSE CASE Lost(t, i, j) -> <<Seed(<<"chunk", class, "notPrefix">>, i, j)>>
               [] ~Lost(t, i, j) /\ t[j] = "NoLeaf" -> <<Seed(<<"chunk", class, "prefix">>, i, j)>>
               [] OTHER -> <<>>
  IN Collect(s, at)

\* SingleUnkMaker: one character of the class that is no word itself.
SingleSeedsOnlyNew(s, class) ==
  LET at(i, j) ==
        LET status == Step(<<>>, s[i]).status IN
        IF j > i \/ ~Has(s[i], class) \/ status # "NoNode" THEN <<>>
        ELSE <<Seed(<<"single", class, "notPrefix">>, i, j)>>
  IN Collect(s, at)
SingleSeeds(s, class) ==
  LET at(i, j) ==
        LET status == Step(<<>>, s[i]).status IN
        IF j > i \/ ~Has(s[i], class) \/ status = "Ok" THEN <<>>
        ELSE <<Seed(<<"single", class, IF status = "NoNode" THEN "notPrefix" ELSE "prefix">>, i, j)>>
  IN Collect(s, at)

\* OnomatopoeiaUnkMaker: a part of two to four characters said twice.  The
\* search needs five characters from s[i] on, and stops at a second
\* part that does not begin with a character of the first one's class.
Repeats(s, i, half) ==
  /\ i + 2 * half - 1 <= Len(s)
  /\ \A h \in 2 .. half : Has(s[i + h], Classes[s[i]])
  /\ \A k \in 0 .. half - 1 : s[i + k] = s[i + half + k]
Patterns(s, i, class) ==
  IF i + 4 > Len(s) \/ ~Has(s[i], class) \/ ~Has(s[i + 1], Classes[s[i]]) THEN {}
  ELSE {half \in 2 .. 4 : Repeats(s, i, half)}

\* Its traversal goes on after a step that failed.
OnomatopoeiaSeeds(s, class) ==
  LET at(i, j) ==
        LET half == (j - i + 1) \div 2
            status == Traversal(s, i)[j] IN
        IF (j - i + 1) % 2 = 1 \/ half \notin Patterns(s, i, class) \/ status = "Ok" THEN <<>>
        ELSE <<Seed(<<"onomatopoeia", class,
                      IF status = "NoNode" THEN "notPrefix" ELSE "prefix">>, i, j)>>
  IN Collect(s, at)
=============================================================================
