---------------------------- MODULE NormalizedMaker ----------------------------
(***************************************************************************)
(* CharLattice and NormalizedNodeMaker: dictionary words behind informal   *)
(* spellings.  Parse says which characters of a sentence may be replaced   *)
(* (a prolonged sound mark by the vowel before it, a small kana by a large *)
(* one) or dropped (marks, small tsu and small vowels that only lengthen). *)
(* From every position the words of the dictionary are then looked up      *)
(* through all spellings at once: a set of traversals of the trie, each    *)
(* stepped with the character as it is and with every substitute.          *)
(*                                                                         *)
(* A state collects flags (Modifiers) that tell how the word was changed;  *)
(* ORIGINAL, which every state has, is left out.  Results are sorted by    *)
(* end and entry, and of several ways to the same word the first is kept:  *)
(* the sort does not say which, so that a seed carries all of them.        *)
(***************************************************************************)
EXTENDS NodeCreators, Characters

CONSTANTS
  Prolonged,      \* prolongedMap: character -> the vowel a mark after it stands for
  ProlongedErow,  \* prolongedMapForErow: another vowel, for some of them
  Enlarged,       \* lower2upper
  SmallVowel,     \* lowerMap: character -> the small vowel that lengthens it
  SmallVowels,    \* lowerList
  SmallTsu        \* DEF_PROLONG_SYMBOL3 and 4

\* What may be read for a character is a character.
ASSUME NormalizedAssumption ==
  \A table \in {Prolonged, ProlongedErow, Enlarged} :
    \A c \in DOMAIN table : table[c] \in DOMAIN Bytes

IsChoon(s, k) == k > 1 /\ Has(s[k], {"CHOON"})

Change(char, flags) == [char |-> char, flags |-> flags]

\* The characters Parse adds as substitutes for s[k].
Substitutes(s, k) ==
  IF ~Has(s[k], DOUBLE) THEN {}
  ELSE IF IsChoon(s, k) /\ s[k - 1] \in DOMAIN Prolonged
  THEN {Change(Prolonged[s[k - 1]], {"REPLACE", "REPLACE_PROLONG"})}
       \cup {Change(ProlongedErow[c], {"REPLACE", "REPLACE_PROLONG", "REPLACE_EROW_WITH_E"}) :
               c \in {s[k - 1]} \cap DOMAIN ProlongedErow}
  ELSE {Change(Enlarged[c], {"REPLACE", "REPLACE_SMALLKANA"}) : c \in {s[k]} \cap DOMAIN Enlarged}

\* Characters that end a word: a small tsu before one is only emphasis.
alwaysDeleteFor ==
  {"SPACE", "IDEOGRAPHIC_PUNC", "FIGURE", "PERIOD", "MIDDLE_DOT", "ALPH", "SYMBOL",
   "BRACKET", "SLASH", "COLON", "COMMA"}

IsRemovableProlong(s, k, preIsDeleted) ==
  IsChoon(s, k) /\ (preIsDeleted \/ Has(s[k - 1], PROLONGABLE))
CheckRemovableHatsuon(s, k, preIsDeleted) ==
  /\ k > 1 /\ s[k] \in SmallTsu
  /\ \/ preIsDeleted \/ k = Len(s)
     \/ Has(s[k + 1], alwaysDeleteFor) \/ s[k] = s[k + 1]
     \/ Classes[s[k - 1]] \cap Classes[s[k]] \cap Classes[s[k + 1]] \cap FULL_KANA # {}
CheckRemovableYouon(s, k, preIsDeleted) ==
  /\ k > 1
  /\ \/ s[k - 1] \in DOMAIN SmallVowel /\ SmallVowel[s[k - 1]] = s[k]
     \/ preIsDeleted /\ s[k] \in SmallVowels /\ s[k] = s[k - 1]

\* Which characters may be dropped, and why, by the first check that says so;
\* after a dropped one more may be.
Deletions(s) ==
  LET why[k \in 0 .. Len(s)] ==
        IF k = 0 \/ ~Has(s[k], DOUBLE) THEN {}
        ELSE LET pre == why[k - 1] # {}
             IN CASE IsRemovableProlong(s, k, pre) -> {"DELETE", "DELETE_PROLONG"}
                  [] CheckRemovableHatsuon(s, k, pre) -> {"DELETE", "DELETE_HASTSUON"}
                  [] CheckRemovableYouon(s, k, pre) -> {"DELETE", "DELETE_SMALLKANA"}
                  [] OTHER -> {}
  IN why

\* tryWalk: the states a state has after the character at k.  A dropped
\* character moves nothing and keeps the status of the step before.
Walk(state, change) ==
  [at |-> Step(state.at, change.char).at, status |-> Step(state.at, change.char).status,
   flags |-> state.flags \cup change.flags, dropped |-> FALSE]
DroppedLosesStatus(state, flags) ==
  [state EXCEPT !.flags = @ \cup flags, !.dropped = TRUE, !.status = "NoLeaf"]
Dropped(state, flags) == [state EXCEPT !.flags = @ \cup flags, !.dropped = TRUE]
TryWalk(s, k, state) ==
  LET flags == Deletions(s)[k]
  IN {st \in {Walk(state, c) : c \in {Change(s[k], {})} \cup Substitutes(s, k)}
            \cup (IF flags = {} THEN {} ELSE {Dropped(state, flags)}) :
        st.status # "NoNode"}

\* lookupCandidatesFrom: the states after s[i] .. s[j].  The first character
\* is only tried as it is.
States(s, i, j) ==
  LET first == Walk([at |-> <<>>, flags |-> {}], Change(s[i], {}))
      after[k \in i .. j] ==
        IF k = i THEN {first} \ {st \in {first} : st.status = "NoNode"}
        ELSE UNION {TryWalk(s, k, state) : state \in after[k - 1]}
  IN after[j]

\* The words found are proposed once each, in the order of their entries; the
\* flags of one of the ways to them are what their nodes keep as placeholder.
Found(s, i, j) ==
  {state \in States(s, i, j) : j > i /\ state.flags # {} /\ state.status = "Ok"}
FlagsOf(state) == state.flags \cup (IF state.dropped THEN {"DELETE_LAST"} ELSE {})
NormalizedSeeds(s) ==
  LET at(i, j) ==
        LET found == Found(s, i, j)
            words == SetToSeq({w \in DOMAIN Dictionary : \E st \in found : st.at = Spelling(w)})
            ways(w) == {FlagsOf(st) : st \in {x \in found : x.at = Spelling(w)}}
        IN FlattenSeq([k \in DOMAIN words |->
             [e \in 1 .. Dictionary[words[k]] |->
                Seed(<<"normalized", words[k], e, ways(words[k])>>, i, j)]])
  IN Collect(s, at)
=============================================================================
