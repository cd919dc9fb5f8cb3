--------------------------- MODULE MCLatticeBuilder --------------------------
(***************************************************************************)
(* LatticeBuilder with any sets of seeds: an input is a number of code     *)
(* points with the words that each of two node creators spawns, which      *)
(* append them from the end of the sentence to its beginning.              *)
(***************************************************************************)
EXTENDS LatticeBuilder

CONSTANTS
  MaxSize,     \* bound: the code points of a sentence
  MaxWords     \* bound: the words a creator spawns

Word(from, to) == [entry |-> "word", from |-> from, to |-> to]
Homograph == [entry |-> "homograph", from |-> 0, to |-> 1]
AllWords == <<Word(2, 3), Word(1, 3), Word(1, 2), Homograph, Word(0, 3), Word(0, 2), Word(0, 1)>>

\* The sequences of at most MaxWords words of a sentence of k code points.
WordLists(k) ==
  {SelectSeq(AllWords, LAMBDA w : w \in S) :
     S \in {T \in SUBSET {AllWords[i] : i \in DOMAIN AllWords} :
              Cardinality(T) <= MaxWords /\ \A w \in T : w.to <= k}}

MCRefused == {<<"refused">>}
MCInputs == MCRefused \cup UNION {{k} \X WordLists(k) \X WordLists(k) : k \in 0 .. MaxSize}
MCSize == [s \in MCInputs \ MCRefused |-> s[1]]
MCSpawned == [s \in MCInputs \ MCRefused |-> [dic |-> s[2], unk |-> s[3]]]
MCStage1 == <<"dic">>
MCStage2 == <<"unk">>
=============================================================================
