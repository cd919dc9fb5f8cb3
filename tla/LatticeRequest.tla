---------------------------- MODULE LatticeRequest ---------------------------
(***************************************************************************)
(* What building a lattice promises: a sentence is answered with the       *)
(* lattice of the words stage 1 knows if a chain of them covers the        *)
(* sentence, else with the lattice of the words of both stages if a chain  *)
(* of those does, and else, or if the input is refused, with an error.     *)
(* The answer depends on nothing but the sentence.                         *)
(***************************************************************************)
EXTENDS Lattice

CONSTANTS Inputs, Refused, Size, Stage1, Stage2, Spawned, MaxInputs

VARIABLES
  input,   \* the sentence asked for
  answer,  \* None, Error or an answer with a lattice
  asked    \* sentences asked for so far

vars == <<input, answer, asked>>

Idle == [kind |-> "idle"]
None == [kind |-> "none"]
Error == [kind |-> "error"]
Built(l) == [kind |-> "lattice", lattice |-> l]

\* The words that the creators ms spawn, in their order.
WordsBy(s, ms) ==
  LET upTo[i \in 0 .. Len(ms)] ==
        IF i = 0 THEN <<>> ELSE upTo[i - 1] \o Spawned[s][ms[i]]
  IN upTo[Len(ms)]

\* A chain of words, each starting where the one before ends, covers s.
Covered(s, words) == Size[s] \in ReachedBy(words, Size[s])

LatticeOf(s, words) ==
  [n |-> Size[s],
   nodes |-> [b \in 2 .. Size[s] + 1 |->
     LET here == StartingAt(words, b - 2)
     IN [i \in DOMAIN here |-> here[i].to + 2]]]

AnswerTo(s) ==
  LET known == WordsBy(s, Stage1)
      all == WordsBy(s, Stage1 \o Stage2)
  IN CASE Covered(s, known) -> Built(LatticeOf(s, known))
       [] ~Covered(s, known) /\ Covered(s, all) -> Built(LatticeOf(s, all))
       [] OTHER -> Error

Init == input \in Inputs /\ answer = Idle /\ asked = 0

Ask ==
  /\ answer # None
  /\ asked < MaxInputs
  /\ input' \in Inputs
  /\ answer' = IF input' \in Refused THEN Error ELSE None
  /\ asked' = asked + 1

Answer ==
  /\ answer = None
  /\ answer' # None
  /\ answer' = AnswerTo(input)
  /\ UNCHANGED <<input, asked>>

Spec == Init /\ [][Ask \/ Answer]_vars
=============================================================================
