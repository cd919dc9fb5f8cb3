---------------------------- MODULE Segmentation ----------------------------
(***************************************************************************)
(* What the analyzer promises its caller, without saying how: it answers   *)
(* once, with the words of a chain that starts at the beginning of the     *)
(* sentence, ends at its end, and joins every word to the next.  If the    *)
(* answer is to be exact, no chain has a better total score.               *)
(***************************************************************************)
EXTENDS Lattice

CONSTANTS
  Lattices,  \* the lattices that may be analysed
  Scores     \* the local scores a connection may have

VARIABLES
  lat,       \* the lattice of the sentence
  exact,     \* whether the answer must be a best chain
  weight,    \* the local score of every connection <<t2, t1, t0>>
  answer,    \* the words of the answer
  answered   \* whether there is an answer

vars == <<lat, exact, weight, answer, answered>>

Init ==
  /\ lat \in Lattices
  /\ exact \in BOOLEAN
  /\ weight \in [TriplesOf(lat) -> Scores]
  /\ answer = <<>>
  /\ answered = FALSE

Answer ==
  /\ ~answered
  /\ answered' = TRUE
  /\ \E c \in ChainsOf(lat) :
       /\ answer' = Inner(c)
       /\ exact => \A d \in ChainsOf(lat) : Total(weight, d) <= Total(weight, c)
  /\ UNCHANGED <<lat, exact, weight>>

Spec == Init /\ [][Answer]_vars
=============================================================================
