------------------------------ MODULE Lattice -------------------------------
(***************************************************************************)
(* The lattice of candidate words of one sentence, as data.  Boundary b+2  *)
(* stands between code points b-1 and b; boundaries 0 and 1 hold the two   *)
(* BOS nodes and boundary n+2 the EOS node.  A lattice is a record of n,   *)
(* the number of code points, and nodes: for each inner boundary the       *)
(* sequence of the boundaries at which the nodes starting there end.       *)
(***************************************************************************)
EXTENDS Integers, Sequences, FiniteSets

\* A word of a sentence goes from a code point to the one it ends before; the
\* words that start at code point b, in their order.
StartingAt(words, b) ==
  LET upTo[i \in 0 .. Len(words)] ==
        IF i = 0 THEN <<>>
        ELSE upTo[i - 1] \o (IF words[i].from = b THEN <<words[i]>> ELSE <<>>)
  IN upTo[Len(words)]

\* Where the chains of words end that start with the sentence, of m code
\* points, and in which each word starts where the one before ends.
ReachedBy(words, m) ==
  LET within[k \in 0 .. m] ==   \* by chains of at most k words
        IF k = 0 THEN {0}
        ELSE LET before == within[k - 1]
             IN before \cup {words[i].to : i \in {j \in DOMAIN words : words[j].from \in before}}
  IN within[m]

\* A node is a pair of the boundary it starts at and its position there.
Bos0 == <<0, 1>>
Bos1 == <<1, 1>>
EosOf(l) == <<l.n + 2, 1>>

WordsOf(l) == UNION {{<<b, i>> : i \in DOMAIN l.nodes[b]} : b \in DOMAIN l.nodes}
NodesOf(l) == {Bos0, Bos1, EosOf(l)} \cup WordsOf(l)

\* The nodes that start at boundary b, and the boundary a node ends at;
\* nothing starts after EOS.
RowOf(l, b) == {v \in NodesOf(l) : v[1] = b}
EndIn(l, v) == CASE v[1] = 0 -> 1
                 [] v[1] = 1 -> 2
                 [] v[1] = l.n + 2 -> l.n + 3
                 [] OTHER -> l.nodes[v[1]][v[2]]

\* Three nodes, each ending where the next one starts.
TriplesOf(l) ==
  {t \in NodesOf(l) \X NodesOf(l) \X NodesOf(l) :
     EndIn(l, t[1]) = t[2][1] /\ EndIn(l, t[2]) = t[3][1]}

\* The shape LatticeBuilder gives a lattice: every word ends after it starts.
IsLattice(l) ==
  /\ l.n \in Nat
  /\ DOMAIN l.nodes = 2 .. l.n + 1
  /\ \A b \in 2 .. l.n + 1 : l.nodes[b] \in Seq(b + 1 .. l.n + 2)

\* All chains of nodes, one ending where the next starts, from the first BOS
\* to a node that starts at boundary b.
ChainsTo(l, b) ==
  LET chains[x \in 0 .. l.n + 2] ==
        IF x = 0 THEN {<<Bos0>>}
        ELSE UNION {{Append(c, v) : v \in RowOf(l, x)} :
                      c \in UNION {{d \in chains[a] : EndIn(l, d[Len(d)]) = x} : a \in 0 .. x - 1}}
  IN chains[b]
ChainsOf(l) == ChainsTo(l, l.n + 2)

\* checkConnectability let the sentence through: some chain of words covers it.
IsConnected(l) == ChainsOf(l) # {}

\* The words of a full chain: without the two BOS and EOS.
Inner(c) == SubSeq(c, 3, Len(c) - 1)

\* The total score of a chain: the sum of its local scores.
Total(w, c) ==
  LET upTo[i \in 2 .. Len(c)] ==
        IF i = 2 THEN 0 ELSE upTo[i - 1] + w[<<c[i - 2], c[i - 1], c[i]>>]
  IN upTo[Len(c)]
=============================================================================
