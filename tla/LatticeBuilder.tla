---------------------------- MODULE LatticeBuilder ---------------------------
(***************************************************************************)
(* LatticeBuilder, as AnalyzerImpl drives it for one sentence after the    *)
(* other: the node creators spawn seeds, checkConnectability decides       *)
(* whether words cover the sentence and whether the second stage of unknown*)
(* word makers must run, and buildLattice turns the sorted seeds into the  *)
(* boundaries of a Lattice, first the nodes that start at a boundary, then *)
(* the pointers to the nodes that end there.                               *)
(*                                                                         *)
(* What a node creator spawns is given (module NodeCreators computes it).  *)
(* Boundaries are numbered as in the code: 0 and 1 are the BOS nodes,      *)
(* boundary b + 2 stands before code point b, n + 2 is EOS.                *)
(***************************************************************************)
EXTENDS Lattice

CONSTANTS
  Inputs,     \* the sentences a caller may analyse
  Refused,    \* those AnalysisInput.reset refuses: too long, or not UTF-8
  Size,       \* accepted input -> its number of code points
  Stage1,     \* the node creators of stage 1 in their order, dictionary first
  Stage2,     \* those of stage 2, used when stage 1 does not connect
  Spawned,    \* accepted input -> node creator -> the seeds it appends
  MaxInputs   \* bound: sentences analysed one after the other

Makers == {Stage1[i] : i \in DOMAIN Stage1} \cup {Stage2[i] : i \in DOMAIN Stage2}
IsSeed(s, n) == s.from \in 0 .. n - 1 /\ s.to \in s.from + 1 .. n

ASSUME InputsAssumption ==
  /\ Inputs # {} /\ Refused \subseteq Inputs
  /\ Size \in [Inputs \ Refused -> Nat]
ASSUME StagesAssumption == Stage1 \in Seq(Makers) /\ Stage2 \in Seq(Makers)
ASSUME SeedsAssumption ==
  \A s \in Inputs \ Refused, m \in Makers :
    LET new == Spawned[s][m]
    IN /\ new \in Seq({new[i] : i \in DOMAIN new})
       /\ \A i \in DOMAIN new : IsSeed(new[i], Size[s])
ASSUME BoundAssumption == MaxInputs \in Nat

VARIABLES
  phase,    \* where analyze() is; "built" and "failed" are its returns
  input,    \* AnalysisInput
  todo,     \* the node creators still to run in this stage
  stage,    \* 1 or 2
  seeds,    \* seeds_
  conn,     \* connectible
  info,     \* boundaries_
  lattice,  \* the boundaries of the Lattice, boundary k at index k + 1
  cursor,   \* position of the running loop
  asked     \* sentences analysed so far

vars == <<phase, input, todo, stage, seeds, conn, info, lattice, cursor, asked>>

n == Size[input]
Room(starts, room) == [starts |-> starts, room |-> room, ends |-> <<>>]
BosSeed == [entry |-> "BOS", from |-> 0, to |-> 0]
EosSeed == [entry |-> "EOS", from |-> n, to |-> n]

Init ==
  /\ phase = "idle"
  /\ input = CHOOSE s \in Inputs : TRUE
  /\ todo = <<>>
  /\ stage = 1
  /\ seeds = <<>>
  /\ conn = <<>>
  /\ info = <<>>
  /\ lattice = <<>>
  /\ cursor = 0
  /\ asked = 0

\* AnalyzerImpl.resetForInput.  The lattice is dropped first; a refused input
\* returns before the builder is reset, and connectible is never cleared here.
ResetKeepsSeeds ==
  /\ phase \in {"idle", "built", "failed"}
  /\ asked < MaxInputs
  /\ input' \in Inputs
  /\ lattice' = <<>>
  /\ IF input' \in Refused
     THEN phase' = "failed" /\ UNCHANGED <<todo, stage, seeds, info>>
     ELSE /\ phase' = "spawn"
          /\ todo' = Stage1
          /\ stage' = 1
          /\ info' = <<>>
          /\ seeds' = seeds
  /\ asked' = asked + 1
  /\ UNCHANGED <<conn, cursor>>
Reset ==
  /\ phase \in {"idle", "built", "failed"}
  /\ asked < MaxInputs
  /\ input' \in Inputs
  /\ lattice' = <<>>
  /\ IF input' \in Refused
     THEN phase' = "failed" /\ UNCHANGED <<todo, stage, seeds, info>>
     ELSE /\ phase' = "spawn"
          /\ todo' = Stage1
          /\ stage' = 1
          /\ seeds' = <<>>
          /\ info' = <<>>
  /\ asked' = asked + 1
  /\ UNCHANGED <<conn, cursor>>

\* spawnNodes of the next node creator.
SpawnNodes ==
  /\ phase = "spawn"
  /\ todo # <<>>
  /\ seeds' = seeds \o Spawned[input][Head(todo)]
  /\ todo' = Tail(todo)
  /\ UNCHANGED <<phase, input, stage, conn, info, lattice, cursor, asked>>

\* sortSeeds: stable, by the code point a seed starts at.
SortedUnstable(s) ==
  LET rank(i) == Cardinality({j \in DOMAIN s : \/ s[j].from < s[i].from
                                               \/ s[j].from = s[i].from /\ j >= i})
  IN [k \in DOMAIN s |-> s[CHOOSE i \in DOMAIN s : rank(i) = k]]
SortedNot(s) == s
Sorted(s) ==
  LET rank(i) == Cardinality({j \in DOMAIN s : \/ s[j].from < s[i].from
                                               \/ s[j].from = s[i].from /\ j <= i})
  IN [k \in DOMAIN s |-> s[CHOOSE i \in DOMAIN s : rank(i) = k]]

\* checkConnectability: sort, then one pass over the seeds.
StartCheck ==
  /\ phase = "spawn"
  /\ todo = <<>>
  /\ seeds' = Sorted(seeds)
  /\ conn' = [b \in 0 .. n |-> b = 0]
  /\ cursor' = 1
  /\ phase' = "check"
  /\ UNCHANGED <<input, todo, stage, info, lattice, asked>>

CheckSeed ==
  /\ phase = "check"
  /\ cursor <= Len(seeds)
  /\ conn' = [conn EXCEPT ![seeds[cursor].to] = @ \/ conn[seeds[cursor].from]]
  /\ cursor' = cursor + 1
  /\ UNCHANGED <<phase, input, todo, stage, seeds, info, lattice, asked>>

\* prepareNodeSeeds after a check: go on, try stage 2, or give up.
DecideRetryAgain ==
  /\ phase = "check"
  /\ cursor > Len(seeds)
  /\ IF conn[n]
     THEN phase' = "prepare" /\ UNCHANGED <<todo, stage>>
     ELSE phase' = "spawn" /\ todo' = Stage2 /\ stage' = 2
  /\ UNCHANGED <<input, seeds, conn, info, lattice, cursor, asked>>
DecideUnchecked ==
  /\ phase = "check"
  /\ cursor > Len(seeds)
  /\ IF conn[n] \/ stage = 2
     THEN phase' = "prepare" /\ UNCHANGED <<todo, stage>>
     ELSE phase' = "spawn" /\ todo' = Stage2 /\ stage' = 2
  /\ UNCHANGED <<input, seeds, conn, info, lattice, cursor, asked>>
Decide ==
  /\ phase = "check"
  /\ cursor > Len(seeds)
  /\ CASE conn[n] -> phase' = "prepare" /\ UNCHANGED <<todo, stage>>
       [] ~conn[n] /\ stage = 1 -> phase' = "spawn" /\ todo' = Stage2 /\ stage' = 2
       [] OTHER -> phase' = "failed" /\ UNCHANGED <<todo, stage>>
  /\ UNCHANGED <<input, seeds, conn, info, lattice, cursor, asked>>

\* prepare: count the nodes at every boundary and find the first seed of each.
\* BOS ends at the first boundary and EOS starts at the last.
StartCount(b) ==
  Cardinality({i \in DOMAIN seeds : seeds[i].from = b}) + (IF b = n THEN 1 ELSE 0)
EndCountNoBos(b) == Cardinality({i \in DOMAIN seeds : seeds[i].to = b})
EndCount(b) ==
  Cardinality({i \in DOMAIN seeds : seeds[i].to = b}) + (IF b = 0 THEN 1 ELSE 0)
Offsets ==
  LET first[b \in 0 .. n] == IF b = 0 THEN 0 ELSE first[b - 1] + StartCount(b - 1) IN first

Prepare ==
  /\ phase = "prepare"
  /\ info' = [b \in 0 .. n |->
                [starts |-> StartCount(b), ends |-> EndCount(b), first |-> Offsets[b]]]
  /\ phase' = "bos"
  /\ UNCHANGED <<input, todo, stage, seeds, conn, lattice, cursor, asked>>

MakeBos ==
  /\ phase = "bos"
  /\ lattice' = <<Room(<<BosSeed>>, 0), Room(<<BosSeed>>, 1)>>
  /\ cursor' = 0
  /\ phase' = "build"
  /\ UNCHANGED <<input, todo, stage, seeds, conn, info, asked>>

\* The nodes that start at a boundary are one slice of the sorted seeds; room
\* is made for as many ends as prepare counted.
ConstructSingleBoundary ==
  /\ phase = "build"
  /\ cursor < n
  /\ LET here == info[cursor]
     IN /\ lattice' = Append(lattice,
                        Room([i \in 1 .. here.starts |-> seeds[here.first + i]], here.ends))
        /\ conn' = [conn EXCEPT ![cursor] = here.starts # 0 /\ here.ends # 0]
  /\ cursor' = cursor + 1
  /\ UNCHANGED <<phase, input, todo, stage, seeds, info, asked>>

MakeEos ==
  /\ phase = "build"
  /\ cursor = n
  /\ lattice' = Append(lattice, Room(<<EosSeed>>, info[n].ends))
  /\ phase' = "bosends"
  /\ UNCHANGED <<input, todo, stage, seeds, conn, info, cursor, asked>>

\* fillEnds: the pointers to the two BOS nodes, then one for every seed.
AddEnd(l, k, ptr) == [l EXCEPT ![k + 1].ends = Append(@, ptr)]
FillBosEnds ==
  /\ phase = "bosends"
  /\ lattice' = AddEnd(AddEnd(lattice, 1, Bos0), 2, Bos1)
  /\ cursor' = 1
  /\ phase' = "ends"
  /\ UNCHANGED <<input, todo, stage, seeds, conn, info, asked>>

FillEnd ==
  /\ phase = "ends"
  /\ cursor <= Len(seeds)
  /\ LET s == seeds[cursor]
     IN lattice' = IF s.from = s.to THEN lattice
                   ELSE AddEnd(lattice, s.to + 2, <<s.from + 2, cursor - info[s.from].first>>)
  /\ cursor' = cursor + 1
  /\ UNCHANGED <<phase, input, todo, stage, seeds, conn, info, asked>>

Return ==
  /\ phase = "ends"
  /\ cursor > Len(seeds)
  /\ phase' = "built"
  /\ UNCHANGED <<input, todo, stage, seeds, conn, info, lattice, cursor, asked>>

Proceed ==
  \/ SpawnNodes \/ StartCheck \/ CheckSeed \/ Decide \/ Prepare \/ MakeBos
  \/ ConstructSingleBoundary \/ MakeEos \/ FillBosEnds \/ FillEnd \/ Return
Next == Reset \/ Proceed

Spec == Init /\ [][Next]_vars
\* Inside analyze() nothing waits; whether there is a next sentence is the
\* caller's choice.
FairSpec == Spec /\ WF_vars(Proceed)
-----------------------------------------------------------------------------
\* Everything the makers of the stages up to st append, in order.
SeedsUpTo(st) ==
  LET ms == IF st = 1 THEN Stage1 ELSE Stage1 \o Stage2
      upTo[i \in 0 .. Len(ms)] ==
        IF i = 0 THEN <<>> ELSE upTo[i - 1] \o Spawned[input][ms[i]]
  IN upTo[Len(ms)]

\* The boundaries that chains of seeds reach from the start of the sentence.
Reachable(s) == ReachedBy(s, n)

\* One pass over the sorted seeds finds every boundary that a chain of words
\* reaches, so checkConnectability is right about the sentence.
OnePassIsEnough ==
  phase = "check" /\ cursor > Len(seeds) =>
    conn = [b \in 0 .. n |-> b \in Reachable(seeds)]

\* The nodes of a boundary are the seeds that start there and no others (none
\* is left over from another sentence), in the order they were spawned in.
NodesAreSeeds ==
  phase = "built" =>
    \A b \in 0 .. n - 1 :
      lattice[b + 3].starts = StartingAt(SeedsUpTo(stage), b)

\* addEnd never writes past the room prepare counted, and in the end every
\* boundary is exactly full.
EndsInRoom ==
  /\ \A k \in DOMAIN lattice : Len(lattice[k].ends) <= lattice[k].room
  /\ phase = "built" =>
       /\ Len(lattice) = n + 3
       /\ \A k \in 3 .. n + 3 : Len(lattice[k].ends) = lattice[k].room

\* The pointers at a boundary fill the room made for them, and are those to
\* the nodes that end there, each one once.
EndsAreNodes ==
  /\ EndsInRoom
  /\ phase = "built" =>
       \A k \in 3 .. n + 3 :
         LET ends == lattice[k].ends
             words == {<<b + 2, i>> : b \in 0 .. n - 1, i \in 1 .. Len(seeds)}
             here == {v \in words : /\ v[2] \in DOMAIN lattice[v[1] + 1].starts
                                    /\ lattice[v[1] + 1].starts[v[2]].to + 3 = k}
         IN /\ \A i, j \in DOMAIN ends : ends[i] = ends[j] => i = j
            /\ {ends[i] : i \in DOMAIN ends} = here \cup (IF k = 3 THEN {Bos1} ELSE {})

\* The lattice as a value of module Lattice, which BeamSearch starts from.
AsLattice ==
  [n |-> n, nodes |-> [b \in 2 .. n + 1 |->
     [i \in DOMAIN lattice[b + 1].starts |-> lattice[b + 1].starts[i].to + 2]]]

\* What the beam search takes for granted: the lattice has the shape module
\* Lattice describes, and some chain of its words covers the sentence.
ReadyForSearch == phase = "built" => IsLattice(AsLattice) /\ IsConnected(AsLattice)

\* The builder implements LatticeRequest: it answers a sentence with the
\* lattice of its seeds if they connect, and else with an error.
Idle == [kind |-> "idle"]
None == [kind |-> "none"]
Error == [kind |-> "error"]
Request == INSTANCE LatticeRequest WITH
  answer <- CASE phase = "idle" -> Idle
              [] phase = "failed" -> Error
              [] phase = "built" -> [kind |-> "lattice", lattice |-> AsLattice]
              [] OTHER -> None
KeepsRequest == Request!Spec

\* Every sentence is answered: the retry with stage 2 happens at most once.
Answered == [](phase = "spawn" => <>(phase \in {"built", "failed"}))
=============================================================================
