------------------------------ MODULE MCLibrary ------------------------------
(***************************************************************************)
(* Values for NodeAddon and CApi: a good model file, one file for each     *)
(* stage at which loading fails, and sentences of one and two characters,  *)
(* one the analyzer refuses, one whose best path does not spell it (the    *)
(* dictionary of a file need not agree with its index) and the empty one.  *)
(***************************************************************************)
EXTENDS Integers, Sequences, TLC

MCFailsAt ==
  [good |-> "none", other |-> "none", missing |-> "open", broken |-> "dictionary",
   untrained |-> "analyzer", fieldless |-> "fields", featureless |-> "features"]

W(surface, reading) == [surface |-> surface, reading |-> reading]

MCTopPath ==
  (<<>> :> <<>>)
  @@ (<<"a", "b">> :> << <<W(<<"a">>, "r1"), W(<<"a">>, "r2")>>, <<W(<<"b">>, "r1")>> >>)
  @@ (<<"b">> :> << <<W(<<"b">>, "r1")>> >>)
  @@ (<<"c">> :> << <<W(<<"b">>, "r1")>> >>)
MCRefused == {<<"d">>}
MCSentences == DOMAIN MCTopPath \cup MCRefused
MCGarbage == {-9, -1, 0}
=============================================================================
