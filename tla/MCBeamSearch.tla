---------------------------- MODULE MCBeamSearch -----------------------------
(***************************************************************************)
(* Small lattices for BeamSearch: the empty sentence; sentences of one and *)
(* two code points with homographs and with a word no chain reaches; and   *)
(* sentences of three code points, one where words of all lengths cross    *)
(* and one with homographs and unreachable words.                          *)
(***************************************************************************)
EXTENDS BeamSearch, TLC

MCLattices ==
  {[n |-> 0, nodes |-> <<>>],
   [n |-> 1, nodes |-> (2 :> <<3, 3>>)],
   [n |-> 2, nodes |-> (2 :> <<3, 3, 4>> @@ 3 :> <<4>>)],
   [n |-> 2, nodes |-> (2 :> <<4, 3>> @@ 3 :> <<4, 4>>)],
   [n |-> 2, nodes |-> (2 :> <<4>> @@ 3 :> <<4>>)],
   [n |-> 3, nodes |-> (2 :> <<3, 4, 5>> @@ 3 :> <<4>> @@ 4 :> <<5>>)],
   [n |-> 3, nodes |-> (2 :> <<4, 4>> @@ 3 :> <<5, 4>> @@ 4 :> <<5>>)]}

\* Sums of at most four are told apart by the bits below the sign.
MCScores == {-1, 1}

\* Full beams, and global beams with the cutoff of right nodes.
MCConfigs ==
  {[beamSize |-> 3, globalBeam |-> 0, rightCheck |-> 0, rightBeam |-> 0],
   [beamSize |-> 2, globalBeam |-> 2, rightCheck |-> 1, rightBeam |-> 2]}

ASSUME \A l \in MCLattices : IsConnected(l)
=============================================================================
