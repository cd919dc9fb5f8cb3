----------------------------- MODULE MCNodeAddon -----------------------------
(***************************************************************************)
(* NodeAddon with the values of MCLibrary.                                 *)
(***************************************************************************)
EXTENDS NodeAddon, MCLibrary
=============================================================================
