------------------------------- MODULE MCCApi -------------------------------
(***************************************************************************)
(* CApi with the values of MCLibrary.                                      *)
(***************************************************************************)
EXTENDS CApi, MCLibrary
=============================================================================
