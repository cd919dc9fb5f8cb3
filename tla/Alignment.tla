------------------------------- MODULE Alignment -----------------------------
(***************************************************************************)
(* Rounding up to a multiple: the arena places objects with it, string     *)
(* storages place strings and model files place their parts.  The code     *)
(* works on powers of two with masks.                                      *)
(***************************************************************************)
EXTENDS Integers

Align(val, alignment) ==
  IF val % alignment = 0 THEN val ELSE (val \div alignment) * alignment + alignment
=============================================================================
