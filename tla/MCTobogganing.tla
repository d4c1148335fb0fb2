--------------------------- MODULE MCTobogganing ---------------------------
(***************************************************************************)
(* Small instances of Tobogganing for TLC.                                 *)
(***************************************************************************)
EXTENDS Tobogganing

CONSTANTS c1
=============================================================================
