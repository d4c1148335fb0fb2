-------------------------- MODULE MCSquawkResolver --------------------------
(***************************************************************************)
(* SquawkResolver for TLC: two operator files that differ in their servers *)
(* and one that lists none.                                                *)
(***************************************************************************)
EXTENDS SquawkResolver

OperatorFiles == {"isp", "office", "none"}
=============================================================================
