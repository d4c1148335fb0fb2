---------------------------- MODULE MCSupervisor ----------------------------
(***************************************************************************)
(* Small instances of Supervisor for TLC.                                  *)
(***************************************************************************)
EXTENDS Supervisor, TLC

CONSTANTS squawk, tobogganing, retired, g1, g2, g3

\* The goroutines are interchangeable.
Goroutines == Permutations(Timers)
=============================================================================
