--------------------------- MODULE MCHostServices ---------------------------
(***************************************************************************)
(* A small instance of HostServices for TLC: a built-in module, a plugin,  *)
(* and two values of a secret, which are interchangeable.                  *)
(***************************************************************************)
EXTENDS HostServices, TLC

CONSTANTS s1, s2

SecretSymmetry == Permutations({s1, s2})
=============================================================================
