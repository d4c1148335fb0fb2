-------------------------- MODULE MCExternalPlugin --------------------------
(***************************************************************************)
(* A small instance of ExternalPlugin for TLC.                             *)
(***************************************************************************)
EXTENDS ExternalPlugin
=============================================================================
