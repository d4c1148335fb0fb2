-------------------------- MODULE MCLicenseClient --------------------------
(***************************************************************************)
(* A small instance of LicenseClient for TLC: two keys, a feature, a tier. *)
(***************************************************************************)
EXTENDS LicenseClient

CONSTANTS k1, k2, premium
=============================================================================
