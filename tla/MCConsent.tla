------------------------------- MODULE MCConsent -------------------------------
(***************************************************************************)
(* Instances for TLC.                                                      *)
(***************************************************************************)
EXTENDS Consent
================================================================================
