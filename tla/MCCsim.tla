------------------------------- MODULE MCCsim --------------------------------
(* Small instances of CsimLru for TLC. *)
EXTENDS CsimLru
=============================================================================
