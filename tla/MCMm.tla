-------------------------------- MODULE MCMm ---------------------------------
(* Small instances of Mm for TLC. *)
EXTENDS Mm
=============================================================================
