----------------------------- MODULE MCJobTable ------------------------------
(* Small instances of JobTable for TLC. *)
EXTENDS JobTable, TLC
CONSTANTS p1, p2, p3, p4
FourPids == {p1, p2, p3, p4}
=============================================================================
