------------------------------- MODULE Search --------------------------------
(***************************************************************************)
(* Loops over an array that stop at the first element that matches.        *)
(***************************************************************************)
EXTENDS Naturals

First(S) == CHOOSE i \in S : \A j \in S : i <= j
=============================================================================
