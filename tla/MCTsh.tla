-------------------------------- MODULE MCTsh --------------------------------
(* Small instances of Tsh for TLC. *)
EXTENDS Tsh, TLC
CONSTANTS p1, p2
TwoPids == {p1, p2}
PidSymmetry == Permutations(Pids)
=============================================================================
