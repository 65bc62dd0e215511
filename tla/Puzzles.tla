------------------------------- MODULE Puzzles -------------------------------
(***************************************************************************)
(* The solutions of the data lab, called with every argument there is.     *)
(***************************************************************************)
EXTENDS Bits

VARIABLE call   \* [name, x]: the puzzle called, and its first argument

Init == call = [name |-> "none", x |-> 0]

Call(name, x) == call' = [name |-> name, x |-> x]

Next == call.name = "none" /\ \E name \in PuzzleNames, x \in Words : Call(name, x)

Spec == Init /\ [][Next]_call

\* Every solution of bits.c gives what its test function in tests.c gives, on every
\* argument; but float_twice of a number whose double is not finite any more is
\* right only when its fraction is 0: otherwise it is NaN where infinity is right.
SolutionsRight ==
    call.name # "none" =>
        \A y \in SecondArgs(call.name) :
            Agrees(call.name, call.x, y) <=>
                ~(call.name = "float_twice" /\ TwiceIsTooLarge(call.x) /\ call.x % 2^FRAC # 0)
=============================================================================
