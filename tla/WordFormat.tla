----------------------------- MODULE WordFormat ------------------------------
(***************************************************************************)
(* The words of the data lab (ASSN/ASSN1): a word is an unsigned number of *)
(* WIDTH bits.  As a float it has a sign, EXP bits of exponent and FRAC    *)
(* bits of fraction.                                                       *)
(***************************************************************************)
EXTENDS Integers

CONSTANTS
    WIDTH,      \* of an int, a power of 2
    EXP         \* of the exponent of a float of WIDTH bits

ASSUME WordAssumption == WIDTH \in Nat /\ EXP \in Nat /\ 0 < EXP /\ EXP < WIDTH - 1

FRAC == WIDTH - 1 - EXP
Words == 0 .. (2^WIDTH - 1)
Sign == 2^(WIDTH - 1)
Infinity == (2^EXP - 1) * 2^FRAC
Bias == 2^(EXP - 1) - 1

\* int is unsigned with the top bit negative.
Int32(u) == IF u >= Sign THEN u - 2^WIDTH ELSE u
Word(x) == x % 2^WIDTH
=============================================================================
