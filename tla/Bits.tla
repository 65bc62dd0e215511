--------------------------------- MODULE Bits --------------------------------
(***************************************************************************)
(* The data lab puzzles (ASSN/ASSN1/bits.c) and what btest compares them   *)
(* with (tests.c), on words of WIDTH bits.                                 *)
(***************************************************************************)
EXTENDS WordFormat, FiniteSets, FiniteSetsExt, Bitwise

Complement(u) == 2^WIDTH - 1 - u
ShiftLeft(u, n) == (u * 2^n) % 2^WIDTH
\* On an int: the sign is shifted in.
ShiftRight(u, n) == Word(Int32(u) \div 2^n)

-----------------------------------------------------------------------------
(* bits.c: integers *)

bitOr(x, y) == Complement(Complement(x) & Complement(y))

\* The sign of either word tells: the signs of x and y differ, or those of x + y
\* and x do not.
addOK(x, y) ==
    (ShiftRight((x ^^ y) | Complement(Word(x + y) ^^ x), WIDTH - 1)) & 1

negate(x) == Word(Complement(x) + 1)

\* Variant of the mask: one bit too few.
ShortMask(n) == ShiftRight(Sign, n)
ShiftMask(n) == ShiftLeft(ShiftRight(Sign, n), 1)
logicalShift(x, n) == Complement(ShiftMask(n)) & ShiftRight(x, n)

\* Every other group of n bits, the lowest one first.
CountMask(n) == SumSet({2^b : b \in {b \in 0 .. (WIDTH - 1) : (b \div n) % 2 = 0}})
\* The counts in neighbouring groups of n bits are added.
AddCounts(x, n) == Word((x & CountMask(n)) + (ShiftRight(x, n) & CountMask(n)))
\* From groups of one bit to the two halves of the word.
bitCount(x) ==
    LET counts[n \in 1 .. WIDTH] == IF n = 1 THEN x ELSE AddCounts(counts[n \div 2], n \div 2)
    IN  counts[WIDTH]

-----------------------------------------------------------------------------
(* bits.c: floats *)

IsNaN(uf) == (uf & Infinity) = Infinity /\ uf % 2^FRAC # 0

float_neg(uf) == IF IsNaN(uf) THEN uf ELSE uf ^^ Sign

\* The exponent of a positive int.
Log2(x) == Max({e \in 0 .. (WIDTH - 2) : 2^e <= x})

\* Variant of the rounding: a half is rounded up.
RoundHalfUp(rest, mantissa) == 2 * rest >= 2^EXP
RoundsUp(rest, mantissa) ==
    2 * rest > 2^EXP \/ (2 * rest = 2^EXP /\ mantissa % 2 = 1)

\* The fraction of a positive int is shifted up to the sign, its last EXP bits are
\* rounded off.  A carry out of the fraction goes into the exponent.
PositiveToFloat(x) ==
    LET exp == Log2(x)
        shifted == (x * 2^(WIDTH - 1 - exp)) % Sign
        mantissa == shifted \div 2^EXP
        carry == IF exp > FRAC /\ RoundsUp(shifted % 2^EXP, mantissa) THEN 1 ELSE 0
    IN  (exp + Bias) * 2^FRAC + mantissa + carry

float_i2f(x) ==
    IF x = 0 THEN 0
    ELSE IF x = Sign THEN Sign + (Bias + WIDTH - 1) * 2^FRAC
    ELSE IF x > Sign THEN Word(Sign + PositiveToFloat(2^WIDTH - x))
    ELSE PositiveToFloat(x)

\* The largest exponent of a number is turned into that of infinity, the fraction
\* is left as it is.
float_twice(uf) ==
    LET exp == uf & Infinity IN
    IF exp = Infinity THEN uf
    ELSE IF exp = 0 THEN (uf & Sign) | ShiftLeft(uf, 1)
    ELSE Word(uf + 2^FRAC)

-----------------------------------------------------------------------------
(* tests.c: what the result should be *)

test_bitOr(x, y) == x | y
test_addOK(x, y) ==
    IF Int32(x) + Int32(y) = Int32(Word(x + y)) THEN 1 ELSE 0
test_negate(x) == Word(0 - Int32(x))
test_logicalShift(x, n) == x \div 2^n
test_bitCount(x) == Cardinality({b \in 0 .. (WIDTH - 1) : (x \div 2^b) % 2 = 1})

\* The value of a finite float in units of the smallest denormal.
Magnitude(uf) ==
    LET exp == (uf % Sign) \div 2^FRAC
        frac == uf % 2^FRAC
    IN  IF exp = 0 THEN frac ELSE (2^FRAC + frac) * 2^(exp - 1)

\* IEEE 754: the nearest number, the even one of two, infinity when it is too large.
Nearest(value) ==
    Min({uf \in 0 .. Infinity :
            \/ uf = Infinity
            \/ 2 * value < Magnitude(uf) + Magnitude(uf + 1)
            \/ 2 * value = Magnitude(uf) + Magnitude(uf + 1) /\ uf % 2 = 0})

\* The value 1 in units of the smallest denormal.
One == 2^(Bias + FRAC - 1)
test_float_i2f(x) ==
    IF x >= Sign THEN Sign + Nearest((2^WIDTH - x) * One) ELSE Nearest(x * One)
test_float_neg(uf) == IF IsNaN(uf) THEN uf ELSE (uf + Sign) % 2^WIDTH
test_float_twice(uf) ==
    IF IsNaN(uf) \/ uf % Sign = Infinity THEN uf
    ELSE (uf \div Sign) * Sign + Nearest(2 * Magnitude(uf % Sign))

-----------------------------------------------------------------------------
(* The puzzles by name *)

Solution(name, x, y) ==
    CASE name = "bitOr" -> bitOr(x, y)
      [] name = "addOK" -> addOK(x, y)
      [] name = "negate" -> negate(x)
      [] name = "logicalShift" -> logicalShift(x, y)
      [] name = "bitCount" -> bitCount(x)
      [] name = "float_neg" -> float_neg(x)
      [] name = "float_i2f" -> float_i2f(x)
      [] name = "float_twice" -> float_twice(x)

Reference(name, x, y) ==
    CASE name = "bitOr" -> test_bitOr(x, y)
      [] name = "addOK" -> test_addOK(x, y)
      [] name = "negate" -> test_negate(x)
      [] name = "logicalShift" -> test_logicalShift(x, y)
      [] name = "bitCount" -> test_bitCount(x)
      [] name = "float_neg" -> test_float_neg(x)
      [] name = "float_i2f" -> test_float_i2f(x)
      [] name = "float_twice" -> test_float_twice(x)

\* The second argument of a puzzle: decl.c bounds a shift.
SecondArgs(name) ==
    CASE name \in {"bitOr", "addOK"} -> Words
      [] name = "logicalShift" -> 0 .. (WIDTH - 1)
      [] OTHER -> {0}

PuzzleNames ==
    {"bitOr", "addOK", "negate", "logicalShift", "bitCount", "float_neg", "float_i2f", "float_twice"}

Agrees(name, x, y) == Solution(name, x, y) = Reference(name, x, y)

\* A number whose double is no longer finite.
TwiceIsTooLarge(uf) == (uf % Sign) >= (2^EXP - 2) * 2^FRAC /\ uf % Sign < Infinity
=============================================================================
