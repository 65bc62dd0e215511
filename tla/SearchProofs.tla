---------------------------- MODULE SearchProofs -----------------------------
(***************************************************************************)
(* What a search that stops at the first match returns, and what a         *)
(* function computes that goes from each value to the next one; quotients. *)
(***************************************************************************)
EXTENDS Search, WellFoundedInduction, TLAPS

\* A set of indices has a smallest one.
LEMMA LeastExists ==
    ASSUME NEW S, S \subseteq Nat, S # {}
    PROVE  \E i \in S : \A j \in S : i <= j
<1> DEFINE R == OpToRel(<, Nat)
<1>1. IsWellFoundedOn(R, Nat)
  BY NatLessThanWellFounded
<1>2. \A x, y \in Nat : <<y, x>> \in R <=> y < x
  BY DEF OpToRel
<1> HIDE DEF R
<1>3. PICK x \in S : \A y \in S : <<y, x>> \notin R
  BY <1>1, WFMin
<1>4. \A y \in S : ~(y < x)
  BY <1>2, <1>3
<1> QED BY <1>4

\* A search stops at the smallest index that matches.
LEMMA FirstIsLeast ==
    ASSUME NEW S, S \subseteq Nat, S # {}
    PROVE  First(S) \in S /\ \A j \in S : First(S) <= j
<1>1. \E i \in S : \A j \in S : i <= j
  BY LeastExists
<1> QED BY <1>1 DEF First

\* What holds of 0 and of the successor of what it holds of, holds of every number.  P
\* is the set of the numbers it holds of.
LEMMA UpFromZero ==
    ASSUME NEW n \in Nat, NEW P, 0 \in P, \A k \in 1 .. n : k - 1 \in P => k \in P
    PROVE  0 .. n \subseteq P
<1> DEFINE Others == (0 .. n) \ P
<1>1. CASE Others = {}
  BY <1>1
<1>2. CASE Others # {}
  <2>0. Others \subseteq Nat
    OBVIOUS
  <2> HIDE DEF Others
  <2>1. PICK k \in Others : \A j \in Others : k <= j
    BY <1>2, <2>0, LeastExists
  <2> USE DEF Others
  <2>2. k \in 1 .. n /\ k - 1 \notin Others /\ k - 1 \in 0 .. n
    BY <2>1
  <2> QED BY <2>2
<1> QED BY <1>1, <1>2

\* f gives start for 0, and for k what next[k] makes of the value before.
Iterates(f, n, V, start, next) ==
    /\ f \in [0 .. n -> V]
    /\ f[0] = start
    /\ \A k \in 1 .. n : f[k] = next[k][f[k - 1]]

LEMMA IterationExists ==
    ASSUME NEW n \in Nat, NEW V, NEW start \in V, NEW next \in [1 .. n -> [V -> V]]
    PROVE  \E f : Iterates(f, n, V, start, next)
<1> DEFINE IsUpTo(f, m) == f[0] = start /\ \A k \in 1 .. m : f[k] = next[k][f[k - 1]]
           P == {m \in 0 .. n : \E f \in [0 .. m -> V] : IsUpTo(f, m)}
<1>1. 0 \in P
  <2> DEFINE f == [k \in 0 .. 0 |-> start]
  <2>1. f \in [0 .. 0 -> V] /\ IsUpTo(f, 0)
    OBVIOUS
  <2> HIDE DEF f
  <2>2. \E e \in [0 .. 0 -> V] : IsUpTo(e, 0)
    BY <2>1
  <2> HIDE DEF IsUpTo
  <2> QED BY <2>2
<1>2. ASSUME NEW m \in 1 .. n, m - 1 \in P
      PROVE  m \in P
  <2>1. PICK f \in [0 .. m - 1 -> V] : IsUpTo(f, m - 1)
    BY <1>2
  <2> DEFINE g == [k \in 0 .. m |-> IF k = m THEN next[m][f[m - 1]] ELSE f[k]]
  <2>2. f[m - 1] \in V /\ next[m][f[m - 1]] \in V
    OBVIOUS
  <2>3. \A k \in 0 .. m : k # m => k \in 0 .. m - 1 /\ f[k] \in V
    OBVIOUS
  <2>4. g \in [0 .. m -> V]
    BY <2>2, <2>3
  <2>5. \A k \in 1 .. m : g[k] = next[k][g[k - 1]]
    <3> SUFFICES ASSUME NEW k \in 1 .. m PROVE g[k] = next[k][g[k - 1]]
      OBVIOUS
    <3>1. CASE k = m
      <4>1. g[k - 1] = f[m - 1] /\ g[k] = next[m][f[m - 1]]
        BY <3>1
      <4> QED BY <3>1, <4>1
    <3>2. CASE k # m
      <4>1. k \in 1 .. m - 1 /\ g[k] = f[k] /\ f[k] = next[k][f[k - 1]]
        BY <2>1, <3>2
      <4>2. g[k - 1] = f[k - 1]
        BY <3>2
      <4> QED BY <4>1, <4>2
    <3> QED BY <3>1, <3>2
  <2>6. g[0] = start
    BY <2>1
  <2>7. IsUpTo(g, m)
    BY <2>5, <2>6
  <2> HIDE DEF g, IsUpTo
  <2>8. \E e \in [0 .. m -> V] : IsUpTo(e, m)
    BY <2>4, <2>7
  <2> QED BY <2>8
<1> HIDE DEF P
<1>3. n \in P
  <2>1. \A m \in 1 .. n : m - 1 \in P => m \in P
    BY <1>2
  <2> HIDE DEF IsUpTo
  <2>2. 0 .. n \subseteq P
    BY <1>1, <2>1, UpFromZero
  <2> QED BY <2>2
<1> QED BY <1>3 DEF P, Iterates

-----------------------------------------------------------------------------
(* Quotients and remainders. *)

LEMMA DivMod ==
    ASSUME NEW W \in Nat, W > 0, NEW x \in Int
    PROVE  (x % W) \in 0 .. (W - 1) /\ x \div W \in Int /\ x = W * (x \div W) + (x % W)
OBVIOUS

LEMMA ModIsRest ==
    ASSUME NEW W \in Nat, W > 0, NEW q \in Int, NEW r \in Int, 0 <= r, r < W
    PROVE  (W * q + r) % W = r
<1> DEFINE x == W * q + r
<1>1. x \in Int
  OBVIOUS
<1> HIDE DEF x
<1> QED BY <1>1

LEMMA QuotientIsUnique ==
    ASSUME NEW W \in Nat, W > 0, NEW q \in Int, NEW p \in Int,
           NEW r \in 0 .. (W - 1), NEW s \in 0 .. (W - 1), W * q + r = W * p + s
    PROVE  q = p /\ r = s
<1>1. CASE q > p
  <2>1. W * (q - p) >= W
    BY <1>1
  <2>2. W * (q - p) = W * q - W * p
    OBVIOUS
  <2> QED BY <2>1, <2>2, <1>1
<1>2. CASE q < p
  <2>1. W * (p - q) >= W
    BY <1>2
  <2>2. W * (p - q) = W * p - W * q
    OBVIOUS
  <2> QED BY <2>1, <2>2, <1>2
<1>3. CASE q = p
  BY <1>3
<1> QED BY <1>1, <1>2, <1>3
=============================================================================
