----------------------------- MODULE TransProofs ------------------------------
(***************************************************************************)
(* Both transpositions of trans.c store the transpose of A in B, for every *)
(* pair of dimensions.                                                     *)
(***************************************************************************)
EXTENDS TestTrans, SearchProofs, TLAPS

Elements(s) == {s[k] : k \in DOMAIN s}

LEMMA ConcatElements ==
    ASSUME NEW S, NEW s \in Seq(S), NEW t \in Seq(S)
    PROVE  /\ s \o t \in Seq(S)
           /\ Elements(s) \subseteq Elements(s \o t)
           /\ Elements(t) \subseteq Elements(s \o t)
<1>1. s \o t \in Seq(S) /\ DOMAIN (s \o t) = 1 .. (Len(s) + Len(t))
  OBVIOUS
<1>2. DOMAIN s = 1 .. Len(s) /\ DOMAIN t = 1 .. Len(t) /\ Len(s) \in Nat /\ Len(t) \in Nat
  OBVIOUS
<1>3. \A k \in 1 .. Len(s) : k \in DOMAIN (s \o t) /\ (s \o t)[k] = s[k]
  BY <1>1, <1>2
<1>4. \A k \in 1 .. Len(t) : Len(s) + k \in DOMAIN (s \o t) /\ (s \o t)[Len(s) + k] = t[k]
  BY <1>1, <1>2
<1> QED BY <1>1, <1>2, <1>3, <1>4 DEF Elements

LEMMA OneElement ==
    ASSUME NEW S, NEW x \in S
    PROVE  <<x>> \in Seq(S) /\ x \in Elements(<<x>>)
<1>1. 1 \in DOMAIN <<x>> /\ <<x>>[1] = x
  OBVIOUS
<1>2. x \in Elements(<<x>>)
  BY <1>1 DEF Elements
<1> QED BY <1>2

LEMMA EmptyIsSequence ==
    ASSUME NEW S
    PROVE  <<>> \in Seq(S)
OBVIOUS

\* The iterations of a loop, made of elements of S.
Loop(lo, hi, body, S) == lo \in Int /\ hi \in Int /\ body \in [lo .. hi - 1 -> Seq(S)]

\* A loop makes the accesses of all its iterations, and no others.
LEMMA ForMakesAll ==
    ASSUME NEW S, NEW lo, NEW hi, NEW body, Loop(lo, hi, body, S)
    PROVE  /\ For(lo, hi, body) \in Seq(S)
           /\ \A i \in lo .. hi - 1 : Elements(body[i]) \subseteq Elements(For(lo, hi, body))
<1> USE DEF Loop
<1>1. CASE ~(lo < hi)
  <2>1. For(lo, hi, body) = <<>> /\ lo .. hi - 1 = {}
    BY <1>1 DEF For
  <2> QED BY <2>1, EmptyIsSequence
<1>2. CASE lo < hi
  <2> DEFINE n == hi - lo
             V == Seq(S)
             next == [k \in 1 .. n |-> [s \in V |-> s \o body[lo + k - 1]]]
             IsUpTo(g) ==
                g = [k \in 0 .. n |-> IF k = 0 THEN <<>> ELSE g[k - 1] \o body[lo + k - 1]]
             upto == CHOOSE g : IsUpTo(g)
  <2>1. n \in Nat /\ n > 0
    BY <1>2
  <2>2. \A k \in 1 .. n : lo + k - 1 \in lo .. hi - 1 /\ body[lo + k - 1] \in V
    OBVIOUS
  <2>3. \A k \in 1 .. n, s \in V : s \o body[lo + k - 1] \in V
    BY <2>2, ConcatElements
  <2>4. next \in [1 .. n -> [V -> V]] /\ <<>> \in V
    BY <2>3, EmptyIsSequence
  <2>5. \A k \in 1 .. n, s \in V : next[k][s] = s \o body[lo + k - 1]
    OBVIOUS
  <2> HIDE DEF n, V, next
  <2>6. PICK f : Iterates(f, n, V, <<>>, next)
    BY <2>1, <2>4, IterationExists
  <2>7. \A k \in 0 .. n : f[k] = IF k = 0 THEN <<>> ELSE f[k - 1] \o body[lo + k - 1]
    <3> SUFFICES ASSUME NEW k \in 0 .. n
                 PROVE  f[k] = IF k = 0 THEN <<>> ELSE f[k - 1] \o body[lo + k - 1]
      OBVIOUS
    <3>1. f[k] = IF k = 0 THEN <<>> ELSE next[k][f[k - 1]]
      BY <2>6, <2>1 DEF Iterates
    <3>2. k # 0 => k \in 1 .. n /\ f[k - 1] \in V
      BY <2>6, <2>1 DEF Iterates
    <3> QED BY <2>5, <3>1, <3>2
  <2>8. IsUpTo(f)
    BY <2>6, <2>7 DEF Iterates
  <2>9. IsUpTo(upto)
    BY <2>8
  <2> HIDE DEF upto
  <2>10. upto[0] = <<>> /\ \A k \in 1 .. n : upto[k] = upto[k - 1] \o body[lo + k - 1]
    <3>1. \A k \in 0 .. n : upto[k] = IF k = 0 THEN <<>> ELSE upto[k - 1] \o body[lo + k - 1]
      BY <2>9
    <3>2. 0 \in 0 .. n /\ \A k \in 1 .. n : k \in 0 .. n /\ k # 0
      BY <2>1
    <3> QED BY <3>1, <3>2
  <2> DEFINE Good(k) ==
                /\ upto[k] \in V
                /\ \A m \in 1 .. k : Elements(body[lo + m - 1]) \subseteq Elements(upto[k])
             P == {k \in 0 .. n : Good(k)}
  <2>11. 0 \in P
    BY <2>1, <2>4, <2>10
  <2>12. ASSUME NEW k \in 1 .. n, k - 1 \in P
         PROVE  k \in P
    <3>1. /\ upto[k - 1] \in Seq(S)
          /\ \A m \in 1 .. k - 1 : Elements(body[lo + m - 1]) \subseteq Elements(upto[k - 1])
      BY <2>12 DEF V
    <3>2. upto[k] = upto[k - 1] \o body[lo + k - 1] /\ body[lo + k - 1] \in Seq(S)
      BY <2>2, <2>10 DEF V
    <3>3. /\ upto[k] \in Seq(S)
          /\ Elements(upto[k - 1]) \subseteq Elements(upto[k])
          /\ Elements(body[lo + k - 1]) \subseteq Elements(upto[k])
      BY <3>1, <3>2, ConcatElements
    <3>4. \A m \in 1 .. k : m # k => m \in 1 .. k - 1
      BY <2>1
    <3>5. Good(k)
      BY <3>1, <3>3, <3>4 DEF V
    <3>6. k \in 0 .. n
      BY <2>1
    <3> HIDE DEF Good
    <3> QED BY <3>5, <3>6
  <2> HIDE DEF P
  <2>13. n \in P
    <3>1. \A k \in 1 .. n : k - 1 \in P => k \in P
      BY <2>12
    <3>2. 0 .. n \subseteq P
      BY <2>1, <2>11, <3>1, UpFromZero
    <3>3. n \in 0 .. n
      BY <2>1
    <3> QED BY <3>2, <3>3
  <2>14. upto[n] \in V /\ \A m \in 1 .. n : Elements(body[lo + m - 1]) \subseteq Elements(upto[n])
    BY <2>13 DEF P
  <2>15. For(lo, hi, body) = upto[n]
    BY <1>2 DEF For, upto, n
  <2>16. ASSUME NEW i \in lo .. hi - 1
         PROVE  Elements(body[i]) \subseteq Elements(upto[n])
    <3>1. (i - lo) + 1 \in 1 .. n /\ lo + ((i - lo) + 1) - 1 = i
      BY DEF n
    <3> QED BY <2>14, <3>1
  <2> QED BY <2>14, <2>15, <2>16 DEF V
<1> QED BY <1>1, <1>2

-----------------------------------------------------------------------------
(* What the functions store. *)

Dimensions == M \in Nat /\ N \in Nat

\* The store of A[r][c].
Transposed(r, c) == Store(N, c, r, Load(M, r, c))

Loads == {Load(M, r, c) : r \in Int, c \in Int}
Stores == {Transposed(r, c) : r \in 0 .. N - 1, c \in 0 .. M - 1}

LEMMA CopyStores ==
    ASSUME Dimensions, NEW S, Loads \cup Stores \subseteq S,
           NEW r \in 0 .. N - 1, NEW c \in 0 .. M - 1
    PROVE  Copy(M, N, r, c) \in Seq(S) /\ Transposed(r, c) \in Elements(Copy(M, N, r, c))
<1>1. Load(M, r, c) \in S /\ Transposed(r, c) \in S
  BY DEF Loads, Stores, Dimensions
<1>2. Copy(M, N, r, c) = <<Load(M, r, c), Transposed(r, c)>>
  BY DEF Copy, Transposed
<1>3. 2 \in DOMAIN Copy(M, N, r, c) /\ Copy(M, N, r, c)[2] = Transposed(r, c)
  BY <1>2
<1> QED BY <1>1, <1>2, <1>3 DEF Elements

LEMMA TransStores ==
    ASSUME Dimensions, NEW S, Loads \cup Stores \subseteq S, NEW row \in 0 .. N - 1
    PROVE  /\ trans(M, N, row) \in Seq(S)
           /\ \A c \in 0 .. M - 1 : Transposed(row, c) \in Elements(trans(M, N, row))
<1> DEFINE body == [c \in 0 .. M - 1 |-> Copy(M, N, row, c)]
<1>1. body \in [0 .. M - 1 -> Seq(S)]
  BY CopyStores
<1>2. \A c \in 0 .. M - 1 : Transposed(row, c) \in Elements(body[c])
  BY CopyStores
<1>3. trans(M, N, row) = For(0, M, body)
  BY DEF trans
<1>4. Loop(0, M, body, S)
  BY <1>1 DEF Loop, Dimensions
<1> HIDE DEF body
<1> QED BY <1>2, <1>3, <1>4, ForMakesAll

LEMMA BlockEnds ==
    ASSUME NEW length \in Nat, NEW start \in Nat
    PROVE  /\ BlockEnd(length, start) \in Int
           /\ \A k \in Int : k \in start .. BlockEnd(length, start) - 1
                                <=> start <= k /\ k < start + BLOCK /\ k < length
BY DEF BlockEnd, Least, BLOCK

\* The columns that a row of a diagonal block copies.
Columns(COL) == COL .. BlockEnd(M, COL) - 1

LEMMA OthersStore ==
    ASSUME Dimensions, NEW S, Loads \cup Stores \subseteq S,
           NEW COL \in Nat, NEW row \in 0 .. N - 1
    PROVE  /\ OthersOfRow(M, N, COL, row) \in Seq(S)
           /\ \A c \in Columns(COL) :
                c # row => Transposed(row, c) \in Elements(OthersOfRow(M, N, COL, row))
<1> DEFINE body == [c \in Columns(COL) |-> IF row = c THEN <<>> ELSE Copy(M, N, row, c)]
<1>1. \A c \in Columns(COL) : c \in 0 .. M - 1
  BY BlockEnds DEF Columns, Dimensions
<1>2. body \in [Columns(COL) -> Seq(S)]
  BY <1>1, CopyStores, EmptyIsSequence
<1>3. \A c \in Columns(COL) : c # row => Transposed(row, c) \in Elements(body[c])
  BY <1>1, CopyStores
<1>4. OthersOfRow(M, N, COL, row) = For(COL, BlockEnd(M, COL), body)
  BY DEF OthersOfRow, Columns
<1>5. Loop(COL, BlockEnd(M, COL), body, S)
  BY <1>2, BlockEnds DEF Loop, Columns, Dimensions
<1> HIDE DEF body
<1> QED BY <1>3, <1>4, <1>5, ForMakesAll DEF Columns

\* A row of a diagonal block makes its own store after the others, in B or behind it.
LEMMA DiagRowStores ==
    ASSUME Dimensions, NEW S, Loads \cup Stores \subseteq S,
           NEW COL \in Nat, NEW row \in 0 .. N - 1, Transposed(row, row) \in S
    PROVE  /\ DiagRow(M, N, COL, row) \in Seq(S)
           /\ \A c \in Columns(COL) \cup {row} :
                Transposed(row, c) \in Elements(DiagRow(M, N, COL, row))
<1> DEFINE others == OthersOfRow(M, N, COL, row)
           first == <<Load(M, row, row)>>
           last == <<Transposed(row, row)>>
<1>1. Load(M, row, row) \in S
  BY DEF Loads
<1>2. first \in Seq(S) /\ last \in Seq(S) /\ Transposed(row, row) \in Elements(last)
  BY <1>1, OneElement
<1>3. /\ others \in Seq(S)
      /\ \A c \in Columns(COL) : c # row => Transposed(row, c) \in Elements(others)
  BY OthersStore
<1>4. DiagRow(M, N, COL, row) = (first \o others) \o last
  <2>1. DiagRow(M, N, COL, row) = first \o others \o last
    BY DEF DiagRow, Transposed
  <2> QED BY <2>1
<1> HIDE DEF first, others, last
<1>5. first \o others \in Seq(S) /\ Elements(others) \subseteq Elements(first \o others)
  BY <1>2, <1>3, ConcatElements
<1>6. /\ (first \o others) \o last \in Seq(S)
      /\ Elements(first \o others) \subseteq Elements((first \o others) \o last)
      /\ Elements(last) \subseteq Elements((first \o others) \o last)
  BY <1>2, <1>5, ConcatElements
<1> QED BY <1>2, <1>3, <1>4, <1>5, <1>6

Rows(ROW) == ROW .. BlockEnd(N, ROW) - 1

LEMMA BlockOfMatrix ==
    ASSUME Dimensions, NEW ROW \in Nat, NEW COL \in Nat
    PROVE  /\ BlockEnd(N, ROW) \in Int /\ BlockEnd(M, COL) \in Int
           /\ Rows(ROW) \subseteq 0 .. N - 1 /\ Columns(COL) \subseteq 0 .. M - 1
<1>1. /\ BlockEnd(N, ROW) \in Int
      /\ \A k \in Int : k \in Rows(ROW) <=> ROW <= k /\ k < ROW + BLOCK /\ k < N
  BY BlockEnds DEF Rows, Dimensions
<1>2. /\ BlockEnd(M, COL) \in Int
      /\ \A k \in Int : k \in Columns(COL) <=> COL <= k /\ k < COL + BLOCK /\ k < M
  BY BlockEnds DEF Columns, Dimensions
<1>3. Rows(ROW) \subseteq Int /\ Columns(COL) \subseteq Int
  BY DEF Rows, Columns
<1> QED BY <1>1, <1>2, <1>3 DEF Dimensions

LEMMA DiagonalBlockStores ==
    ASSUME Dimensions, NEW S, Loads \cup Stores \subseteq S,
           NEW ROW \in Nat, NEW COL \in Nat, \A row \in Rows(ROW) : Transposed(row, row) \in S
    PROVE  /\ blocking_diag(M, N, ROW, COL) \in Seq(S)
           /\ \A row \in Rows(ROW) : \A c \in Columns(COL) \cup {row} :
                Transposed(row, c) \in Elements(blocking_diag(M, N, ROW, COL))
<1> DEFINE body == [row \in Rows(ROW) |-> DiagRow(M, N, COL, row)]
<1>1. \A row \in Rows(ROW) : row \in 0 .. N - 1
  BY BlockOfMatrix
<1>2. body \in [Rows(ROW) -> Seq(S)]
  BY <1>1, DiagRowStores
<1>3. \A row \in Rows(ROW) : \A c \in Columns(COL) \cup {row} : Transposed(row, c) \in Elements(body[row])
  BY <1>1, DiagRowStores
<1>4. blocking_diag(M, N, ROW, COL) = For(ROW, BlockEnd(N, ROW), body)
  BY DEF blocking_diag, Rows
<1>5. Loop(ROW, BlockEnd(N, ROW), body, S)
  BY <1>2, BlockOfMatrix DEF Loop, Rows
<1> HIDE DEF body
<1>6. /\ For(ROW, BlockEnd(N, ROW), body) \in Seq(S)
      /\ \A row \in Rows(ROW) : Elements(body[row]) \subseteq Elements(For(ROW, BlockEnd(N, ROW), body))
  BY <1>5, ForMakesAll DEF Rows
<1> QED BY <1>3, <1>4, <1>6

LEMMA RowOfBStores ==
    ASSUME Dimensions, NEW S, Loads \cup Stores \subseteq S,
           NEW ROW \in Nat, NEW c \in 0 .. M - 1
    PROVE  /\ RowOfB(M, N, ROW, c) \in Seq(S)
           /\ \A r \in Rows(ROW) : Transposed(r, c) \in Elements(RowOfB(M, N, ROW, c))
<1> DEFINE body == [r \in Rows(ROW) |-> Copy(M, N, r, c)]
<1>1. \A r \in Rows(ROW) : r \in 0 .. N - 1
  BY BlockOfMatrix
<1>2. body \in [Rows(ROW) -> Seq(S)]
  BY <1>1, CopyStores
<1>3. \A r \in Rows(ROW) : Transposed(r, c) \in Elements(body[r])
  BY <1>1, CopyStores
<1>4. RowOfB(M, N, ROW, c) = For(ROW, BlockEnd(N, ROW), body)
  BY DEF RowOfB, Rows
<1>5. Loop(ROW, BlockEnd(N, ROW), body, S)
  BY <1>2, BlockOfMatrix DEF Loop, Rows
<1> HIDE DEF body
<1>6. /\ For(ROW, BlockEnd(N, ROW), body) \in Seq(S)
      /\ \A r \in Rows(ROW) : Elements(body[r]) \subseteq Elements(For(ROW, BlockEnd(N, ROW), body))
  BY <1>5, ForMakesAll DEF Rows
<1> QED BY <1>3, <1>4, <1>6

LEMMA BlockStores ==
    ASSUME Dimensions, NEW S, Loads \cup Stores \subseteq S,
           NEW ROW \in Nat, NEW COL \in Nat,
           ROW = COL => \A row \in Rows(ROW) : Transposed(row, row) \in S
    PROVE  /\ blocking(M, N, ROW, COL) \in Seq(S)
           /\ \A r \in Rows(ROW), c \in Columns(COL) :
                Transposed(r, c) \in Elements(blocking(M, N, ROW, COL))
           /\ ROW = COL => \A row \in Rows(ROW) :
                Transposed(row, row) \in Elements(blocking(M, N, ROW, COL))
<1>1. CASE ROW = COL
  BY <1>1, DiagonalBlockStores DEF blocking
<1>2. CASE ROW # COL
  <2> DEFINE body == [c \in Columns(COL) |-> RowOfB(M, N, ROW, c)]
  <2>1. \A c \in Columns(COL) : c \in 0 .. M - 1
    BY BlockOfMatrix
  <2>2. body \in [Columns(COL) -> Seq(S)]
    BY <2>1, RowOfBStores
  <2>3. \A c \in Columns(COL), r \in Rows(ROW) : Transposed(r, c) \in Elements(body[c])
    BY <2>1, RowOfBStores
  <2>4. blocking(M, N, ROW, COL) = For(COL, BlockEnd(M, COL), body)
    BY <1>2 DEF blocking, Columns
  <2>5. Loop(COL, BlockEnd(M, COL), body, S)
    BY <2>2, BlockOfMatrix DEF Loop, Columns
  <2> HIDE DEF body
  <2>6. /\ For(COL, BlockEnd(M, COL), body) \in Seq(S)
        /\ \A c \in Columns(COL) :
                Elements(body[c]) \subseteq Elements(For(COL, BlockEnd(M, COL), body))
    BY <2>5, ForMakesAll DEF Columns
  <2> QED BY <1>2, <2>3, <2>4, <2>6
<1> QED BY <1>1, <1>2

-----------------------------------------------------------------------------
(* The blocks of a 64 x 64 matrix. *)

LEMMA FourStores ==
    ASSUME Dimensions, NEW S, Loads \cup Stores \subseteq S,
           NEW row \in 0 .. N - 1, NEW COL \in Nat, COL + HALF <= M
    PROVE  /\ LoadFour(M, row, COL) \in Seq(S) /\ StoreFour(M, N, row, COL) \in Seq(S)
           /\ Four(M, N, row, COL) \in Seq(S)
           /\ \A c \in COL .. COL + HALF - 1 :
                /\ Transposed(row, c) \in Elements(StoreFour(M, N, row, COL))
                /\ Transposed(row, c) \in Elements(Four(M, N, row, COL))
<1> DEFINE end == COL + HALF
           four == COL .. end - 1
           loads == [c \in four |-> <<Load(M, row, c)>>]
           stores == [c \in four |-> <<Transposed(row, c)>>]
<1>1. end \in Int /\ \A c \in four : c \in 0 .. M - 1
  BY DEF HALF, Dimensions
<1>2. LoadFour(M, row, COL) = For(COL, end, loads)
  BY DEF LoadFour, HALF
<1>3. StoreFour(M, N, row, COL) = For(COL, end, stores)
  BY DEF StoreFour, Transposed, HALF
<1> HIDE DEF end
<1>4. \A c \in four : Load(M, row, c) \in S /\ Transposed(row, c) \in S
  BY <1>1 DEF Loads, Stores
<1>5. loads \in [four -> Seq(S)] /\ stores \in [four -> Seq(S)]
  BY <1>4, OneElement
<1>6. \A c \in four : Transposed(row, c) \in Elements(stores[c])
  BY <1>4, OneElement
<1>7. Loop(COL, end, loads, S) /\ Loop(COL, end, stores, S)
  BY <1>1, <1>5 DEF Loop
<1> HIDE DEF loads, stores
<1>8. LoadFour(M, row, COL) \in Seq(S)
  BY <1>2, <1>7, ForMakesAll
<1>9. /\ StoreFour(M, N, row, COL) \in Seq(S)
      /\ \A c \in four : Elements(stores[c]) \subseteq Elements(StoreFour(M, N, row, COL))
  BY <1>3, <1>7, ForMakesAll
<1>10. /\ Four(M, N, row, COL) \in Seq(S)
       /\ Elements(StoreFour(M, N, row, COL)) \subseteq Elements(Four(M, N, row, COL))
  BY <1>8, <1>9, ConcatElements DEF Four
<1>11. \A c \in four :
            /\ Transposed(row, c) \in Elements(StoreFour(M, N, row, COL))
            /\ Transposed(row, c) \in Elements(Four(M, N, row, COL))
  BY <1>6, <1>9, <1>10
<1>12. four = COL .. COL + HALF - 1
  BY DEF end, HALF
<1> QED BY <1>8, <1>9, <1>10, <1>11, <1>12

LEMMA Block64Stores ==
    ASSUME Dimensions, NEW S, Loads \cup Stores \subseteq S,
           NEW ROW \in Nat, NEW COL \in Nat, ROW + BLOCK <= N, COL + BLOCK <= M
    PROVE  /\ blocking_64(M, N, ROW, COL) \in Seq(S)
           /\ \A r \in ROW .. ROW + BLOCK - 1, c \in COL .. COL + BLOCK - 1 :
                Transposed(r, c) \in Elements(blocking_64(M, N, ROW, COL))
<1> DEFINE RIGHT == COL + HALF
           down == [i \in 0 .. BLOCK - 1 |-> Four(M, N, ROW + i, COL)]
           up == [i \in 1 .. BLOCK - 1 |-> Four(M, N, ROW + BLOCK - i, RIGHT)]
           loaded == LoadFour(M, ROW, RIGHT)
           left == For(0, BLOCK, down)
           right == For(1, BLOCK, up)
           stored == StoreFour(M, N, ROW, RIGHT)
<1>1. /\ RIGHT \in Nat /\ RIGHT + HALF <= M /\ COL + HALF <= M
      /\ ROW \in 0 .. N - 1
      /\ \A i \in 0 .. BLOCK - 1 : ROW + i \in 0 .. N - 1
      /\ \A i \in 1 .. BLOCK - 1 : ROW + BLOCK - i \in 0 .. N - 1
  BY DEF BLOCK, HALF, Dimensions
<1>f. \A row \in 0 .. N - 1, from \in Nat : from + HALF <= M =>
        /\ LoadFour(M, row, from) \in Seq(S) /\ StoreFour(M, N, row, from) \in Seq(S)
        /\ Four(M, N, row, from) \in Seq(S)
        /\ \A c \in from .. from + HALF - 1 :
             /\ Transposed(row, c) \in Elements(StoreFour(M, N, row, from))
             /\ Transposed(row, c) \in Elements(Four(M, N, row, from))
  BY FourStores
<1>2. /\ down \in [0 .. BLOCK - 1 -> Seq(S)]
      /\ up \in [1 .. BLOCK - 1 -> Seq(S)]
  BY <1>1, <1>f
<1>3. /\ \A i \in 0 .. BLOCK - 1 : \A c \in COL .. COL + HALF - 1 :
            Transposed(ROW + i, c) \in Elements(down[i])
      /\ \A i \in 1 .. BLOCK - 1 : \A c \in RIGHT .. RIGHT + HALF - 1 :
            Transposed(ROW + BLOCK - i, c) \in Elements(up[i])
  <2>1. \A i \in 0 .. BLOCK - 1 : \A c \in COL .. COL + HALF - 1 :
            Transposed(ROW + i, c) \in Elements(Four(M, N, ROW + i, COL))
    <3> TAKE i \in 0 .. BLOCK - 1
    <3> DEFINE row == ROW + i
    <3>1. row \in 0 .. N - 1
      BY <1>1
    <3> HIDE DEF row
    <3>2. \A c \in COL .. COL + HALF - 1 : Transposed(row, c) \in Elements(Four(M, N, row, COL))
      BY <1>1, <3>1, <1>f
    <3> QED BY <3>2 DEF row
  <2> HIDE DEF RIGHT
  <2>2. \A i \in 1 .. BLOCK - 1 : \A c \in RIGHT .. RIGHT + HALF - 1 :
            Transposed(ROW + BLOCK - i, c) \in Elements(Four(M, N, ROW + BLOCK - i, RIGHT))
    <3> TAKE i \in 1 .. BLOCK - 1
    <3> DEFINE row == ROW + BLOCK - i
    <3>1. row \in 0 .. N - 1
      BY <1>1
    <3> HIDE DEF row
    <3>2. \A c \in RIGHT .. RIGHT + HALF - 1 :
            Transposed(row, c) \in Elements(Four(M, N, row, RIGHT))
      BY <1>1, <3>1, <1>f
    <3> QED BY <3>2 DEF row
  <2> QED BY <2>1, <2>2
<1>4. /\ loaded \in Seq(S) /\ stored \in Seq(S)
      /\ \A c \in RIGHT .. RIGHT + HALF - 1 : Transposed(ROW, c) \in Elements(stored)
  <2> HIDE DEF RIGHT
  <2>1. LoadFour(M, ROW, RIGHT) \in Seq(S) /\ StoreFour(M, N, ROW, RIGHT) \in Seq(S)
    BY <1>1, <1>f
  <2>2. \A c \in RIGHT .. RIGHT + HALF - 1 :
            Transposed(ROW, c) \in Elements(StoreFour(M, N, ROW, RIGHT))
    BY <1>1, <1>f
  <2> QED BY <2>1, <2>2
<1>5. blocking_64(M, N, ROW, COL) = ((loaded \o left) \o right) \o stored
  BY DEF blocking_64
<1>6. left \in Seq(S) /\ \A i \in 0 .. BLOCK - 1 : Elements(down[i]) \subseteq Elements(left)
  <2>1. Loop(0, BLOCK, down, S)
    BY <1>2 DEF Loop, BLOCK
  <2> HIDE DEF down
  <2> QED BY <2>1, ForMakesAll
<1>7. right \in Seq(S) /\ \A i \in 1 .. BLOCK - 1 : Elements(up[i]) \subseteq Elements(right)
  <2>1. Loop(1, BLOCK, up, S)
    BY <1>2 DEF Loop, BLOCK
  <2> HIDE DEF up
  <2> QED BY <2>1, ForMakesAll
<1> HIDE DEF down, up, loaded, left, right, stored
<1>8. loaded \o left \in Seq(S) /\ Elements(left) \subseteq Elements(loaded \o left)
  BY <1>4, <1>6, ConcatElements
<1>9. /\ (loaded \o left) \o right \in Seq(S)
      /\ Elements(loaded \o left) \subseteq Elements((loaded \o left) \o right)
      /\ Elements(right) \subseteq Elements((loaded \o left) \o right)
  BY <1>7, <1>8, ConcatElements
<1>10. /\ blocking_64(M, N, ROW, COL) \in Seq(S)
       /\ Elements((loaded \o left) \o right) \subseteq Elements(blocking_64(M, N, ROW, COL))
       /\ Elements(stored) \subseteq Elements(blocking_64(M, N, ROW, COL))
  BY <1>4, <1>5, <1>9, ConcatElements
<1>11. ASSUME NEW r \in ROW .. ROW + BLOCK - 1, NEW c \in COL .. COL + BLOCK - 1
       PROVE  Transposed(r, c) \in Elements(blocking_64(M, N, ROW, COL))
  <2>1. CASE c \in COL .. COL + HALF - 1
    <3>1. r - ROW \in 0 .. BLOCK - 1 /\ ROW + (r - ROW) = r
      BY DEF BLOCK
    <3>2. Transposed(ROW + (r - ROW), c) \in Elements(down[r - ROW])
      BY <1>3, <2>1, <3>1
    <3> QED BY <1>6, <1>8, <1>9, <1>10, <3>1, <3>2
  <2>2. CASE c \in RIGHT .. RIGHT + HALF - 1 /\ r # ROW
    <3> DEFINE i == BLOCK - (r - ROW)
    <3>1. i \in 1 .. BLOCK - 1 /\ ROW + BLOCK - i = r
      BY <2>2 DEF BLOCK
    <3> HIDE DEF i
    <3>2. Transposed(ROW + BLOCK - i, c) \in Elements(up[i])
      BY <1>3, <2>2, <3>1
    <3> QED BY <1>7, <1>9, <1>10, <3>1, <3>2
  <2>3. CASE c \in RIGHT .. RIGHT + HALF - 1 /\ r = ROW
    BY <1>4, <1>10, <2>3
  <2>4. c \in COL .. COL + HALF - 1 \/ c \in RIGHT .. RIGHT + HALF - 1
    BY DEF BLOCK, HALF
  <2> QED BY <2>1, <2>2, <2>3, <2>4
<1> QED BY <1>10, <1>11

-----------------------------------------------------------------------------
(* The calls of transpose_submit. *)

LEMMA BlocksCover ==
    ASSUME NEW length \in Nat \ {0}
    PROVE  /\ BlocksAlong(length) \in Nat \ {0}
           /\ BLOCK * (BlocksAlong(length) - 1) < length /\ length <= BLOCK * BlocksAlong(length)
BY DEF BlocksAlong, BLOCK

\* A product grows with its factors.
LEMMA ProductGrows ==
    ASSUME NEW x \in Nat, NEW y \in Nat, NEW z \in Nat, x <= y
    PROVE  z * x <= z * y /\ x * z <= y * z
<1>1. y - x \in Nat /\ z * (y - x) \in Nat /\ z * (y - x) = z * y - z * x
  OBVIOUS
<1>2. z * x = x * z /\ z * y = y * z /\ z * x \in Nat /\ z * y \in Nat
  OBVIOUS
<1> QED BY <1>1, <1>2

LEMMA PlaceOfCall ==
    ASSUME NEW rows \in Nat \ {0}, NEW columns \in Nat \ {0}, NEW k \in 0 .. rows * columns - 1
    PROVE  k \div columns \in 0 .. rows - 1 /\ k % columns \in 0 .. columns - 1
<1> DEFINE q == k \div columns
<1>1. /\ q \in Int /\ k % columns \in 0 .. columns - 1
      /\ k = columns * q + (k % columns)
  BY DivMod
<1> HIDE DEF q
<1>2. q >= 0
  <2> SUFFICES ASSUME q <= -1 PROVE FALSE
    BY <1>1
  <2>1. columns * 1 <= columns * (-q)
    BY <1>1, ProductGrows
  <2>2. columns * (-q) = -(columns * q) /\ columns * q \in Int
    BY <1>1
  <2> QED BY <1>1, <2>1, <2>2
<1>3. q < rows
  <2> SUFFICES ASSUME rows <= q PROVE FALSE
    BY <1>1
  <2>1. columns * rows <= columns * q
    BY <1>1, <1>2, ProductGrows
  <2>2. columns * rows = rows * columns /\ columns * rows \in Nat /\ columns * q \in Int
    BY <1>1
  <2> QED BY <1>1, <2>1, <2>2
<1> QED BY <1>1, <1>2, <1>3 DEF q

\* The k-th call has the block in the row q of blocks and in the column p.
IsCall(k, rows, columns, q, p) ==
    k \in 0 .. rows * columns - 1 /\ k \div columns = q /\ k % columns = p

LEMMA CallOfPlace ==
    ASSUME NEW rows \in Nat \ {0}, NEW columns \in Nat \ {0},
           NEW q \in 0 .. rows - 1, NEW p \in 0 .. columns - 1
    PROVE  \E k : IsCall(k, rows, columns, q, p)
<1> DEFINE k == columns * q + p
<1>1. columns * q \in Nat /\ k \in Nat /\ columns * (rows - 1) \in Nat
  OBVIOUS
<1>2. k < rows * columns
  <2>1. columns * q <= columns * (rows - 1)
    BY ProductGrows
  <2>2. columns * (rows - 1) = rows * columns - columns /\ rows * columns \in Nat
    OBVIOUS
  <2> QED BY <1>1, <2>1, <2>2
<1>3. k \in 0 .. rows * columns - 1
  BY <1>1, <1>2
<1> DEFINE d == k \div columns
           m == k % columns
<1>4. d \in Int /\ m \in 0 .. columns - 1 /\ k = columns * d + m
  BY <1>1, DivMod
<1> HIDE DEF d, m
<1>5. d = q /\ m = p
  BY <1>4, QuotientIsUnique
<1>6. IsCall(k, rows, columns, q, p)
  BY <1>3, <1>5 DEF d, m, IsCall
<1> QED BY <1>6

\* The rows that the last diagonal block has beyond B.
SpilledRows == M .. Least(N, BLOCK * BlocksAlong(M)) - 1
Spills == {Transposed(row, row) : row \in SpilledRows}

LEMMA SubmitStoresRight ==
    ASSUME M \in Nat \ {0}, N \in Nat \ {0}, NEW S, Loads \cup Stores \cup Spills \subseteq S,
           NEW q \in 0 .. BlocksAlong(N) - 1, NEW p \in 0 .. BlocksAlong(M) - 1
    PROVE  LET ROW == BLOCK * q
               COL == BLOCK * p
               made == trans_function(M, N, ROW, COL)
           IN  /\ made \in Seq(S)
               /\ \A r \in Rows(ROW), c \in Columns(COL) : Transposed(r, c) \in Elements(made)
               /\ ROW = COL /\ (M # 64 \/ N # 64) =>
                    \A row \in Rows(ROW) : Transposed(row, row) \in Elements(made)
<1> DEFINE ROW == BLOCK * q
           COL == BLOCK * p
<1>1. Dimensions /\ ROW \in Nat /\ COL \in Nat
  BY DEF Dimensions, BLOCK
<1>2. ROW < N /\ COL < M
  <2>1. BlocksAlong(N) \in Nat /\ BlocksAlong(M) \in Nat
    BY BlocksCover
  <2>2. BLOCK * (BlocksAlong(N) - 1) < N /\ BLOCK * (BlocksAlong(M) - 1) < M
    BY BlocksCover
  <2> QED BY <2>1, <2>2 DEF BLOCK
<1>3. /\ \A r \in Rows(ROW) : r \in Int /\ ROW <= r /\ r < ROW + BLOCK /\ r < N
      /\ \A c \in Columns(COL) : c \in Int /\ COL <= c /\ c < COL + BLOCK /\ c < M
  <2>1. /\ \A r \in Int : r \in Rows(ROW) <=> ROW <= r /\ r < ROW + BLOCK /\ r < N
        /\ \A c \in Int : c \in Columns(COL) <=> COL <= c /\ c < COL + BLOCK /\ c < M
    BY <1>1, BlockEnds DEF Rows, Columns, Dimensions
  <2>2. Rows(ROW) \subseteq Int /\ Columns(COL) \subseteq Int
    BY DEF Rows, Columns
  <2> QED BY <2>1, <2>2
<1>4. CASE M = 64 /\ N = 64
  <2>1. ROW + BLOCK <= N /\ COL + BLOCK <= M
    BY <1>2, <1>4 DEF BLOCK
  <2>2. /\ blocking_64(M, N, ROW, COL) \in Seq(S)
        /\ \A r \in ROW .. ROW + BLOCK - 1, c \in COL .. COL + BLOCK - 1 :
                Transposed(r, c) \in Elements(blocking_64(M, N, ROW, COL))
    BY <1>1, <2>1, Block64Stores
  <2>3. trans_function(M, N, ROW, COL) = blocking_64(M, N, ROW, COL)
    BY <1>4 DEF trans_function
  <2>4. /\ \A r \in Rows(ROW) : r \in ROW .. ROW + BLOCK - 1
        /\ \A c \in Columns(COL) : c \in COL .. COL + BLOCK - 1
    BY <1>1, <1>3 DEF BLOCK
  <2> HIDE DEF ROW, COL
  <2>5. /\ trans_function(M, N, ROW, COL) \in Seq(S)
        /\ \A r \in Rows(ROW), c \in Columns(COL) :
                Transposed(r, c) \in Elements(trans_function(M, N, ROW, COL))
    BY <2>2, <2>3, <2>4
  <2> QED BY <1>4, <2>5 DEF ROW, COL
<1>5. CASE M # 64 \/ N # 64
  <2>1. ASSUME ROW = COL, NEW row \in Rows(ROW)
        PROVE  Transposed(row, row) \in S
    <3>1. row \in Int /\ 0 <= row /\ row < N /\ row < COL + BLOCK
      BY <1>1, <1>3, <2>1
    <3>2. CASE row < M
      <4>1. row \in 0 .. N - 1 /\ row \in 0 .. M - 1
        BY <3>1, <3>2
      <4> QED BY <4>1 DEF Stores
    <3>3. CASE ~(row < M)
      <4>1. row < BLOCK * BlocksAlong(M)
        <5>1. BlocksAlong(M) \in Nat
          BY BlocksCover
        <5> QED BY <3>1, <5>1 DEF BLOCK
      <4>2. BLOCK * BlocksAlong(M) \in Int
        BY BlocksCover DEF BLOCK
      <4>3. row \in SpilledRows
        BY <3>1, <3>3, <4>1, <4>2 DEF SpilledRows, Least
      <4> QED BY <4>3 DEF Spills
    <3> QED BY <3>2, <3>3
  <2>2. trans_function(M, N, ROW, COL) = blocking(M, N, ROW, COL)
    BY <1>5 DEF trans_function
  <2> HIDE DEF ROW, COL
  <2>3. /\ blocking(M, N, ROW, COL) \in Seq(S)
        /\ \A r \in Rows(ROW), c \in Columns(COL) :
                Transposed(r, c) \in Elements(blocking(M, N, ROW, COL))
        /\ ROW = COL => \A row \in Rows(ROW) :
                Transposed(row, row) \in Elements(blocking(M, N, ROW, COL))
    BY <1>1, <2>1, BlockStores
  <2> QED BY <2>2, <2>3 DEF ROW, COL
<1> QED BY <1>4, <1>5

-----------------------------------------------------------------------------
(* The pieces that tracegen runs. *)

Sized == M \in Nat \ {0} /\ N \in Nat \ {0}

\* The function under evaluation is a registered one.
Registered == func \in 1 .. 2 /\ func_list[func].description = registerFunctions[func]

\* The loads and stores a function may make: of A[r][c] to B[c][r], and of
\* transpose_submit also behind B.
Right == Loads \cup Stores \cup (IF func = 1 THEN Spills ELSE {})

LEMMA PiecesOfFunction ==
    ASSUME Registered
    PROVE  /\ func = 1 => /\ Pieces = BlocksAlong(N) * BlocksAlong(M)
                          /\ \A k : Accesses(k) = transpose_submit(M, N, k)
           /\ func = 2 => Pieces = N /\ \A k : Accesses(k) = trans(M, N, k)
<1>0. /\ registerFunctions[1] = "Transpose submission"
      /\ registerFunctions[2] = "Simple row-wise scan transpose"
  BY DEF registerFunctions
<1>1. func = 1 => func_list[func].description = "Transpose submission"
  BY <1>0 DEF Registered
<1>2. func = 2 => func_list[func].description # "Transpose submission"
  BY <1>0 DEF Registered
<1> QED BY <1>1, <1>2 DEF Pieces, Accesses

LEMMA PieceStoresRight ==
    ASSUME Sized, Registered, NEW k \in 0 .. Pieces - 1
    PROVE  Accesses(k) \in Seq(Right)
<1>1. CASE func = 1
  <2>1. k \in 0 .. BlocksAlong(N) * BlocksAlong(M) - 1
    BY <1>1, PiecesOfFunction
  <2>2. k \div BlocksAlong(M) \in 0 .. BlocksAlong(N) - 1 /\ k % BlocksAlong(M) \in 0 .. BlocksAlong(M) - 1
    BY <2>1, BlocksCover, PlaceOfCall DEF Sized
  <2>3. Loads \cup Stores \cup Spills \subseteq Right
    BY <1>1 DEF Right
  <2>4. trans_function(M, N, BLOCK * (k \div BlocksAlong(M)), BLOCK * (k % BlocksAlong(M))) \in Seq(Right)
    BY <2>2, <2>3, SubmitStoresRight DEF Sized
  <2> QED BY <1>1, <2>4, PiecesOfFunction DEF transpose_submit
<1>2. CASE func = 2
  <2>1. k \in 0 .. N - 1 /\ Dimensions /\ Loads \cup Stores \subseteq Right
    BY <1>2, PiecesOfFunction DEF Sized, Dimensions, Right
  <2> QED BY <1>2, <2>1, PiecesOfFunction, TransStores
<1> QED BY <1>1, <1>2 DEF Registered

LEMMA BlockOfIndex ==
    ASSUME NEW length \in Nat \ {0}, NEW k \in 0 .. length - 1
    PROVE  /\ k \div BLOCK \in 0 .. BlocksAlong(length) - 1
           /\ k \in BLOCK * (k \div BLOCK) .. BlockEnd(length, BLOCK * (k \div BLOCK)) - 1
<1>1. k \div BLOCK \in Nat /\ BLOCK * (k \div BLOCK) <= k /\ k < BLOCK * (k \div BLOCK) + BLOCK
  BY DEF BLOCK
<1>2. BlocksAlong(length) \in Nat /\ length <= BLOCK * BlocksAlong(length)
  BY BlocksCover
<1>3. k \div BLOCK < BlocksAlong(length)
  BY <1>1, <1>2 DEF BLOCK
<1>4. BLOCK * (k \div BLOCK) \in Nat
  BY <1>1 DEF BLOCK
<1> QED BY <1>1, <1>2, <1>3, <1>4, BlockEnds

\* transpose_submit stores each cell of A in one of its blocks, and with its last
\* diagonal block those of the diagonal behind B.
LEMMA SubmitStoresAll ==
    ASSUME Sized, Registered, func = 1
    PROVE  /\ \A r \in 0 .. N - 1, c \in 0 .. M - 1 :
                \E k \in 0 .. Pieces - 1 : Transposed(r, c) \in Elements(Accesses(k))
           /\ \A row \in SpilledRows :
                \E k \in 0 .. Pieces - 1 : Transposed(row, row) \in Elements(Accesses(k))
<1>1. BlocksAlong(N) \in Nat \ {0} /\ BlocksAlong(M) \in Nat \ {0}
  BY BlocksCover DEF Sized
<1>2. ASSUME NEW q \in 0 .. BlocksAlong(N) - 1, NEW p \in 0 .. BlocksAlong(M) - 1
      PROVE  \E k \in 0 .. Pieces - 1 : Accesses(k) = trans_function(M, N, BLOCK * q, BLOCK * p)
  <2>1. PICK k : IsCall(k, BlocksAlong(N), BlocksAlong(M), q, p)
    BY <1>1, CallOfPlace
  <2> QED BY <2>1, PiecesOfFunction DEF transpose_submit, IsCall
<1>3. Loads \cup Stores \cup Spills \subseteq Right
  BY DEF Right
<1>4. ASSUME NEW r \in 0 .. N - 1, NEW c \in 0 .. M - 1
      PROVE  \E k \in 0 .. Pieces - 1 : Transposed(r, c) \in Elements(Accesses(k))
  <2> DEFINE q == r \div BLOCK
             p == c \div BLOCK
  <2>1. /\ q \in 0 .. BlocksAlong(N) - 1 /\ r \in Rows(BLOCK * q)
        /\ p \in 0 .. BlocksAlong(M) - 1 /\ c \in Columns(BLOCK * p)
    BY BlockOfIndex DEF Rows, Columns, Sized
  <2> HIDE DEF q, p
  <2>2. Transposed(r, c) \in Elements(trans_function(M, N, BLOCK * q, BLOCK * p))
    BY <1>3, <2>1, SubmitStoresRight DEF Sized
  <2> QED BY <1>2, <2>1, <2>2
<1>5. ASSUME NEW row \in SpilledRows
      PROVE  \E k \in 0 .. Pieces - 1 : Transposed(row, row) \in Elements(Accesses(k))
  <2> DEFINE q == row \div BLOCK
  <2>1. BLOCK * BlocksAlong(M) \in Int
    BY <1>1 DEF BLOCK
  <2>2. row \in Int /\ M <= row /\ row < N /\ row < BLOCK * BlocksAlong(M)
    BY <2>1 DEF SpilledRows, Least, Sized
  <2>3. q \in 0 .. BlocksAlong(N) - 1 /\ row \in Rows(BLOCK * q)
    BY <2>2, BlockOfIndex DEF Rows, Sized
  <2>4. q \in 0 .. BlocksAlong(M) - 1
    BY <1>1, <2>2 DEF BLOCK, Sized
  <2> HIDE DEF q
  <2>5. M # N
    BY <2>2 DEF Sized
  <2>6. Transposed(row, row) \in Elements(trans_function(M, N, BLOCK * q, BLOCK * q))
    BY <1>3, <2>3, <2>4, <2>5, SubmitStoresRight DEF Sized
  <2> QED BY <1>2, <2>3, <2>4, <2>6
<1> QED BY <1>4, <1>5

LEMMA FunctionStoresAll ==
    ASSUME Sized, Registered, NEW r \in 0 .. N - 1, NEW c \in 0 .. M - 1
    PROVE  \E k \in 0 .. Pieces - 1 : Transposed(r, c) \in Elements(Accesses(k))
<1>1. CASE func = 1
  BY <1>1, SubmitStoresAll
<1>2. CASE func = 2
  <2>1. Transposed(r, c) \in Elements(trans(M, N, r))
    BY TransStores DEF Dimensions, Sized
  <2> QED BY <1>2, <2>1, PiecesOfFunction
<1> QED BY <1>1, <1>2 DEF Registered

-----------------------------------------------------------------------------
(* What the accesses leave in memory. *)

IsStore(x) == x.matrix = "B"

LEMMA LargestExists ==
    ASSUME NEW n \in Nat, NEW I, I \subseteq 1 .. n, I # {}
    PROVE  Max(I) \in I
<1> DEFINE Rest == {n - k : k \in I}
<1>1. Rest \subseteq Nat /\ Rest # {}
  <2>1. \A k \in I : k \in 1 .. n /\ n - k \in Nat
    OBVIOUS
  <2> QED BY <2>1
<1> HIDE DEF Rest
<1>2. PICK d \in Rest : \A e \in Rest : d <= e
  BY <1>1, LeastExists
<1> USE DEF Rest
<1>3. PICK k \in I : d = n - k
  BY <1>2
<1>4. \A j \in I : k >= j
  <2> SUFFICES ASSUME NEW j \in I PROVE k >= j
    OBVIOUS
  <2>1. n - k <= n - j
    BY <1>2, <1>3
  <2> QED BY <2>1
<1> HIDE DEF Rest
<1> QED BY <1>4 DEF Max

\* A cell holds what it held, or the value of a store to it; it is stored to when there
\* is one.
LEMMA AfterStores ==
    ASSUME NEW S, NEW s \in Seq(S), NEW held
    PROVE  /\ DOMAIN held \subseteq DOMAIN After(held, s)
           /\ \A x \in Elements(s) : IsStore(x) => x.cell \in DOMAIN After(held, s)
           /\ \A c \in DOMAIN After(held, s) :
                \/ /\ c \in DOMAIN held /\ After(held, s)[c] = held[c]
                   /\ ~ \E x \in Elements(s) : IsStore(x) /\ x.cell = c
                \/ \E x \in Elements(s) : IsStore(x) /\ x.cell = c /\ After(held, s)[c] = x.value
<1> DEFINE stores(c) == {k \in DOMAIN s : IsStore(s[k]) /\ s[k].cell = c}
           written == {s[k].cell : k \in {k \in DOMAIN s : IsStore(s[k])}}
           new == [c \in DOMAIN held \cup written |->
                        IF c \in written THEN s[Max(stores(c))].value ELSE held[c]]
<1>1. After(held, s) = new
  BY DEF After, IsStore
<1>2. \A x \in Elements(s) : IsStore(x) => x.cell \in written
  BY DEF Elements
<1>3. ASSUME NEW c \in written
      PROVE  \E x \in Elements(s) : IsStore(x) /\ x.cell = c /\ s[Max(stores(c))].value = x.value
  <2>1. stores(c) # {} /\ stores(c) \subseteq 1 .. Len(s) /\ Len(s) \in Nat
    OBVIOUS
  <2> DEFINE I == stores(c)
             k == Max(I)
  <2> HIDE DEF I
  <2>2. k \in I
    BY <2>1, LargestExists DEF I
  <2> HIDE DEF k
  <2>3. k \in DOMAIN s /\ IsStore(s[k]) /\ s[k].cell = c
    BY <2>2 DEF I
  <2>4. s[k] \in Elements(s)
    BY <2>3 DEF Elements
  <2>5. s[Max(stores(c))].value = s[k].value
    BY DEF k, I
  <2> QED BY <2>3, <2>4, <2>5
<1>4. \A c \in DOMAIN new :
        \/ /\ c \in DOMAIN held /\ new[c] = held[c]
           /\ ~ \E x \in Elements(s) : IsStore(x) /\ x.cell = c
        \/ \E x \in Elements(s) : IsStore(x) /\ x.cell = c /\ new[c] = x.value
  <2> SUFFICES ASSUME NEW c \in DOMAIN held \cup written
               PROVE  \/ /\ c \in DOMAIN held /\ new[c] = held[c]
                         /\ ~ \E x \in Elements(s) : IsStore(x) /\ x.cell = c
                      \/ \E x \in Elements(s) : IsStore(x) /\ x.cell = c /\ new[c] = x.value
    OBVIOUS
  <2>1. CASE c \in written
    <3>1. new[c] = s[Max(stores(c))].value
      BY <2>1
    <3> HIDE DEF new, stores, written
    <3> QED BY <1>3, <2>1, <3>1
  <2>2. CASE c \notin written
    <3>1. new[c] = held[c] /\ c \in DOMAIN held
      BY <2>2
    <3> HIDE DEF new, stores, written
    <3> QED BY <1>2, <2>2, <3>1
  <2> QED BY <2>1, <2>2
<1>5. DOMAIN new = DOMAIN held \cup written
  OBVIOUS
<1> HIDE DEF new, written
<1> QED BY <1>1, <1>2, <1>4, <1>5

\* A store of a function is that of A[r][c] to B[c][r]; no other store to this cell
\* has another value.
LEMMA StoreIsTransposed ==
    ASSUME Sized, NEW x \in Right, IsStore(x)
    PROVE  \E r \in 0 .. N - 1, c \in Nat :
                /\ x.cell = c * N + r /\ x.value = r * M + c
                /\ c \in 0 .. M - 1 \/ (func = 1 /\ c = r /\ r \in SpilledRows)
<1>1. x \notin Loads
  BY DEF IsStore, Loads, Load
<1>2. CASE x \in Stores
  <2>1. PICK r \in 0 .. N - 1, c \in 0 .. M - 1 : x = Transposed(r, c)
    BY <1>2 DEF Stores
  <2>2. x.cell = c * N + r /\ x.value = r * M + c
    BY <2>1 DEF Transposed, Store, Load
  <2>3. c \in Nat
    BY DEF Sized
  <2> QED BY <2>2, <2>3
<1>3. CASE func = 1 /\ x \in Spills
  <2>1. PICK r \in SpilledRows : x = Transposed(r, r)
    BY <1>3 DEF Spills
  <2>2. x.cell = r * N + r /\ x.value = r * M + r
    BY <2>1 DEF Transposed, Store, Load
  <2>3. BLOCK * BlocksAlong(M) \in Int
    BY BlocksCover DEF Sized, BLOCK
  <2>4. r \in Nat /\ r \in 0 .. N - 1
    BY <2>3 DEF SpilledRows, Least, Sized
  <2> QED BY <1>3, <2>2, <2>4
<1> QED BY <1>1, <1>2, <1>3 DEF Right

-----------------------------------------------------------------------------
(* The inductive invariant. *)

\* An entry of func_list whose other fields hold values of V.
Entry(V) == [description : V, correct : V, hits : V, misses : V, evictions : V]

RegisteredList(list) ==
    /\ \E V : list \in [1 .. 2 -> Entry(V)]
    /\ \A f \in 1 .. 2 : list[f].description = registerFunctions[f]

FuncsRegistered == RegisteredList(func_list)

\* Where eval_perf is: no accesses of a piece are left over between the pieces.
TransShape ==
    /\ step \in {"main", "register", "tracegen", "csim", "end"}
    /\ step = "main" => func = 1 /\ at = 0
    /\ step = "register" => Sized /\ FuncsRegistered /\ func \in 1 .. 3 /\ at = 0
    /\ step \in {"tracegen", "csim"} =>
            /\ Sized /\ FuncsRegistered /\ func \in 1 .. 2
            /\ piece \in 0 .. Pieces /\ at \in Nat /\ (piece = Pieces => at = 0)

\* A cell has been stored to.
Kept(cell) == cell \in DOMAIN memory /\ memory[cell] # Random

\* Only cells of B and those behind it that are spilled to are stored to.
OnlyRightCells ==
    /\ 0 .. M * N - 1 \subseteq DOMAIN memory
    /\ DOMAIN memory \subseteq (0 .. M * N - 1) \cup (IF func = 1 THEN Spilled ELSE {})

\* A cell of B holds what tracegen put there, or the cell of A that it is to hold.
OnlyRightValues == \A r \in 0 .. N - 1, c \in 0 .. M - 1 : memory[c * N + r] \in {Random, r * M + c}

\* What the pieces before this one were to store is stored, and of this one what its
\* first accesses were to store.
AllKept ==
    /\ \A k \in 0 .. piece - 1 : \A x \in Elements(Accesses(k)) : IsStore(x) => Kept(x.cell)
    /\ piece < Pieces =>
            \A n \in DOMAIN Accesses(piece) :
                n <= at /\ IsStore(Accesses(piece)[n]) => Kept(Accesses(piece)[n].cell)

TransInv == TransShape /\ (step = "tracegen" => OnlyRightCells /\ OnlyRightValues /\ AllKept)

LEMMA PiecesExist ==
    ASSUME Sized, Registered
    PROVE  Pieces \in Nat \ {0}
<1>1. BlocksAlong(N) \in Nat \ {0} /\ BlocksAlong(M) \in Nat \ {0}
  BY BlocksCover DEF Sized
<1>2. BlocksAlong(N) * BlocksAlong(M) \in Nat \ {0}
  <2> DEFINE x == BlocksAlong(N)
             y == BlocksAlong(M)
  <2>1. x \in Nat \ {0} /\ y \in Nat \ {0}
    BY <1>1
  <2> HIDE DEF x, y
  <2>2. x * y \in Nat \ {0}
    BY <2>1
  <2> QED BY <2>2 DEF x, y
<1> QED BY <1>2, PiecesOfFunction DEF Registered, Sized

\* A cell of B holds one cell of A.
LEMMA CellsOfB ==
    ASSUME Sized, NEW r \in 0 .. N - 1, NEW c \in Nat
    PROVE  /\ c \in 0 .. M - 1 => c * N + r \in 0 .. M * N - 1
           /\ M <= c => c * N + r \notin 0 .. M * N - 1
           /\ \A q \in 0 .. N - 1, p \in Nat : c * N + r = p * N + q => c = p /\ r = q
<1>1. c * N \in Nat /\ M * N \in Nat /\ (M - 1) * N \in Nat /\ (M - 1) * N = M * N - N
  BY DEF Sized
<1>2. ASSUME c \in 0 .. M - 1 PROVE c * N + r \in 0 .. M * N - 1
  <2>1. c * N <= (M - 1) * N
    BY <1>2, ProductGrows DEF Sized
  <2> QED BY <1>1, <2>1 DEF Sized
<1>3. ASSUME M <= c PROVE c * N + r \notin 0 .. M * N - 1
  <2>1. M * N <= c * N
    BY <1>3, ProductGrows DEF Sized
  <2> QED BY <1>1, <2>1 DEF Sized
<1>4. ASSUME NEW q \in 0 .. N - 1, NEW p \in Nat, c * N + r = p * N + q
      PROVE  c = p /\ r = q
  <2>1. N * c + r = N * p + q
    <3>1. N * c = c * N /\ N * p = p * N
      BY DEF Sized
    <3> QED BY <1>4, <3>1
  <2> QED BY <2>1, QuotientIsUnique DEF Sized
<1> QED BY <1>2, <1>3, <1>4

\* When all the pieces have run, B is the transpose of A and the spilled cells are stored.
LEMMA FinishedIsRight ==
    ASSUME TransInv, step = "tracegen", piece = Pieces
    PROVE  /\ validate
           /\ DOMAIN memory \ (0 .. M * N - 1) = IF func = 1 THEN Spilled ELSE {}
<1>1. Sized /\ Registered /\ OnlyRightCells /\ OnlyRightValues /\ AllKept
  BY DEF TransInv, TransShape, Registered, FuncsRegistered, RegisteredList
<1>2. \A k \in 0 .. Pieces - 1 : \A x \in Elements(Accesses(k)) : IsStore(x) => Kept(x.cell)
  BY <1>1 DEF AllKept
<1>3. \A r, c : /\ IsStore(Transposed(r, c)) /\ Transposed(r, c).cell = c * N + r
                /\ Transposed(r, c).value = r * M + c
  BY DEF Transposed, Store, Load, IsStore
<1>4. validate
  <2> SUFFICES ASSUME NEW r \in 0 .. N - 1, NEW c \in 0 .. M - 1
               PROVE  memory[c * N + r] = r * M + c
    BY DEF validate
  <2>1. PICK k \in 0 .. Pieces - 1 : Transposed(r, c) \in Elements(Accesses(k))
    BY <1>1, FunctionStoresAll
  <2>2. Kept(c * N + r)
    BY <1>2, <1>3, <2>1
  <2> QED BY <1>1, <2>2 DEF Kept, OnlyRightValues
<1>5. DOMAIN memory \ (0 .. M * N - 1) \subseteq IF func = 1 THEN Spilled ELSE {}
  BY <1>1 DEF OnlyRightCells
<1>6. ASSUME func = 1, NEW cell \in Spilled
      PROVE  cell \in DOMAIN memory /\ cell \notin 0 .. M * N - 1
  <2>1. PICK row \in SpilledRows : cell = row * N + row
    BY DEF Spilled, SpilledRows
  <2>2. BLOCK * BlocksAlong(M) \in Int
    BY <1>1, BlocksCover DEF Sized, BLOCK
  <2>3. row \in Nat /\ row \in 0 .. N - 1 /\ M <= row
    BY <1>1, <2>2 DEF SpilledRows, Least, Sized
  <2>4. cell \notin 0 .. M * N - 1
    BY <1>1, <2>1, <2>3, CellsOfB
  <2>5. PICK k \in 0 .. Pieces - 1 : Transposed(row, row) \in Elements(Accesses(k))
    BY <1>1, <1>6, SubmitStoresAll
  <2> QED BY <1>2, <1>3, <2>1, <2>4, <2>5 DEF Kept
<1> QED BY <1>4, <1>5, <1>6

-----------------------------------------------------------------------------
(* Each step preserves the invariant. *)

LEMMA LumpIsOfPiece ==
    ASSUME Sized, Registered, piece \in 0 .. Pieces - 1, at \in Nat
    PROVE  /\ Lump \in Seq(Right)
           /\ \A n \in DOMAIN Accesses(piece) :
                at < n /\ n <= at + LUMP => Accesses(piece)[n] \in Elements(Lump)
<1> DEFINE A == Accesses(piece)
           last == Least(at + LUMP, Len(A))
<1>1. A \in Seq(Right) /\ Len(A) \in Nat /\ DOMAIN A = 1 .. Len(A)
  BY PieceStoresRight
<1>2. LUMP \in Nat /\ at + LUMP \in Nat
  BY LumpAssumption
<1>3. last \in Nat /\ last <= Len(A) /\ \A n \in 1 .. Len(A) : n <= at + LUMP => n <= last
  BY <1>1, <1>2 DEF Least
<1>4. Lump = SubSeq(A, at + 1, last)
  BY DEF Lump
<1> HIDE DEF A, last
<1>5. ASSUME NEW n \in at + 1 .. last PROVE n \in 1 .. Len(A) /\ A[n] \in Right
  BY <1>1, <1>3
<1>6. SubSeq(A, at + 1, last) = [n \in 1 .. last - at |-> A[n + at]]
  BY <1>1, <1>3
<1>7. SubSeq(A, at + 1, last) \in Seq(Right)
  BY <1>1, <1>3, <1>5
<1>8. ASSUME NEW n \in DOMAIN A, at < n, n <= at + LUMP
      PROVE  A[n] \in Elements(Lump)
  <2>1. n \in 1 .. Len(A) /\ n - at \in 1 .. last - at /\ (n - at) + at = n
    BY <1>1, <1>3, <1>8
  <2>2. n - at \in DOMAIN Lump /\ Lump[n - at] = A[n]
    BY <1>4, <1>6, <2>1
  <2> QED BY <2>2 DEF Elements
<1> QED BY <1>4, <1>7, <1>8 DEF A

\* What a lump of accesses stores stays stored, and is right.
LEMMA LumpKeepsMemory ==
    ASSUME TransInv, step = "tracegen", piece < Pieces, memory' = After(memory, Lump),
           UNCHANGED <<M, N, func>>
    PROVE  /\ OnlyRightCells' /\ OnlyRightValues'
           /\ \A cell : Kept(cell) => Kept(cell)'
           /\ \A x \in Elements(Lump) : IsStore(x) => Kept(x.cell)'
<1>1. /\ Sized /\ Registered /\ OnlyRightCells /\ OnlyRightValues
      /\ piece \in 0 .. Pieces - 1 /\ at \in Nat
  <2>1. Sized /\ Registered /\ OnlyRightCells /\ OnlyRightValues /\ piece \in 0 .. Pieces /\ at \in Nat
    BY DEF TransInv, TransShape, Registered, FuncsRegistered, RegisteredList
  <2>2. Pieces \in Nat
    BY <2>1, PiecesExist
  <2> QED BY <2>1, <2>2
<1>2. Lump \in Seq(Right)
  BY <1>1, LumpIsOfPiece
<1>3. Elements(Lump) \subseteq Right
  BY <1>2 DEF Elements
<1>4. /\ DOMAIN memory \subseteq DOMAIN memory'
      /\ \A x \in Elements(Lump) : IsStore(x) => x.cell \in DOMAIN memory'
      /\ \A cell \in DOMAIN memory' :
            \/ /\ cell \in DOMAIN memory /\ memory'[cell] = memory[cell]
               /\ ~ \E x \in Elements(Lump) : IsStore(x) /\ x.cell = cell
            \/ \E x \in Elements(Lump) : IsStore(x) /\ x.cell = cell /\ memory'[cell] = x.value
  BY <1>2, AfterStores
<1>5. ASSUME NEW x \in Elements(Lump), IsStore(x)
      PROVE  \E r \in 0 .. N - 1, c \in Nat :
                /\ x.cell = c * N + r /\ x.value = r * M + c
                /\ c \in 0 .. M - 1 \/ (func = 1 /\ c = r /\ r \in SpilledRows)
  BY <1>1, <1>3, <1>5, StoreIsTransposed
<1>6. ASSUME NEW x \in Elements(Lump), IsStore(x)
      PROVE  x.value # Random
  <2>1. PICK r \in 0 .. N - 1, c \in Nat : x.value = r * M + c
    BY <1>5, <1>6
  <2>2. r * M \in Nat
    BY <1>1 DEF Sized
  <2> QED BY <2>1, <2>2 DEF Random
<1>7. ASSUME NEW cell, Kept(cell) PROVE Kept(cell)'
  BY <1>4, <1>6, <1>7 DEF Kept
<1>8. ASSUME NEW x \in Elements(Lump), IsStore(x) PROVE Kept(x.cell)'
  BY <1>4, <1>6, <1>8 DEF Kept
<1>9. OnlyRightCells'
  <2>1. ASSUME NEW cell \in DOMAIN memory', cell \notin DOMAIN memory
        PROVE  cell \in (0 .. M * N - 1) \cup (IF func = 1 THEN Spilled ELSE {})
    <3>1. PICK x \in Elements(Lump) : IsStore(x) /\ x.cell = cell
      BY <1>4, <2>1
    <3>2. PICK r \in 0 .. N - 1, c \in Nat :
                /\ x.cell = c * N + r
                /\ c \in 0 .. M - 1 \/ (func = 1 /\ c = r /\ r \in SpilledRows)
      BY <1>5, <3>1
    <3>3. CASE c \in 0 .. M - 1
      BY <1>1, <3>1, <3>2, <3>3, CellsOfB
    <3>4. CASE func = 1 /\ c = r /\ r \in SpilledRows
      BY <3>1, <3>2, <3>4 DEF Spilled, SpilledRows
    <3> QED BY <3>2, <3>3, <3>4
  <2>2. Spilled' = Spilled
    BY DEF Spilled
  <2> QED BY <1>1, <1>4, <2>1, <2>2 DEF OnlyRightCells
<1>10. OnlyRightValues'
  <2> SUFFICES ASSUME NEW r \in 0 .. N - 1, NEW c \in 0 .. M - 1
               PROVE  memory'[c * N + r] \in {Random, r * M + c}
    BY DEF OnlyRightValues, Random
  <2> DEFINE cell == c * N + r
  <2>1. c \in Nat /\ cell \in 0 .. M * N - 1
    BY <1>1, CellsOfB DEF Sized
  <2>2. cell \in DOMAIN memory'
    BY <1>1, <1>4, <2>1 DEF OnlyRightCells
  <2>3. memory[cell] \in {Random, r * M + c}
    BY <1>1 DEF OnlyRightValues
  <2>4. CASE \E x \in Elements(Lump) : IsStore(x) /\ x.cell = cell /\ memory'[cell] = x.value
    <3>1. PICK x \in Elements(Lump) : IsStore(x) /\ x.cell = cell /\ memory'[cell] = x.value
      BY <2>4
    <3>2. PICK q \in 0 .. N - 1, p \in Nat : x.cell = p * N + q /\ x.value = q * M + p
      BY <1>5, <3>1
    <3>3. c = p /\ r = q
      BY <1>1, <2>1, <3>1, <3>2, CellsOfB
    <3> QED BY <3>1, <3>2, <3>3
  <2> DEFINE value == r * M + c
  <2> HIDE DEF cell, value
  <2>5. memory'[cell] \in {Random, value}
    <3>1. memory[cell] \in {Random, value}
      BY <2>3 DEF value
    <3>2. CASE cell \in DOMAIN memory /\ memory'[cell] = memory[cell]
      BY <3>1, <3>2
    <3>3. CASE \E x \in Elements(Lump) : IsStore(x) /\ x.cell = cell /\ memory'[cell] = x.value
      BY <2>4, <3>3 DEF value, cell
    <3> QED BY <1>4, <2>2, <3>2, <3>3
  <2> QED BY <2>5 DEF cell, value
<1> QED BY <1>7, <1>8, <1>9, <1>10

\* The same function goes on: its pieces are the same.
LEMMA SamePieces ==
    ASSUME UNCHANGED <<M, N, func>>, func_list'[func].description = func_list[func].description
    PROVE  Pieces' = Pieces /\ \A k : Accesses(k)' = Accesses(k)
BY DEF Pieces, Accesses, BlocksAlong, transpose_submit, trans_function, trans

\* Advance stays in the piece or goes on to the next one.
LEMMA AdvanceKeepsShape ==
    ASSUME Sized, Registered, piece \in 0 .. Pieces, piece < Pieces, at \in Nat, Advance
    PROVE  /\ piece' \in 0 .. Pieces /\ at' \in Nat /\ (piece' = Pieces => at' = 0)
           /\ \/ piece' = piece + 1 /\ at' = 0 /\ EndsPiece
              \/ piece' = piece /\ at' = at + LUMP
<1>1. Pieces \in Nat /\ LUMP \in Nat
  BY PiecesExist, LumpAssumption
<1> QED BY <1>1 DEF Advance

LEMMA TracegenKeepsInv ==
    ASSUME TransInv, Tracegen
    PROVE  TransInv'
<1>1. /\ step = "tracegen" /\ piece < Pieces /\ memory' = After(memory, Lump) /\ Advance
      /\ UNCHANGED <<M, N, func, step, func_list>>
  BY DEF Tracegen
<1>2. /\ Sized /\ FuncsRegistered /\ Registered /\ func \in 1 .. 2
      /\ piece \in 0 .. Pieces /\ at \in Nat /\ AllKept
  BY <1>1 DEF TransInv, TransShape, FuncsRegistered, RegisteredList, Registered
<1>3. Pieces' = Pieces /\ \A k : Accesses(k)' = Accesses(k)
  BY <1>1, SamePieces
<1>4. Sized' /\ FuncsRegistered'
  BY <1>1, <1>2 DEF Sized, FuncsRegistered
<1>5. /\ piece' \in 0 .. Pieces /\ at' \in Nat /\ (piece' = Pieces => at' = 0)
      /\ \/ piece' = piece + 1 /\ at' = 0 /\ EndsPiece
         \/ piece' = piece /\ at' = at + LUMP
  BY <1>1, <1>2, AdvanceKeepsShape
<1>6. TransShape'
  BY <1>1, <1>2, <1>3, <1>4, <1>5 DEF TransShape
<1>7. /\ OnlyRightCells' /\ OnlyRightValues'
      /\ \A cell : Kept(cell) => Kept(cell)'
      /\ \A x \in Elements(Lump) : IsStore(x) => Kept(x.cell)'
  BY <1>1, LumpKeepsMemory
<1>8. Pieces \in Nat /\ piece \in 0 .. Pieces - 1
  BY <1>1, <1>2, PiecesExist
\* The accesses of this piece up to those of the lump.
<1>9. ASSUME NEW n \in DOMAIN Accesses(piece), n <= at + LUMP,
             NEW x, x = Accesses(piece)[n], IsStore(x)
      PROVE  Kept(x.cell)'
  <2>1. n \in Nat
    BY <1>2, <1>8, PieceStoresRight
  <2>2. CASE n <= at
    BY <1>1, <1>2, <1>7, <1>9, <2>2 DEF AllKept
  <2>3. CASE at < n
    <3>1. x \in Elements(Lump)
      BY <1>2, <1>8, <1>9, <2>3, LumpIsOfPiece
    <3> QED BY <1>7, <1>9, <3>1
  <2> QED BY <1>2, <2>1, <2>2, <2>3
<1>10. \A k \in 0 .. piece - 1 : \A x \in Elements(Accesses(k)) : IsStore(x) => Kept(x.cell)'
  BY <1>2, <1>7 DEF AllKept
<1>11. CASE piece' = piece + 1 /\ at' = 0 /\ EndsPiece
  <2>1. ASSUME NEW x \in Elements(Accesses(piece)), IsStore(x)
        PROVE  Kept(x.cell)'
    <3>1. PICK n \in DOMAIN Accesses(piece) : x = Accesses(piece)[n]
      BY <2>1 DEF Elements
    <3>2. n <= at + LUMP
      <4>1. /\ DOMAIN Accesses(piece) = 1 .. Len(Accesses(piece))
            /\ Len(Accesses(piece)) \in Nat
        BY <1>2, <1>8, PieceStoresRight
      <4>2. at + LUMP >= Len(Accesses(piece))
        BY <1>11 DEF EndsPiece
      <4> QED BY <1>2, <4>1, <4>2, LumpAssumption
    <3> QED BY <1>9, <2>1, <3>1, <3>2
  <2>2. \A k \in 0 .. piece' - 1 : k = piece \/ k \in 0 .. piece - 1
    BY <1>8, <1>11
  <2>3. \A k \in 0 .. piece' - 1 : \A x \in Elements(Accesses(k)) : IsStore(x) => Kept(x.cell)'
    BY <1>10, <2>1, <2>2
  <2>4. ASSUME piece' < Pieces, NEW n \in DOMAIN Accesses(piece')
        PROVE  ~(n <= at')
    <3>1. piece' \in 0 .. Pieces - 1
      BY <1>5, <1>8, <2>4
    <3>2. Accesses(piece') \in Seq(Right)
      BY <1>2, <3>1, PieceStoresRight
    <3>3. n \in Nat \ {0}
      BY <2>4, <3>2
    <3> QED BY <1>11, <3>3
  <2>5. AllKept'
    BY <1>3, <2>3, <2>4 DEF AllKept, Elements, IsStore
  <2> QED BY <1>6, <1>7, <2>5 DEF TransInv
<1>12. CASE piece' = piece /\ at' = at + LUMP
  <2>1. \A n \in DOMAIN Accesses(piece) : \A x :
            n <= at + LUMP /\ x = Accesses(piece)[n] /\ IsStore(x) => Kept(x.cell)'
    BY <1>9
  <2>2. AllKept'
    BY <1>3, <1>10, <1>12, <2>1 DEF AllKept, Elements, IsStore, Kept
  <2> QED BY <1>6, <1>7, <2>2 DEF TransInv
<1> QED BY <1>5, <1>11, <1>12

LEMMA CheckSizesKeepsInv ==
    ASSUME TransInv, CheckSizes
    PROVE  TransInv'
<1>1. PICK size \in Sizes : M' = size[1] /\ N' = size[2]
  BY DEF CheckSizes
<1>2. M' \in Nat /\ N' \in Nat
  BY <1>1, SizesAssumption
<1>3. step = "main" /\ func = 1 /\ at = 0 /\ UNCHANGED <<func, at>>
  BY DEF CheckSizes, TransInv, TransShape
<1>4. CASE step' = "end"
  BY <1>4 DEF TransInv, TransShape
<1>5. CASE step' # "end"
  <2>1. /\ M' # 0 /\ N' # 0 /\ step' = "register"
        /\ func_list' = [f \in 1 .. Len(registerFunctions) |->
                [description |-> registerFunctions[f], correct |-> 0,
                 hits |-> 0, misses |-> 0, evictions |-> 0]]
    BY <1>5 DEF CheckSizes
  <2>2. Len(registerFunctions) = 2
    BY DEF registerFunctions
  <2> DEFINE V == {0, registerFunctions[1], registerFunctions[2]}
  <2>3. \A f \in 1 .. 2 : registerFunctions[f] \in V /\ 0 \in V
    OBVIOUS
  <2> HIDE DEF V
  <2>4. func_list' \in [1 .. 2 -> Entry(V)]
    BY <2>1, <2>2, <2>3 DEF Entry
  <2>5. \A f \in 1 .. 2 : func_list'[f].description = registerFunctions[f]
    BY <2>1, <2>2
  <2>6. FuncsRegistered'
    BY <2>4, <2>5 DEF FuncsRegistered, RegisteredList, Entry
  <2>7. Sized'
    BY <1>2, <2>1 DEF Sized
  <2> QED BY <1>3, <2>1, <2>6, <2>7 DEF TransInv, TransShape
<1> QED BY <1>4, <1>5

LEMMA EvaluateKeepsInv ==
    ASSUME TransInv, Evaluate
    PROVE  TransInv'
<1>1. /\ step = "register" /\ func <= Len(func_list) /\ step' = "tracegen" /\ piece' = 0
      /\ memory' = [c \in 0 .. M * N - 1 |-> Random]
      /\ UNCHANGED <<M, N, func, at, func_list>>
  BY DEF Evaluate
<1>2. Sized /\ FuncsRegistered /\ func \in 1 .. 3 /\ at = 0
  BY <1>1 DEF TransInv, TransShape
<1>3. Len(func_list) = 2
  BY <1>2 DEF FuncsRegistered, RegisteredList
<1>4. func \in 1 .. 2 /\ Registered
  BY <1>1, <1>2, <1>3 DEF FuncsRegistered, RegisteredList, Registered
<1>5. Pieces' = Pieces /\ \A k : Accesses(k)' = Accesses(k)
  BY <1>1, SamePieces
<1>6. Pieces \in Nat \ {0}
  BY <1>2, <1>4, PiecesExist
<1>7. TransShape'
  <2>1. Sized' /\ FuncsRegistered'
    BY <1>1, <1>2 DEF Sized, FuncsRegistered
  <2> QED BY <1>1, <1>2, <1>4, <1>5, <1>6, <2>1 DEF TransShape
<1>8. OnlyRightCells'
  BY <1>1 DEF OnlyRightCells
<1>9. OnlyRightValues'
  <2> SUFFICES ASSUME NEW r \in 0 .. N - 1, NEW c \in 0 .. M - 1
               PROVE  memory'[c * N + r] = Random
    BY <1>1 DEF OnlyRightValues, Random
  <2>1. c * N + r \in 0 .. M * N - 1
    BY <1>2, CellsOfB DEF Sized
  <2> QED BY <1>1, <2>1
<1>10. AllKept'
  <2>1. Accesses(0) \in Seq(Right)
    BY <1>2, <1>4, <1>6, PieceStoresRight
  <2>2. \A n \in DOMAIN Accesses(0) : ~(n <= 0)
    BY <2>1
  <2>3. (piece < Pieces =>
            \A n \in DOMAIN Accesses(piece) :
                n <= at /\ IsStore(Accesses(piece)[n]) => Kept(Accesses(piece)[n].cell))'
    BY <1>1, <1>2, <1>5, <2>2
  <2>4. (\A k \in 0 .. piece - 1 : \A x \in Elements(Accesses(k)) : IsStore(x) => Kept(x.cell))'
    BY <1>1
  <2> QED BY <2>3, <2>4 DEF AllKept
<1> QED BY <1>7, <1>8, <1>9, <1>10 DEF TransInv

\* A result that is written into func_list leaves the functions as they are.
LEMMA ResultsWritten ==
    ASSUME NEW list, RegisteredList(list), NEW f \in 1 .. 2, NEW v
    PROVE  /\ RegisteredList([list EXCEPT ![f].correct = v])
           /\ RegisteredList([list EXCEPT ![f].hits = v])
           /\ RegisteredList([list EXCEPT ![f].misses = v])
           /\ RegisteredList([list EXCEPT ![f].evictions = v])
<1>1. PICK V : list \in [1 .. 2 -> Entry(V)]
  BY DEF RegisteredList
<1> DEFINE W == V \cup {v}
<1>2. \A g \in 1 .. 2 : list[g] \in Entry(W)
  BY <1>1 DEF Entry
<1>3. v \in W
  OBVIOUS
<1> HIDE DEF W
<1>4. /\ [list EXCEPT ![f].correct = v] \in [1 .. 2 -> Entry(W)]
      /\ [list EXCEPT ![f].hits = v] \in [1 .. 2 -> Entry(W)]
      /\ [list EXCEPT ![f].misses = v] \in [1 .. 2 -> Entry(W)]
      /\ [list EXCEPT ![f].evictions = v] \in [1 .. 2 -> Entry(W)]
  BY <1>1, <1>2, <1>3 DEF Entry
<1>5. \A g \in 1 .. 2 :
        /\ [list EXCEPT ![f].correct = v][g].description = registerFunctions[g]
        /\ [list EXCEPT ![f].hits = v][g].description = registerFunctions[g]
        /\ [list EXCEPT ![f].misses = v][g].description = registerFunctions[g]
        /\ [list EXCEPT ![f].evictions = v][g].description = registerFunctions[g]
  BY <1>1 DEF Entry, RegisteredList
<1> QED BY <1>4, <1>5 DEF RegisteredList

LEMMA ValidateKeepsInv ==
    ASSUME TransInv, Validate
    PROVE  TransInv'
<1>1. step = "tracegen" /\ piece = Pieces /\ piece' = 0 /\ UNCHANGED <<M, N, at>>
  BY DEF Validate
<1>2. Sized /\ FuncsRegistered /\ func \in 1 .. 2 /\ at = 0 /\ Registered
  BY <1>1 DEF TransInv, TransShape, FuncsRegistered, RegisteredList, Registered
<1>3. Sized'
  BY <1>1, <1>2 DEF Sized
<1>4. CASE validate
  <2>1. /\ func_list' = [func_list EXCEPT ![func].correct = 1]
        /\ step' = "csim" /\ func' = func
    BY <1>4 DEF Validate
  <2>2. FuncsRegistered'
    BY <1>2, <2>1, ResultsWritten DEF FuncsRegistered
  <2>3. func_list'[func].description = func_list[func].description
    BY <1>2, <2>1, <2>2 DEF FuncsRegistered, RegisteredList
  <2>4. Pieces' = Pieces
    BY <1>1, <2>1, <2>3, SamePieces
  <2>5. Pieces \in Nat \ {0}
    BY <1>2, PiecesExist
  <2> QED BY <1>1, <1>2, <1>3, <2>1, <2>2, <2>4, <2>5 DEF TransInv, TransShape
<1>5. CASE ~validate
  <2>1. func' = func + 1 /\ step' = "register" /\ func_list' = func_list
    BY <1>5 DEF Validate
  <2>2. FuncsRegistered'
    BY <1>2, <2>1 DEF FuncsRegistered
  <2> QED BY <1>1, <1>2, <1>3, <2>1, <2>2 DEF TransInv, TransShape
<1> QED BY <1>4, <1>5

LEMMA SimulateKeepsInv ==
    ASSUME TransInv, Simulate
    PROVE  TransInv'
<1>1. /\ step = "csim" /\ piece < Pieces /\ Advance
      /\ UNCHANGED <<M, N, func, step, func_list>>
  BY DEF Simulate
<1>2. /\ Sized /\ FuncsRegistered /\ Registered /\ func \in 1 .. 2
      /\ piece \in 0 .. Pieces /\ at \in Nat
  BY <1>1 DEF TransInv, TransShape, FuncsRegistered, RegisteredList, Registered
<1>3. Pieces' = Pieces
  BY <1>1, SamePieces
<1>4. piece' \in 0 .. Pieces /\ at' \in Nat /\ (piece' = Pieces => at' = 0)
  BY <1>1, <1>2, AdvanceKeepsShape
<1>5. Sized' /\ FuncsRegistered'
  BY <1>1, <1>2 DEF Sized, FuncsRegistered
<1> QED BY <1>1, <1>2, <1>3, <1>4, <1>5 DEF TransInv, TransShape

LEMMA CollectKeepsInv ==
    ASSUME TransInv, Collect
    PROVE  TransInv'
<1>1. /\ step = "csim" /\ piece = Pieces /\ func' = func + 1 /\ step' = "register"
      /\ func_list' = [func_list EXCEPT ![func].hits = cache.hits,
                                        ![func].misses = cache.misses,
                                        ![func].evictions = cache.evictions]
      /\ UNCHANGED <<M, N, at>>
  BY DEF Collect
<1>2. Sized /\ RegisteredList(func_list) /\ func \in 1 .. 2 /\ at = 0
  BY <1>1 DEF TransInv, TransShape, FuncsRegistered
<1> DEFINE withHits == [func_list EXCEPT ![func].hits = cache.hits]
           withMisses == [withHits EXCEPT ![func].misses = cache.misses]
<1>3. func_list' = [withMisses EXCEPT ![func].evictions = cache.evictions]
  BY <1>1
<1>4. RegisteredList(withHits)
  BY <1>2, ResultsWritten
<1> HIDE DEF withHits
<1>5. RegisteredList(withMisses)
  BY <1>2, <1>4, ResultsWritten
<1> HIDE DEF withMisses
<1>6. FuncsRegistered'
  BY <1>2, <1>3, <1>5, ResultsWritten DEF FuncsRegistered
<1>7. Sized'
  BY <1>1, <1>2 DEF Sized
<1> QED BY <1>1, <1>2, <1>6, <1>7 DEF TransInv, TransShape

\* Whatever the dimensions, each function leaves the transpose of A in B once it has run,
\* and nothing else but the cells of the diagonal behind B.
THEOREM BothTranspose == TransSpec => []TransposesAndSpills
<1>1. TransInit => TransInv
  BY DEF TransInit, TransInv, TransShape
<1>2. TransInv /\ [TransNext]_trans_vars => TransInv'
  <2> SUFFICES ASSUME TransInv, [TransNext]_trans_vars PROVE TransInv'
    OBVIOUS
  <2>1. CASE CheckSizes
    BY <2>1, CheckSizesKeepsInv
  <2>2. CASE Evaluate
    BY <2>2, EvaluateKeepsInv
  <2>3. CASE Tracegen
    BY <2>3, TracegenKeepsInv
  <2>4. CASE Validate
    BY <2>4, ValidateKeepsInv
  <2>5. CASE Simulate
    BY <2>5, SimulateKeepsInv
  <2>6. CASE Collect
    BY <2>6, CollectKeepsInv
  <2>7. CASE Summary \/ sigalrm_handler
    BY <2>7 DEF Summary, sigalrm_handler, TransInv, TransShape
  <2>8. CASE UNCHANGED trans_vars
    <3>1. UNCHANGED <<M, N, func, step, piece, at, memory, func_list>>
      BY <2>8 DEF trans_vars
    <3>2. Pieces' = Pieces /\ \A k : Accesses(k)' = Accesses(k)
      BY <3>1, SamePieces
    <3>3. TransShape'
      BY <3>1, <3>2 DEF TransInv, TransShape, Sized, FuncsRegistered
    <3>4. step = "tracegen" => OnlyRightCells' /\ OnlyRightValues'
      BY <3>1 DEF TransInv, OnlyRightCells, OnlyRightValues, Spilled
    <3>5. step = "tracegen" => AllKept'
      BY <3>1, <3>2 DEF TransInv, AllKept, Kept, Elements, IsStore
    <3> QED BY <3>1, <3>3, <3>4, <3>5 DEF TransInv
  <2> QED BY <2>1, <2>2, <2>3, <2>4, <2>5, <2>6, <2>7, <2>8 DEF TransNext
<1>3. TransInv => TransposesAndSpills
  BY FinishedIsRight DEF TransposesAndSpills
<1> QED BY <1>1, <1>2, <1>3, PTL DEF TransSpec
=============================================================================
