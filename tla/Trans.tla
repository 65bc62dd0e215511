-------------------------------- MODULE Trans --------------------------------
(***************************************************************************)
(* The transposition functions of ASSN/ASSN4/trans.c, as the sequences of  *)
(* loads and stores they make.  A is an N x M matrix and B an M x N one,   *)
(* their cells numbered as C lays them out, row after row.  A store names  *)
(* the cell of A whose value it writes.                                    *)
(***************************************************************************)
EXTENDS Integers, Sequences

BLOCK == 8
HALF == 4

Load(M, r, c) == [matrix |-> "A", cell |-> r * M + c]
Store(N, r, c, value) == [matrix |-> "B", cell |-> r * N + c, value |-> value.cell]

\* B[c][r] = A[r][c]
Copy(M, N, r, c) == <<Load(M, r, c), Store(N, c, r, Load(M, r, c))>>

\* The iterations of for (i = lo; i < hi; ++i), one after the other.
For(lo, hi, body) ==
    LET upto[n \in 0 .. hi - lo] == IF n = 0 THEN <<>> ELSE upto[n - 1] \o body[lo + n - 1]
    IN  IF lo < hi THEN upto[hi - lo] ELSE <<>>

Least(x, y) == IF x < y THEN x ELSE y

\* One row of trans.
trans(M, N, row) == For(0, M, [col \in 0 .. M - 1 |-> Copy(M, N, row, col)])

\* Variant: only whole blocks.
WholeBlock(length, start) == start + BLOCK
\* A block ends with its eight rows or columns or with those of the matrix.
BlockEnd(length, start) == Least(length, start + BLOCK)

OthersOfRow(M, N, COL, row) ==
    For(COL, BlockEnd(M, COL),
        [col \in COL .. BlockEnd(M, COL) - 1 |-> IF row = col THEN <<>> ELSE Copy(M, N, row, col)])

\* Variant: the value of the diagonal is not kept until the row is done.
EagerDiagRow(M, N, COL, row) == Copy(M, N, row, row) \o OthersOfRow(M, N, COL, row)
\* A[row][row] is loaded before the other cells of the row and stored after them.
DiagRow(M, N, COL, row) ==
    <<Load(M, row, row)>>
    \o OthersOfRow(M, N, COL, row)
    \o <<Store(N, row, row, Load(M, row, row))>>

\* The rows are bounded by the columns of B only.
blocking_diag(M, N, ROW, COL) ==
    For(ROW, BlockEnd(N, ROW), [row \in ROW .. BlockEnd(N, ROW) - 1 |-> DiagRow(M, N, COL, row)])

\* A row of B.
RowOfB(M, N, ROW, row) ==
    For(ROW, BlockEnd(N, ROW), [col \in ROW .. BlockEnd(N, ROW) - 1 |-> Copy(M, N, col, row)])

blocking(M, N, ROW, COL) ==
    IF ROW = COL
    THEN blocking_diag(M, N, ROW, COL)
    ELSE For(COL, BlockEnd(M, COL), [row \in COL .. BlockEnd(M, COL) - 1 |-> RowOfB(M, N, ROW, row)])

LoadFour(M, row, COL) ==
    For(COL, COL + HALF, [col \in COL .. COL + HALF - 1 |-> <<Load(M, row, col)>>])
StoreFour(M, N, row, COL) ==
    For(COL, COL + HALF,
        [col \in COL .. COL + HALF - 1 |-> <<Store(N, col, row, Load(M, row, col))>>])
Four(M, N, row, COL) == LoadFour(M, row, COL) \o StoreFour(M, N, row, COL)

\* The left half downwards, then the right half upwards; the first row of the right
\* half is loaded before everything and stored after everything.
blocking_64(M, N, ROW, COL) ==
    LoadFour(M, ROW, COL + HALF)
    \o For(0, BLOCK, [i \in 0 .. BLOCK - 1 |-> Four(M, N, ROW + i, COL)])
    \o For(1, BLOCK, [i \in 1 .. BLOCK - 1 |-> Four(M, N, ROW + BLOCK - i, COL + HALF)])
    \o StoreFour(M, N, ROW, COL + HALF)

trans_function(M, N, ROW, COL) ==
    IF M = 64 /\ N = 64 THEN blocking_64(M, N, ROW, COL) ELSE blocking(M, N, ROW, COL)

BlocksAlong(length) == (length + BLOCK - 1) \div BLOCK

\* The k-th call that transpose_submit makes, blocks of a row of blocks first.
transpose_submit(M, N, k) ==
    trans_function(M, N, BLOCK * (k \div BlocksAlong(M)), BLOCK * (k % BlocksAlong(M)))
=============================================================================
