------------------------------ MODULE TestTrans ------------------------------
(***************************************************************************)
(* test-trans of ASSN/ASSN4 (test-trans.c, tracegen.c, cachelab.c): each   *)
(* registered transposition runs under tracegen, is validated, and the     *)
(* accesses it made are replayed on a direct mapped cache.  The trace file *)
(* is a function of the program, so that it is generated again, piece by   *)
(* piece, while it is replayed; the few accesses between the markers that  *)
(* are not to A or B are left out.  csim-ref is an external program.       *)
(***************************************************************************)
EXTENDS Trans, FiniteSetsExt

CONSTANTS
    Sizes,  \* pairs of -M and -N
    MAXN,   \* largest dimension
    LUMP    \* accesses made in a step

\* A dimension that is missing on the command line is 0.
ASSUME SizesAssumption == Sizes \subseteq Nat \X Nat /\ MAXN \in Nat
ASSUME LumpAssumption == LUMP \in Nat \ {0}

VARIABLES
    M, N,      \* the dimensions
    func,      \* function under evaluation
    step,      \* "main", "tracegen", "csim", "end"
    piece,     \* the next piece of the function: a block or a row
    at,        \* accesses of the piece made so far
    memory,    \* cells of B, and behind it, to what they hold
    cache,     \* what csim-ref has counted
    func_list, \* the registered functions with their results
    trans_results, \* the ones of the submission
    printed    \* TEST_TRANS_RESULTS, empty when there are none

trans_vars == <<M, N, func, step, piece, at, memory, cache, func_list, trans_results, printed>>

\* The cache of eval_perf(5, 1, 5): the lines have 8 ints.
Sets == 32
LINE == 8
C == INSTANCE Lru WITH SetIndices <- 0 .. Sets - 1, E <- 1

INT_MAX == 2147483647

\* What initMatrix leaves in B.
Random == -1

registerFunctions == <<"Transpose submission", "Simple row-wise scan transpose">>

Pieces == IF func_list[func].description = "Transpose submission" THEN BlocksAlong(N) * BlocksAlong(M) ELSE N

Accesses(k) ==
    IF func_list[func].description = "Transpose submission"
    THEN transpose_submit(M, N, k)
    ELSE trans(M, N, k)

\* The next accesses of the piece, and whether they are its last ones.
Lump == SubSeq(Accesses(piece), at + 1, Least(at + LUMP, Len(Accesses(piece))))
EndsPiece == at + LUMP >= Len(Accesses(piece))
Advance ==
    IF EndsPiece THEN piece' = piece + 1 /\ at' = 0
                 ELSE at' = at + LUMP /\ UNCHANGED piece

\* What the accesses leave in B and behind it: the last value stored to each cell.
After(held, accesses) ==
    LET stores(cell) == {k \in DOMAIN accesses : accesses[k].matrix = "B" /\ accesses[k].cell = cell}
        written == {accesses[k].cell : k \in {k \in DOMAIN accesses : accesses[k].matrix = "B"}}
    IN  [c \in DOMAIN held \cup written |->
            IF c \in written THEN accesses[Max(stores(c))].value ELSE held[c]]

\* A and B are 256 x 256 and start at the same set.
Line(access) == access.cell \div LINE + IF access.matrix = "A" THEN 0 ELSE (MAXN * MAXN) \div LINE

Replay(l, accesses) ==
    LET after[k \in 0 .. Len(accesses)] ==
            IF k = 0 THEN l
            ELSE C!LruAccess(after[k - 1], Line(accesses[k]) % Sets, Line(accesses[k]) \div Sets)
    IN  after[Len(accesses)]

\* The comparison of B with what correctTrans stores.
validate ==
    \A r \in 0 .. N - 1, c \in 0 .. M - 1 : memory[c * N + r] = r * M + c

TransInit ==
    /\ M = 0 /\ N = 0
    /\ func = 1
    /\ step = "main"
    /\ piece = 0 /\ at = 0
    /\ memory = <<>>
    /\ cache = C!EmptyLru
    /\ func_list = <<>>
    /\ trans_results = [funcid |-> -1, correct |-> 0, misses |-> INT_MAX]
    /\ printed = <<>>

\* main's checks and the registration; a dimension of 0 is a missing argument.
CheckSizes ==
    /\ step = "main"
    /\ \E size \in Sizes :
        /\ M' = size[1] /\ N' = size[2]
        /\ IF M' = 0 \/ N' = 0 \/ M' > MAXN \/ N' > MAXN
           THEN step' = "end" /\ UNCHANGED func_list
           ELSE /\ step' = "register"
                /\ func_list' = [f \in 1 .. Len(registerFunctions) |->
                        [description |-> registerFunctions[f], correct |-> 0,
                         hits |-> 0, misses |-> 0, evictions |-> 0]]
    /\ UNCHANGED <<func, piece, at, memory, cache, trans_results, printed>>

\* eval_perf takes the next function; tracegen fills B with random numbers.
Evaluate ==
    /\ step = "register"
    /\ func <= Len(func_list)
    /\ trans_results' = IF func_list[func].description = "Transpose submission"
                        THEN [trans_results EXCEPT !.funcid = func] ELSE trans_results
    /\ memory' = [c \in 0 .. M * N - 1 |-> Random]
    /\ step' = "tracegen"
    /\ piece' = 0
    /\ UNCHANGED <<M, N, func, at, cache, func_list, printed>>

\* A piece of the function, run by tracegen.
Tracegen ==
    /\ step = "tracegen"
    /\ piece < Pieces
    /\ memory' = After(memory, Lump)
    /\ Advance
    /\ UNCHANGED <<M, N, func, step, cache, func_list, trans_results, printed>>

\* tracegen's exit status: a function that fails is skipped.
Validate ==
    /\ step = "tracegen"
    /\ piece = Pieces
    /\ IF validate
       THEN /\ func_list' = [func_list EXCEPT ![func].correct = 1]
            /\ trans_results' = IF trans_results.funcid = func
                                THEN [trans_results EXCEPT !.correct = 1] ELSE trans_results
            /\ step' = "csim"
            /\ cache' = C!EmptyLru
            /\ UNCHANGED func
       ELSE /\ func' = func + 1
            /\ step' = "register"
            /\ UNCHANGED <<func_list, trans_results, cache>>
    /\ piece' = 0
    /\ UNCHANGED <<M, N, at, memory, printed>>

\* A piece of the filtered trace, replayed by csim-ref.
Simulate ==
    /\ step = "csim"
    /\ piece < Pieces
    /\ cache' = Replay(cache, Lump)
    /\ Advance
    /\ UNCHANGED <<M, N, func, step, memory, func_list, trans_results, printed>>

\* csim-ref has written .csim_results and eval_perf reads it.
Collect ==
    /\ step = "csim"
    /\ piece = Pieces
    /\ func_list' = [func_list EXCEPT ![func].hits = cache.hits,
                                      ![func].misses = cache.misses,
                                      ![func].evictions = cache.evictions]
    /\ trans_results' = IF trans_results.funcid = func
                        THEN [trans_results EXCEPT !.misses = cache.misses] ELSE trans_results
    /\ func' = func + 1
    /\ step' = "register"
    /\ UNCHANGED <<M, N, piece, at, memory, cache, printed>>

Summary ==
    /\ step = "register"
    /\ func > Len(func_list)
    /\ printed' = IF trans_results.funcid = -1 THEN <<0, 0>>
                  ELSE <<trans_results.correct, trans_results.misses>>
    /\ step' = "end"
    /\ UNCHANGED <<M, N, func, piece, at, memory, cache, func_list, trans_results>>

\* alarm(120) goes off, whatever test-trans is waiting for.
sigalrm_handler ==
    /\ step \in {"register", "tracegen", "csim"}
    /\ printed' = <<0, 0>>
    /\ step' = "end"
    /\ UNCHANGED <<M, N, func, piece, at, memory, cache, func_list, trans_results>>

TransNext ==
    \/ CheckSizes \/ Evaluate \/ Tracegen \/ Validate \/ Simulate \/ Collect \/ Summary
    \/ sigalrm_handler

TransSpec == TransInit /\ [][TransNext]_trans_vars

-----------------------------------------------------------------------------
\* Cells behind B that the diagonal blocks of transpose_submit store to: A[row][row] for
\* the rows that the last diagonal block has beyond B.
Spilled ==
    {row * N + row : row \in M .. Least(N, BLOCK * BlocksAlong(M)) - 1}

\* Each function stores the transpose of A in B, whatever the dimensions.  Nothing else
\* is stored to, apart from the cells of the diagonal that blocking_diag takes for cells
\* of B when B has fewer rows than columns: they lie behind B.
TransposesAndSpills ==
    step = "tracegen" /\ piece = Pieces =>
        /\ validate
        /\ DOMAIN memory \ (0 .. M * N - 1) =
                IF func = 1 THEN Spilled ELSE {}

\* Hits, misses and evictions that the report of the assignment gives for the graded
\* sizes.
Reported(m, n) ==
    CASE m = 32 /\ n = 32 -> <<[hits |-> 1766, misses |-> 287, evictions |-> 255],
                               [hits |-> 870, misses |-> 1183, evictions |-> 1151]>>
      [] m = 64 /\ n = 64 -> <<[hits |-> 6842, misses |-> 1355, evictions |-> 1323],
                               [hits |-> 3474, misses |-> 4723, evictions |-> 4691]>>
      [] m = 61 /\ n = 67 -> <<[hits |-> 6225, misses |-> 1960, evictions |-> 1928],
                               [hits |-> 3756, misses |-> 4423, evictions |-> 4391]>>
      [] OTHER -> <<>>

\* Accesses between the markers that are not to A or B: the two markers themselves and
\* three more.
OTHER_ACCESSES == 5

\* The evaluation counts what was measured: the accesses to A and B are those of the
\* report but for the few to other cells, which hit or miss (docs/20190084 198-261).
CountsAsReported ==
    step = "end" /\ printed # <<>> /\ printed # <<0, 0>> =>
        \A f \in DOMAIN Reported(M, N) :
            LET measured == Reported(M, N)[f]
                counted == func_list[f]
            IN  /\ counted.hits + counted.misses + OTHER_ACCESSES = measured.hits + measured.misses
                /\ counted.misses \in measured.misses - OTHER_ACCESSES .. measured.misses
                /\ counted.evictions \in measured.evictions - OTHER_ACCESSES .. measured.evictions
=============================================================================
