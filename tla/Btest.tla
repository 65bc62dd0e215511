-------------------------------- MODULE Btest --------------------------------
(***************************************************************************)
(* The test program of the data lab (ASSN/ASSN1/btest.c): for each puzzle  *)
(* it generates argument values, arms a timer, and compares the solution   *)
(* with the test function until the first difference.  A solution that     *)
(* loops is left by a jump out of the handler of SIGALRM.                  *)
(***************************************************************************)
EXTENDS WordFormat, Sequences, FiniteSetsExt

CONSTANTS
    TEST_RANGE,     \* values generated around each boundary
    MAX_TEST_VALS,  \* size of the array of values of an argument
    timeout_limit,  \* seconds, 0 for no timer
    test_sets,      \* the puzzles: [name, args, ranges, rating], one set is chosen
    Passes(_, _, _) \* the solution of a puzzle gives what its test function gives

\* MAX_TEST_VALS is 13*TEST_RANGE, with a TEST_RANGE of 500000.
ASSUME RangeAssumption ==
    /\ TEST_RANGE \in Nat /\ TEST_RANGE >= 4
    /\ MAX_TEST_VALS \in Nat /\ MAX_TEST_VALS >= 13 * TEST_RANGE /\ MAX_TEST_VALS < Sign
ASSUME LimitAssumption == timeout_limit \in Nat
\* No puzzle of decl.c has three arguments; the ends of a range are ints.
Ints == (0 - Sign) .. (Sign - 1)
ASSUME PuzzlesAssumption ==
    \A set \in test_sets :
        /\ set \in Seq([name : STRING, args : 0 .. 2, ranges : Seq(Ints \X Ints), rating : Int])
        /\ set # <<>>
        /\ \A k \in DOMAIN set : Len(set[k].ranges) >= set[k].args

VARIABLES
    btest_stage,  \* of test_function: "vals", "setjmp", "alarm", "test"; of the program:
                  \* "start", "total", "done", "lost" when it has left its stack, and
                  \* "overrun" when gen_vals writes without end
    test_set,
    current,      \* the puzzle being tested
    arg_vals,     \* the values generated, a set for each argument
    test_counts,  \* how many elements of its array each of them fills
    timer,        \* seconds until SIGALRM, 0 when the timer is off
    pending,      \* SIGALRM has not been delivered yet
    blocked,      \* SIGALRM is blocked
    envbuf,       \* the puzzle whose frame sigsetjmp saved, 0 for none; and its mask
    worked,       \* seconds that the current puzzle has been tested for (history)
    results       \* [errors, timedout, worked] for each puzzle that is over

bvars == <<btest_stage, test_set, current, arg_vals, test_counts, timer, pending, blocked, envbuf,
           worked, results>>

puzzle == test_set[current]
Hangs(p) == p.name = "loop"

-----------------------------------------------------------------------------
(* gen_vals *)

\* The bit patterns around which floats are tested.
smallest_norm == 2^FRAC
one == Bias * 2^FRAC
largest_norm == (2^EXP - 2) * 2^FRAC
nan == Infinity + 2^(FRAC - 1)

FloatVals(range) ==
    LET positive == UNION {{i, smallest_norm + i, smallest_norm - i, one + i, one - i, largest_norm - i} :
                              i \in 0 .. (range - 1)} \cup {Infinity, nan}
    IN  positive \cup {Sign + v : v \in positive}

\* Some random values between min and max, which the model leaves out.
IntVals(min, max, range) ==
    UNION {{min + i, max - i} \cup {v \in {i, 0 - i} : min <= v /\ v <= max} : i \in 0 .. (range - 1)}

IsFloat(r) == r = <<1, 1>>

\* max - MAX_TEST_VALS may be less than any int.  That is undefined: it wraps, or not.
LeastMin(r, wraps) ==
    LET least == r[2] - MAX_TEST_VALS
    IN  IF wraps /\ least < 0 - Sign THEN least + 2 * Sign ELSE least
\* Variant: one value too many.
ExhaustivePlusOne(r, wraps) == LeastMin(r, wraps) - 1 <= r[1]
Exhaustive(r, wraps) == LeastMin(r, wraps) <= r[1]

gen_vals(r, range, wraps) ==
    IF IsFloat(r) THEN FloatVals(IF range > 2^FRAC THEN 2^FRAC ELSE range)
    ELSE IF Exhaustive(r, wraps) THEN r[1] .. r[2]
    ELSE IntVals(r[1], r[2], range)

\* How many elements of the array gen_vals writes.
TestCount(r, range, wraps) ==
    IF IsFloat(r) THEN 12 * (IF range > 2^FRAC THEN 2^FRAC ELSE range) + 4
    ELSE IF Exhaustive(r, wraps) THEN (IF r[1] > r[2] THEN 0 ELSE r[2] - r[1] + 1)
    ELSE 3 * range + Cardinality({i \in 0 .. (range - 1) : r[1] <= i /\ i <= r[2]})
                   + Cardinality({i \in 0 .. (range - 1) : r[1] <= 0 - i /\ 0 - i <= r[2]})

\* Every int is at most the greatest one: the loop i <= max does not end when i wraps.
Endless(r) == ~IsFloat(r) /\ Exhaustive(r, TRUE) /\ r[1] <= r[2] /\ r[2] = Sign - 1

\* The range shrinks with the number of arguments, but not below 1.
Root(n) == Max({k \in 1 .. n : k * k <= n})
ArgRange(args) == IF args = 1 THEN TEST_RANGE ELSE Root(TEST_RANGE)

-----------------------------------------------------------------------------
(* test_function *)

\* Testing stops at the first difference: a puzzle has one error or none.
ErrorsOf(p, vals) ==
    LET words(a) == IF a > p.args THEN {0} ELSE {Word(v) : v \in vals[a]}
    IN  IF \A x \in words(1), y \in words(2) : Passes(p.name, x, y) THEN 0 ELSE 1

Result(errors, timedout) == [errors |-> errors, timedout |-> timedout, worked |-> worked]

\* test_function returns: run_tests goes on to the next puzzle, the timer runs on.
TestReturns(errors, timedout) ==
    /\ results' = Append(results, Result(errors, timedout))
    /\ current' = current + 1
    /\ btest_stage' = IF current = Len(test_set) THEN "total" ELSE "vals"

NoFrame == [puzzle |-> 0, blocked |-> FALSE]

BtestInit ==
    /\ btest_stage = "start" /\ test_set = <<>> /\ current = 1 /\ arg_vals = <<>> /\ test_counts = <<>>
    /\ timer = 0 /\ pending = FALSE /\ blocked = FALSE
    /\ envbuf = NoFrame /\ worked = 0 /\ results = <<>>

RunTests ==
    /\ btest_stage = "start"
    /\ test_set' \in test_sets
    /\ btest_stage' = "vals"
    /\ UNCHANGED <<current, arg_vals, test_counts, timer, pending, blocked, envbuf, worked, results>>

\* The sum of an int and the loop over a range overflow in ways that C does not define.
GenVals ==
    /\ btest_stage = "vals"
    /\ \E wraps \in [1 .. puzzle.args -> BOOLEAN] :
        LET range == ArgRange(puzzle.args) IN
        /\ arg_vals' = [a \in 1 .. puzzle.args |-> gen_vals(puzzle.ranges[a], range, wraps[a])]
        /\ test_counts' = [a \in 1 .. puzzle.args |-> TestCount(puzzle.ranges[a], range, wraps[a])]
    /\ worked' = 0
    /\ btest_stage' = "setjmp"
    /\ UNCHANGED <<test_set, current, timer, pending, blocked, envbuf, results>>

\* What the program does after it has written past its arrays is left out.
GenValsOverruns ==
    /\ btest_stage = "vals"
    /\ \E a \in 1 .. puzzle.args : Endless(puzzle.ranges[a])
    /\ btest_stage' = "overrun"
    /\ UNCHANGED <<test_set, current, arg_vals, test_counts, timer, pending, blocked, envbuf,
                   worked, results>>

\* Variant of the second argument of sigsetjmp: the mask is not saved.
MaskNotSaved(mask) == TRUE
SavedMask(mask) == mask

\* Variant of sigsetjmp: only the first one counts.
FirstFrame(k) == IF envbuf.puzzle = 0 THEN k ELSE envbuf.puzzle
FrameOf(k) == k

\* sigsetjmp, when there is a limit.
SetJmp ==
    /\ btest_stage = "setjmp"
    /\ envbuf' = IF timeout_limit > 0 THEN [puzzle |-> FrameOf(current), blocked |-> SavedMask(blocked)]
               ELSE envbuf
    /\ btest_stage' = "alarm"
    /\ UNCHANGED <<test_set, current, arg_vals, test_counts, timer, pending, blocked, worked, results>>

\* alarm(timeout_limit) replaces a timer that is still running.
Alarm ==
    /\ btest_stage = "alarm"
    /\ timer' = timeout_limit
    /\ btest_stage' = "test"
    /\ UNCHANGED <<test_set, current, arg_vals, test_counts, pending, blocked, envbuf, worked, results>>

\* The comparisons are over.
Test ==
    /\ btest_stage = "test" /\ ~Hangs(puzzle)
    /\ TestReturns(ErrorsOf(puzzle, arg_vals), FALSE)
    /\ UNCHANGED <<test_set, arg_vals, test_counts, timer, pending, blocked, envbuf, worked>>

\* A second passes, whatever the program is doing.
Tick ==
    /\ btest_stage \in {"vals", "setjmp", "alarm", "test", "total"}
    /\ timer > 0
    /\ timer' = timer - 1
    /\ pending' = (pending \/ timer = 1)
    /\ worked' = IF btest_stage = "test" THEN worked + 1 ELSE worked
    /\ UNCHANGED <<btest_stage, test_set, current, arg_vals, test_counts, blocked, envbuf, results>>

\* timeout_handler jumps to the sigsetjmp of the frame in envbuf, with the mask
\* that was saved there: into test_function when it is the frame of the puzzle
\* being tested, into a frame that is gone when test_function has returned since.
Timeout ==
    /\ btest_stage \in {"vals", "setjmp", "alarm", "test", "total"}
    /\ pending /\ ~blocked
    /\ pending' = FALSE
    /\ blocked' = envbuf.blocked
    /\ IF envbuf.puzzle = current
       THEN TestReturns(1, TRUE)
       ELSE btest_stage' = "lost" /\ UNCHANGED <<current, results>>
    /\ UNCHANGED <<test_set, arg_vals, test_counts, timer, envbuf, worked>>

\* run_tests prints the total and main returns.
Total ==
    /\ btest_stage = "total"
    /\ btest_stage' = "done"
    /\ UNCHANGED <<test_set, current, arg_vals, test_counts, timer, pending, blocked, envbuf,
                   worked, results>>

BtestNext ==
    \/ RunTests \/ GenVals \/ GenValsOverruns \/ SetJmp \/ Alarm \/ Test \/ Total
    \/ Tick \/ Timeout

\* The program comes to its next btest_stage, unless it is in a solution that hangs.
Proceeds ==
    /\ btest_stage \in {"vals", "setjmp", "alarm", "test", "total"}
    /\ btest_stage = "test" => ~Hangs(puzzle)
    /\ btest_stage' \in {"setjmp", "alarm", "test", "vals", "total", "done", "lost", "overrun"}
    /\ btest_stage' # btest_stage

\* The program runs, time passes, and a signal that is not blocked is delivered.
BtestFairness == WF_btest_stage(Proceeds) /\ WF_bvars(Tick) /\ WF_bvars(Timeout)

BtestSpec == BtestInit /\ [][BtestNext]_bvars /\ BtestFairness

-----------------------------------------------------------------------------
(* Properties *)

\* btest finds fault with a puzzle only when the timer runs out, and so not with
\* float_twice: largest_norm is the smallest number with the largest exponent, and
\* the values generated around it do not go beyond it.
OnlySlowOnesFail == \A k \in DOMAIN results : results[k].errors > 0 => results[k].timedout

\* A puzzle is stopped only after it has had its seconds, and the jump out of the
\* handler finds its frame.  The exception is a timer that the puzzle before left
\* running because it returned in time: it may run out before it is set again.
OnlyStaleTimersMislead ==
    LET leftRunning(k) == k > 0 /\ (results[k].timedout => results[k].worked < timeout_limit)
    IN  /\ \A k \in DOMAIN results :
            results[k].timedout /\ results[k].worked < timeout_limit => leftRunning(k - 1)
        /\ btest_stage = "lost" => leftRunning(current - 1)

\* An array of values is written past its end by one value, and only for a range that is
\* one larger than the array, the bound of the test in gen_vals; or without end, and only
\* for a range up to the greatest int that is not larger than that (btest.c, lines 198-200).
GenValsFit ==
    LET Span(a) == puzzle.ranges[a][2] - puzzle.ranges[a][1]
    IN  /\ btest_stage = "setjmp" =>
            \A a \in 1 .. puzzle.args :
                test_counts[a] > MAX_TEST_VALS =>
                    test_counts[a] = MAX_TEST_VALS + 1 /\ Span(a) = MAX_TEST_VALS
        /\ btest_stage = "overrun" =>
            \E a \in 1 .. puzzle.args :
                puzzle.ranges[a][2] = Sign - 1 /\ Span(a) \in 0 .. MAX_TEST_VALS

\* The run comes to its end although solutions hang, unless it is lost in gen_vals.
RunEnds == btest_stage # "start" ~> btest_stage \in {"done", "lost", "overrun"}
=============================================================================
